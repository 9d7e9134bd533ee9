-------------------------------- MODULE NsHa --------------------------------
(***************************************************************************)
(* Active/standby failover of the two TFS nameservers (heart_manager.cpp). *)
(*                                                                         *)
(* Each nameserver keeps an NsRuntimeGlobalInformation (ns_define.h): its  *)
(* own role and status, its view of the other side's role and status and   *)
(* the oplog sync flag.  Two threads per nameserver change it:             *)
(*   - the timer thread runs CheckOwnerIsMasterTimerTask,                  *)
(*     MasterHeartTimerTask and SlaveHeartTimerTask one at a time; each    *)
(*     may block in a synchronous send_msg_to_server to the peer (up to 3  *)
(*     tries) and act on the reply afterwards;                             *)
(*   - the single MasterAndSlaveHeartManager worker thread answers the     *)
(*     peer's MasterAndSlaveHeartMessage (do_master_msg / do_slave_msg)    *)
(*     and HeartBeatAndNSHeartMessage (do_heartbeat_and_ns_msg).           *)
(* The floating VIP, moved by keepalived, is the environment.              *)
(*                                                                         *)
(* A request is a record in msgs until the peer's worker consumes it; the  *)
(* reply lands in rep[n] only while n still waits on the same client       *)
(* (cid): a reply to a request n already timed out on is discarded, but    *)
(* the peer has applied the request all the same.                          *)
(***************************************************************************)
EXTENDS Naturals, FiniteSets

CONSTANTS
    NS,             \* the two nameservers (model values)
    MaxVipMoves,    \* bound on keepalived moving the VIP
    MaxLoss,        \* bound on lost messages and spurious timeouts
    MaxNotify,      \* bound on HeartBeatAndNSHeartMessage with switch flag YES
    MaxCrash        \* bound on nameserver crashes (no restart)

ASSUME Cardinality(NS) = 2

VARIABLES
    role, status, otherRole, otherStatus, sync,   \* NsRuntimeGlobalInformation
    safe,       \* switch_time_ in the future: safe mode
    plans,      \* the layout manager holds plans (destroy_plan clears them)
    tpc, tcnt, tmsg,   \* timer thread: task step, try count, message being sent
    hpc,        \* heart manager worker: "idle" or spinning on the VIP
    cid, waiting, rep, msgs,   \* synchronous RPC client state and network
    vip, alive, vipMoves, losses, notifies, crashes

nsVars  == <<role, status, otherRole, otherStatus, sync, safe, plans>>
thrVars == <<tpc, tcnt, tmsg, hpc>>
netVars == <<cid, waiting, rep, msgs>>
envVars == <<vip, alive, vipMoves, losses, notifies, crashes>>
vars == <<nsVars, thrVars, netVars, envVars>>

\* enum NsStatus and enum NsSyncDataFlag (ns_define.h); the code compares them with < and >=
NS_STATUS_UNINITIALIZE == 0
NS_STATUS_OTHERSIDEDEAD == 1
NS_STATUS_ACCEPT_DS_INFO == 2
NS_STATUS_INITIALIZED == 3
NS_SYNC_DATA_FLAG_NO == 1
NS_SYNC_DATA_FLAG_READY == 2
NS_SYNC_DATA_FLAG_YES == 3
Roles == {"master", "slave"}
Status == NS_STATUS_UNINITIALIZE .. NS_STATUS_INITIALIZED
SyncFlag == NS_SYNC_DATA_FLAG_NO .. NS_SYNC_DATA_FLAG_YES

\* the do { ... } while (count < 0x03) retry bound of every peer RPC
HeartRetry == 3

Peer(n) == CHOOSE p \in NS : p # n
Opposite(r) == IF r = "master" THEN "slave" ELSE "master"

\* MasterAndSlaveHeartMessage: sender, force flag, role, status, client id
Msg == [src : NS, force : BOOLEAN, role : Roles, status : Status, cid : 0..1]
\* MasterAndSlaveHeartResponseMessage: the role and status of the responder
Reply == [cid : 0..1, role : Roles, status : Status]
NoReply == [none |-> TRUE]
TimedOut == [timeout |-> TRUE]

TypeOK ==
    /\ role \in [NS -> Roles] /\ otherRole \in [NS -> Roles]
    /\ status \in [NS -> Status] /\ otherStatus \in [NS -> Status]
    /\ sync \in [NS -> SyncFlag]
    /\ safe \in [NS -> BOOLEAN] /\ plans \in [NS -> BOOLEAN]
    /\ tpc \in [NS -> {"idle", "check", "force", "mheart", "sheart", "spin"}]
    /\ tcnt \in [NS -> 0..HeartRetry]
    /\ tmsg \in [NS -> Msg \cup {NoReply}]
    /\ hpc \in [NS -> {"idle", "spin"}]
    /\ cid \in [NS -> 0..1] /\ waiting \in [NS -> BOOLEAN]
    /\ rep \in [NS -> Reply \cup {NoReply}]
    /\ msgs \subseteq Msg
    /\ vip \in NS /\ alive \in [NS -> BOOLEAN]

(***************************************************************************)
(* Start-up (NsRuntimeGlobalInformation::initialize and the nameserver's   *)
(* start-up, not in this source): the VIP holder starts as master, the     *)
(* other as slave; each is still accepting dataserver reports or already   *)
(* initialized.                                                            *)
(***************************************************************************)
Init ==
    /\ vip \in NS
    /\ role = [n \in NS |-> IF n = vip THEN "master" ELSE "slave"]
    /\ otherRole = [n \in NS |-> IF n = vip THEN "slave" ELSE "master"]
    /\ status \in [NS -> {NS_STATUS_ACCEPT_DS_INFO, NS_STATUS_INITIALIZED}]
    /\ otherStatus = [n \in NS |-> NS_STATUS_UNINITIALIZE]
    /\ sync = [n \in NS |-> NS_SYNC_DATA_FLAG_NO]
    /\ safe = [n \in NS |-> FALSE] /\ plans = [n \in NS |-> FALSE]
    /\ tpc = [n \in NS |-> "idle"] /\ tcnt = [n \in NS |-> 0]
    /\ tmsg = [n \in NS |-> NoReply] /\ hpc = [n \in NS |-> "idle"]
    /\ cid = [n \in NS |-> 0] /\ waiting = [n \in NS |-> FALSE]
    /\ rep = [n \in NS |-> NoReply] /\ msgs = {}
    /\ alive = [n \in NS |-> TRUE]
    /\ vipMoves = 0 /\ losses = 0 /\ notifies = 0 /\ crashes = 0

-----------------------------------------------------------------------------
(* The synchronous client of send_msg_to_server.                           *)

\* Send m on a fresh client.  A request still in flight on the client id
\* about to be reused is dropped (at most one late request per sender).
SendMsgToServer(n, m) ==
    LET c == 1 - cid[n]
        msg == [m EXCEPT !.cid = c]
    IN /\ cid' = [cid EXCEPT ![n] = c]
       /\ waiting' = [waiting EXCEPT ![n] = TRUE]
       /\ rep' = [rep EXCEPT ![n] = NoReply]
       /\ msgs' = {x \in msgs : ~(x.src = n /\ x.cid = c)} \cup {msg}
       /\ tmsg' = [tmsg EXCEPT ![n] = msg]

HeartMsg(n) == [src |-> n, force |-> FALSE, role |-> role[n],
                status |-> status[n], cid |-> cid[n]]

\* ns_force_modify_other_side builds one message before its loop: role
\* slave and the sender's view of the other side's status.
ForceMsg(n) == [src |-> n, force |-> TRUE, role |-> "slave",
                status |-> otherStatus[n], cid |-> cid[n]]

InFlight(n) == \E x \in msgs : x.src = n /\ x.cid = cid[n]

\* The answers the waiting timer thread of n can get: the reply, or a
\* failure once the request or its answer is gone, the peer is dead or
\* its worker is stuck, or, within the loss bound, a spurious timeout.
Answers(n) ==
    IF rep[n] # NoReply THEN {rep[n]}
    ELSE IF \/ ~InFlight(n) \/ ~alive[Peer(n)] \/ hpc[Peer(n)] = "spin"
              \/ losses < MaxLoss
         THEN {TimedOut} ELSE {}

\* a spurious timeout (the request still pending at a live, responsive
\* peer) uses up one unit of the loss bound
LossesAfter(n, a) ==
    IF /\ a = TimedOut /\ InFlight(n) /\ alive[Peer(n)] /\ hpc[Peer(n)] # "spin"
    THEN losses + 1 ELSE losses

\* The timer thread consumes answer a and destroys the client.
Consume(n, a) ==
    /\ waiting' = [waiting EXCEPT ![n] = FALSE]
    /\ rep' = [rep EXCEPT ![n] = NoReply]
    /\ losses' = LossesAfter(n, a)
    /\ UNCHANGED <<cid, msgs, tmsg>>

\* The next try of the do/while loop: the same message on a new client.
Retry(n, a) ==
    /\ SendMsgToServer(n, tmsg[n])
    /\ tcnt' = [tcnt EXCEPT ![n] = @ + 1]
    /\ losses' = LossesAfter(n, a)

Ok(a) == a # TimedOut

-----------------------------------------------------------------------------
(* Role changes of CheckOwnerIsMasterTimerTask and SlaveHeartTimerTask.    *)

\* master_lost_vip: demote, stop oplog sync, enter safe mode, destroy plans
MasterLostVip(n) ==
    /\ role' = [role EXCEPT ![n] = "slave"]
    /\ sync' = [sync EXCEPT ![n] = NS_SYNC_DATA_FLAG_NO]
    /\ safe' = [safe EXCEPT ![n] = TRUE]
    /\ plans' = [plans EXCEPT ![n] = FALSE]
    /\ UNCHANGED <<status, otherRole, otherStatus>>

\* fault variant of NsSwitch: other_side_role_ is not reset
NsSwitchKeepOtherRole(n, os, flag) ==
    /\ role' = [role EXCEPT ![n] = "master"]
    /\ otherStatus' = [otherStatus EXCEPT ![n] = os]
    /\ sync' = [sync EXCEPT ![n] = flag]
    /\ plans' = [plans EXCEPT ![n] = FALSE]
    /\ safe' = [safe EXCEPT ![n] = TRUE]
    /\ UNCHANGED <<status, otherRole>>

\* fault variant of NsSwitch: switch_time_ is not set
NsSwitchNoSwitchTime(n, os, flag) ==
    /\ role' = [role EXCEPT ![n] = "master"]
    /\ otherRole' = [otherRole EXCEPT ![n] = "slave"]
    /\ otherStatus' = [otherStatus EXCEPT ![n] = os]
    /\ sync' = [sync EXCEPT ![n] = flag]
    /\ plans' = [plans EXCEPT ![n] = FALSE]
    /\ UNCHANGED <<status, safe>>

\* ns_switch(other_side_status, ns_sync_flag)
NsSwitch(n, os, flag) ==
    /\ role' = [role EXCEPT ![n] = "master"]
    /\ otherRole' = [otherRole EXCEPT ![n] = "slave"]
    /\ otherStatus' = [otherStatus EXCEPT ![n] = os]
    /\ sync' = [sync EXCEPT ![n] = flag]
    /\ plans' = [plans EXCEPT ![n] = FALSE]
    /\ safe' = [safe EXCEPT ![n] = TRUE]
    /\ UNCHANGED status

\* the promotion block of SlaveHeartTimerTask (sync flag left as it is)
SlavePromote(n) ==
    /\ role' = [role EXCEPT ![n] = "master"]
    /\ otherRole' = [otherRole EXCEPT ![n] = "slave"]
    /\ otherStatus' = [otherStatus EXCEPT ![n] = NS_STATUS_OTHERSIDEDEAD]
    /\ safe' = [safe EXCEPT ![n] = TRUE]
    /\ plans' = [plans EXCEPT ![n] = FALSE]
    /\ UNCHANGED <<status, sync>>

-----------------------------------------------------------------------------
(* Timer thread.  A task starts from "idle"; a task blocked in an RPC      *)
(* resumes with an answer a from Answers(n).                               *)

SetTpc(n, pc) == tpc' = [tpc EXCEPT ![n] = pc]

StartRpc(n, m, pc) ==
    /\ SendMsgToServer(n, m) /\ SetTpc(n, pc)
    /\ tcnt' = [tcnt EXCEPT ![n] = 1]

Finish(n, a) == Consume(n, a) /\ SetTpc(n, "idle") /\ UNCHANGED tcnt

\* CheckOwnerIsMasterTimerTask::runTimerTask with the VIP elsewhere
CheckOwnerLostVip(n) ==
    /\ alive[n] /\ tpc[n] = "idle"
    /\ vip # n /\ role[n] = "master"
    /\ MasterLostVip(n)
    /\ UNCHANGED <<thrVars, netVars, envVars>>

\* check_when_slave_hold_vip: send this nameserver's heartbeat to the
\* other side
CheckWhenSlaveHoldVip(n) == StartRpc(n, HeartMsg(n), "check")

\* runTimerTask with the VIP local: a slave runs check_when_slave_hold_vip;
\* a master that views the other side as master forces it down
\* (ns_force_modify_other_side); any other master does nothing.
CheckOwnerHoldVip(n) ==
    /\ alive[n] /\ tpc[n] = "idle" /\ vip = n
    /\ role[n] # "master" \/ otherRole[n] = "master"
    /\ IF role[n] = "master" THEN StartRpc(n, ForceMsg(n), "force")
                             ELSE CheckWhenSlaveHoldVip(n)
    /\ UNCHANGED <<nsVars, hpc, envVars>>

\* check_when_slave_hold_vip after send_msg_to_server returns.  On an
\* answering slave it switches with OTHERSIDEDEAD unless the reported
\* status differs from the one it knew; on an answering master it takes
\* over only if the VIP is still local, then forces the other side down.
CheckOwnerAnswer(n) ==
    /\ alive[n] /\ tpc[n] = "check"
    /\ \E a \in Answers(n) :
        \/ /\ a = TimedOut
           /\ NsSwitch(n, NS_STATUS_OTHERSIDEDEAD, NS_SYNC_DATA_FLAG_NO)
           /\ Finish(n, a)
        \/ /\ Ok(a) /\ a.role = "slave"
           /\ LET changed == otherStatus[n] # a.status
              IN NsSwitch(n, IF changed THEN a.status ELSE NS_STATUS_OTHERSIDEDEAD,
                          IF changed /\ a.status = NS_STATUS_INITIALIZED
                             /\ sync[n] # NS_SYNC_DATA_FLAG_YES
                          THEN NS_SYNC_DATA_FLAG_YES ELSE NS_SYNC_DATA_FLAG_NO)
           /\ Finish(n, a)
        \/ /\ Ok(a) /\ a.role = "master" /\ vip # n
           /\ Finish(n, a) /\ UNCHANGED nsVars
        \/ /\ Ok(a) /\ a.role = "master" /\ vip = n
           /\ role' = [role EXCEPT ![n] = "master"]
           /\ otherRole' = [otherRole EXCEPT ![n] = "slave"]
           /\ sync' = [sync EXCEPT ![n] = NS_SYNC_DATA_FLAG_YES]
           /\ safe' = [safe EXCEPT ![n] = TRUE]
           /\ plans' = [plans EXCEPT ![n] = FALSE]
           /\ UNCHANGED <<status, otherStatus, losses>>
           /\ StartRpc(n, ForceMsg(n), "force")
    /\ UNCHANGED <<hpc, vip, alive, vipMoves, notifies, crashes>>

\* ns_force_modify_other_side: up to three tries until the other side
\* answers as slave; only the sync flag is updated from the answer.
ForceModifyAnswer(n) ==
    /\ alive[n] /\ tpc[n] = "force"
    /\ \E a \in Answers(n) :
        \/ /\ Ok(a) /\ a.role = "slave"
           /\ sync' = [sync EXCEPT ![n] =
                 IF /\ otherStatus[n] # a.status /\ a.status = NS_STATUS_INITIALIZED
                    /\ sync[n] # NS_SYNC_DATA_FLAG_YES
                 THEN NS_SYNC_DATA_FLAG_YES ELSE @]
           /\ Finish(n, a)
           /\ UNCHANGED <<role, status, otherRole, otherStatus, safe, plans>>
        \/ /\ ~(Ok(a) /\ a.role = "slave")
           /\ IF tcnt[n] < HeartRetry THEN Retry(n, a) /\ UNCHANGED tpc
                                     ELSE Finish(n, a)
           /\ UNCHANGED nsVars
    /\ UNCHANGED <<hpc, vip, alive, vipMoves, notifies, crashes>>

\* MasterHeartTimerTask::runTimerTask: only an initialized master
MasterHeart(n) ==
    /\ alive[n] /\ tpc[n] = "idle"
    /\ role[n] = "master" /\ status[n] = NS_STATUS_INITIALIZED
    /\ StartRpc(n, HeartMsg(n), "mheart")
    /\ UNCHANGED <<nsVars, hpc, envVars>>

\* fault variant of MasterHeartAnswer: one try too many (count <= 3)
MasterHeartAnswerExtraTry(n) ==
    /\ alive[n] /\ tpc[n] = "mheart"
    /\ \E a \in Answers(n) :
        \/ /\ Ok(a) /\ a.role = "slave"
           /\ otherStatus' = [otherStatus EXCEPT ![n] = a.status]
           /\ sync' = [sync EXCEPT ![n] =
                 IF a.status = NS_STATUS_INITIALIZED /\ @ < NS_SYNC_DATA_FLAG_YES
                 THEN NS_SYNC_DATA_FLAG_YES ELSE @]
           /\ Finish(n, a)
        \/ /\ ~(Ok(a) /\ a.role = "slave") /\ tcnt[n] <= HeartRetry
           /\ Retry(n, a) /\ UNCHANGED <<tpc, otherStatus, sync>>
    /\ UNCHANGED <<role, status, otherRole, safe, plans, hpc>>
    /\ UNCHANGED <<vip, alive, vipMoves, notifies, crashes>>

\* An answering slave updates other_side_status_ and raises the sync flag
\* once it is initialized (both locked branches of the code come to
\* this); the role read before the RPC is not read again.  Three failures
\* mean the slave is dead.
MasterHeartAnswer(n) ==
    /\ alive[n] /\ tpc[n] = "mheart"
    /\ \E a \in Answers(n) :
        \/ /\ Ok(a) /\ a.role = "slave"
           /\ otherStatus' = [otherStatus EXCEPT ![n] = a.status]
           /\ sync' = [sync EXCEPT ![n] =
                 IF a.status = NS_STATUS_INITIALIZED /\ @ < NS_SYNC_DATA_FLAG_YES
                 THEN NS_SYNC_DATA_FLAG_YES ELSE @]
           /\ Finish(n, a)
        \/ /\ ~(Ok(a) /\ a.role = "slave") /\ tcnt[n] < HeartRetry
           /\ Retry(n, a) /\ UNCHANGED <<tpc, otherStatus, sync>>
        \/ /\ ~(Ok(a) /\ a.role = "slave") /\ tcnt[n] = HeartRetry
           /\ sync' = [sync EXCEPT ![n] = NS_SYNC_DATA_FLAG_NO]
           /\ otherStatus' = [otherStatus EXCEPT ![n] = NS_STATUS_UNINITIALIZE]
           /\ Finish(n, a)
    /\ UNCHANGED <<role, status, otherRole, safe, plans, hpc>>
    /\ UNCHANGED <<vip, alive, vipMoves, notifies, crashes>>

\* SlaveHeartTimerTask::runTimerTask: only an initialized slave
SlaveHeart(n) ==
    /\ alive[n] /\ tpc[n] = "idle"
    /\ role[n] = "slave" /\ status[n] = NS_STATUS_INITIALIZED
    /\ StartRpc(n, HeartMsg(n), "sheart")
    /\ UNCHANGED <<nsVars, hpc, envVars>>

\* An answering master updates other_side_status_.  After any failed try
\* the slave promotes itself if it holds the VIP; after the third it
\* marks the master dead and enters the VIP polling loop.
SlaveHeartAnswer(n) ==
    /\ alive[n] /\ tpc[n] = "sheart"
    /\ \E a \in Answers(n) :
        \/ /\ Ok(a) /\ a.role = "master"
           /\ otherStatus' = [otherStatus EXCEPT ![n] = a.status]
           /\ Finish(n, a)
           /\ UNCHANGED <<role, status, otherRole, sync, safe, plans>>
        \/ /\ ~(Ok(a) /\ a.role = "master") /\ vip = n
           /\ SlavePromote(n) /\ Finish(n, a)
        \/ /\ ~(Ok(a) /\ a.role = "master") /\ vip # n /\ tcnt[n] < HeartRetry
           /\ Retry(n, a) /\ UNCHANGED <<tpc, nsVars>>
        \/ /\ ~(Ok(a) /\ a.role = "master") /\ vip # n /\ tcnt[n] = HeartRetry
           /\ otherStatus' = [otherStatus EXCEPT ![n] = NS_STATUS_OTHERSIDEDEAD]
           /\ Consume(n, a) /\ SetTpc(n, "spin")
           /\ UNCHANGED <<tcnt, role, status, otherRole, sync, safe, plans>>
    /\ UNCHANGED <<hpc, vip, alive, vipMoves, notifies, crashes>>

\* The do { ... usleep } while (other side not initialized and we are)
\* loop that ends SlaveHeartTimerTask: it holds the timer thread.
SpinCond(n) == otherStatus[n] # NS_STATUS_INITIALIZED /\ status[n] = NS_STATUS_INITIALIZED

\* fault variant of SlaveSpin: the loop never tests the VIP
SlaveSpinNoVipCheck(n) ==
    /\ alive[n] /\ tpc[n] = "spin"
    /\ ~SpinCond(n) /\ UNCHANGED nsVars
    /\ SetTpc(n, "idle")
    /\ UNCHANGED <<tcnt, tmsg, hpc, netVars, envVars>>

SlaveSpin(n) ==
    /\ alive[n] /\ tpc[n] = "spin"
    /\ \/ vip = n /\ SlavePromote(n)
       \/ vip # n /\ ~SpinCond(n) /\ UNCHANGED nsVars
    /\ SetTpc(n, "idle")
    /\ UNCHANGED <<tcnt, tmsg, hpc, netVars, envVars>>

-----------------------------------------------------------------------------
(* MasterAndSlaveHeartManager worker thread of d: handlePacketQueue.       *)

\* MasterAndSlaveHeartResponseMessage with the responder's role r and
\* status st: it reaches m.src only if m.src still waits on that client
Respond(m, r, st) ==
    rep' = IF waiting[m.src] /\ cid[m.src] = m.cid
           THEN [rep EXCEPT ![m.src] = [cid |-> m.cid, role |-> r, status |-> st]]
           ELSE rep

\* what the worker never touches
HandleVars == <<tpc, tcnt, tmsg, hpc, cid, waiting, envVars>>

ForceCond(d, m) == m.force /\ role[d] # m.role

Deliverable(d, m) == m \in msgs /\ Peer(m.src) = d /\ alive[d] /\ hpc[d] = "idle"

\* do_master_msg / do_slave_msg, forced branch (the same code in both):
\* take the role and status the other side dictates.
ForceModify(d) ==
    \E m \in msgs :
        /\ Deliverable(d, m) /\ ForceCond(d, m)
        /\ role' = [role EXCEPT ![d] = m.role]
        /\ otherRole' = [otherRole EXCEPT ![d] = Opposite(m.role)]
        /\ status' = [status EXCEPT ![d] = m.status]
        /\ sync' = [sync EXCEPT ![d] = IF m.role = "master"
                       THEN NS_SYNC_DATA_FLAG_YES ELSE NS_SYNC_DATA_FLAG_NO]
        /\ msgs' = msgs \ {m} /\ Respond(m, m.role, m.status)
        /\ UNCHANGED <<otherStatus, safe, plans, HandleVars>>

\* do_master_msg, unforced: only a slave's heartbeat is answered.
DoMasterMsg(d) ==
    \E m \in msgs :
        /\ Deliverable(d, m) /\ ~ForceCond(d, m) /\ role[d] = "master"
        /\ msgs' = msgs \ {m}
        /\ \/ /\ m.role # "slave" /\ UNCHANGED <<rep, otherStatus, sync>>
           \/ /\ m.role = "slave" /\ otherStatus[d] # m.status
              /\ otherStatus' = [otherStatus EXCEPT ![d] = m.status]
              /\ sync' = [sync EXCEPT ![d] =
                    IF m.status = NS_STATUS_INITIALIZED /\ @ # NS_SYNC_DATA_FLAG_YES
                    THEN NS_SYNC_DATA_FLAG_YES ELSE @]
              /\ Respond(m, role[d], status[d])
           \/ /\ m.role = "slave" /\ otherStatus[d] = m.status
              /\ sync' = [sync EXCEPT ![d] =
                    CASE otherStatus[d] = NS_STATUS_INITIALIZED
                           /\ @ < NS_SYNC_DATA_FLAG_YES -> NS_SYNC_DATA_FLAG_YES
                      [] otherStatus[d] >= NS_STATUS_ACCEPT_DS_INFO
                           /\ @ < NS_SYNC_DATA_FLAG_YES -> NS_SYNC_DATA_FLAG_READY
                      [] OTHER -> @]
              /\ Respond(m, role[d], status[d]) /\ UNCHANGED otherStatus
        /\ UNCHANGED <<role, status, otherRole, safe, plans, HandleVars>>

\* do_slave_msg, unforced: only the master's heartbeat is answered.
DoSlaveMsg(d) ==
    \E m \in msgs :
        /\ Deliverable(d, m) /\ ~ForceCond(d, m) /\ role[d] = "slave"
        /\ msgs' = msgs \ {m}
        /\ \/ m.role # "master" /\ UNCHANGED <<rep, otherStatus>>
           \/ /\ m.role = "master"
              /\ otherStatus' = [otherStatus EXCEPT ![d] = m.status]
              /\ Respond(m, role[d], status[d])
        /\ UNCHANGED <<role, status, otherRole, sync, safe, plans, HandleVars>>

\* do_heartbeat_and_ns_msg with ns_switch_flag YES (sent by a dataserver
\* that saw the switch): the worker enters its VIP polling loop.
NotifySwitch(d) ==
    /\ alive[d] /\ hpc[d] = "idle" /\ notifies < MaxNotify
    /\ hpc' = [hpc EXCEPT ![d] = "spin"]
    /\ notifies' = notifies + 1
    /\ UNCHANGED <<nsVars, tpc, tcnt, tmsg, netVars>>
    /\ UNCHANGED <<vip, alive, vipMoves, losses, crashes>>

\* one turn of that loop: promote (and mark itself initialized) once the
\* VIP is local, or leave when the loop condition no longer holds
HandlerSpin(d) ==
    /\ alive[d] /\ hpc[d] = "spin"
    /\ \/ /\ vip = d
          /\ role' = [role EXCEPT ![d] = "master"]
          /\ status' = [status EXCEPT ![d] = NS_STATUS_INITIALIZED]
          /\ otherRole' = [otherRole EXCEPT ![d] = "slave"]
          /\ otherStatus' = [otherStatus EXCEPT ![d] = NS_STATUS_OTHERSIDEDEAD]
          /\ safe' = [safe EXCEPT ![d] = TRUE]
          /\ plans' = [plans EXCEPT ![d] = FALSE]
          /\ UNCHANGED sync
       \/ vip # d /\ ~SpinCond(d) /\ UNCHANGED nsVars
    /\ hpc' = [hpc EXCEPT ![d] = "idle"]
    /\ UNCHANGED <<tpc, tcnt, tmsg, netVars, envVars>>

-----------------------------------------------------------------------------
(* Environment and the collaborators outside this source.                 *)

\* keepalived moves the VIP to the other, live nameserver: always when
\* the holder died, otherwise within the bound (a flap)
MoveVip ==
    /\ vipMoves < MaxVipMoves \/ ~alive[vip]
    /\ \E n \in NS \ {vip} : alive[n] /\ vip' = n
    /\ vipMoves' = IF alive[vip] THEN vipMoves + 1 ELSE vipMoves
    /\ UNCHANGED <<nsVars, thrVars, netVars, alive, losses, notifies, crashes>>

\* a nameserver process dies; requests to it are never answered
Crash(n) ==
    /\ crashes < MaxCrash /\ alive[n]
    /\ alive' = [alive EXCEPT ![n] = FALSE]
    /\ msgs' = {m \in msgs : Peer(m.src) # n}
    /\ crashes' = crashes + 1
    /\ UNCHANGED <<nsVars, thrVars, cid, waiting, rep, vip, vipMoves, losses, notifies>>

\* the network loses a request or a reply
LoseMsg ==
    /\ losses < MaxLoss
    /\ \/ \E m \in msgs : msgs' = msgs \ {m} /\ UNCHANGED rep
       \/ \E n \in NS : rep[n] # NoReply /\ rep' = [rep EXCEPT ![n] = NoReply]
                        /\ UNCHANGED msgs
    /\ losses' = losses + 1
    /\ UNCHANGED <<nsVars, thrVars, cid, waiting, vip, alive, vipMoves, notifies, crashes>>

\* time passes switch_time_: safe mode ends
SafeModeExpire(n) ==
    /\ safe[n]
    /\ safe' = [safe EXCEPT ![n] = FALSE]
    /\ UNCHANGED <<role, status, otherRole, otherStatus, sync, plans, thrVars, netVars, envVars>>

\* the plan engine of a master out of safe mode builds plans
BuildPlan(n) ==
    /\ alive[n] /\ role[n] = "master" /\ ~safe[n] /\ ~plans[n]
    /\ plans' = [plans EXCEPT ![n] = TRUE]
    /\ UNCHANGED <<role, status, otherRole, otherStatus, sync, safe, thrVars, netVars, envVars>>

\* the nameserver finishes accepting dataserver reports at start-up
StartupDone(n) ==
    /\ alive[n] /\ status[n] = NS_STATUS_ACCEPT_DS_INFO
    /\ status' = [status EXCEPT ![n] = NS_STATUS_INITIALIZED]
    /\ UNCHANGED <<role, otherRole, otherStatus, sync, safe, plans, thrVars, netVars, envVars>>

-----------------------------------------------------------------------------
TimerStart(n) ==
    \/ CheckOwnerLostVip(n) \/ CheckOwnerHoldVip(n)
    \/ MasterHeart(n) \/ SlaveHeart(n)

TimerResume(n) ==
    \/ CheckOwnerAnswer(n) \/ ForceModifyAnswer(n)
    \/ MasterHeartAnswer(n) \/ SlaveHeartAnswer(n) \/ SlaveSpin(n)

Worker(n) ==
    \/ ForceModify(n) \/ DoMasterMsg(n) \/ DoSlaveMsg(n) \/ HandlerSpin(n)

Next ==
    \/ \E n \in NS :
        \/ TimerStart(n) \/ TimerResume(n) \/ Worker(n) \/ NotifySwitch(n)
        \/ Crash(n) \/ SafeModeExpire(n) \/ BuildPlan(n) \/ StartupDone(n)
    \/ MoveVip \/ LoseMsg

\* The periodic timer runs every task again and again, so each task start
\* is strongly fair; the blocked timer thread and the worker are weakly
\* fair; safe mode always ends and start-up always completes.
Fairness ==
    \A n \in NS :
        /\ SF_vars(CheckOwnerLostVip(n)) /\ SF_vars(CheckOwnerHoldVip(n))
        /\ SF_vars(MasterHeart(n)) /\ SF_vars(SlaveHeart(n))
        /\ WF_vars(TimerResume(n)) /\ WF_vars(Worker(n))
        /\ WF_vars(SafeModeExpire(n)) /\ WF_vars(StartupDone(n))

Spec == Init /\ [][Next]_vars
FairSpec == Spec /\ Fairness

-----------------------------------------------------------------------------
(* Properties                                                              *)

\* Every way a nameserver becomes master (ns_switch, the master answer of
\* check_when_slave_hold_vip, the promotions of SlaveHeartTimerTask and
\* do_heartbeat_and_ns_msg) also records the other side as slave, and the
\* forced demotion records it as master only on the demoted side: a master
\* never thinks the other side is master, so the force branch of
\* CheckOwnerIsMasterTimerTask::runTimerTask is dead code.
MasterViewsPeerAsSlave ==
    \A n \in NS : role[n] = "master" => otherRole[n] = "slave"

\* Once keepalived stops moving the VIP and the network stops losing
\* messages, the timer tasks and the force-modify RPC of heart_manager.cpp
\* make the VIP holder the only master, for good.
VipHolderSoleMaster ==
    <>[](\A n \in NS : alive[n] => (role[n] = "master" <=> n = vip))

\* Spec 8.6: once roles settle, a master's oplog sync flag is YES exactly
\* when the other side is alive and initialized.  MasterHeartTimerTask
\* raises the flag from the slave's answers and drops it after three
\* failures; the promotions and the forced role change set it directly.
SyncFollowsPeer ==
    <>[](\A n \in NS : alive[n] /\ role[n] = "master" =>
            (sync[n] = NS_SYNC_DATA_FLAG_YES
                <=> alive[Peer(n)] /\ status[Peer(n)] = NS_STATUS_INITIALIZED))

\* The oplog sync flag is YES only on a master: the flag tells the oplog
\* threads to stream to the standby (spec 4.6/4.7).  MasterHeartTimerTask
\* reads owner_role_ before its RPC and sets the flag from the answer
\* without reading it again.
SyncOnlyOnMaster ==
    \A n \in NS : sync[n] = NS_SYNC_DATA_FLAG_YES => role[n] = "master"

\* A nameserver becomes master only while it holds the VIP (spec 4.7: the
\* VIP is the truth of who is master).  check_when_slave_hold_vip reads
\* the VIP before its RPC and, on an answering slave or no answer,
\* switches without reading it again.
PromoteOnlyWithVip ==
    [][\A n \in NS : role[n] # "master" /\ role'[n] = "master" => vip = n]_vars

\* The threads and RPCs of heart_manager.cpp implement the role lifecycle
\* of NsRoles: every step that changes a nameserver's role, safe mode
\* (switch_time_) or plans is one of its role events.  In particular every
\* promotion (ns_switch, the master answer of check_when_slave_hold_vip,
\* the promotions of SlaveHeartTimerTask and do_heartbeat_and_ns_msg)
\* enters safe mode and destroys the plans, as spec 4.7 asks, and plans
\* are built only by a master out of safe mode.  The forced role change
\* of do_master_msg / do_slave_msg, which does neither, fits only because
\* ns_force_modify_other_side always sends role slave, including its late
\* retries, so it only ever demotes.
Lifecycle == INSTANCE NsRoles

RoleLifecycle == Lifecycle!Spec

==============================================================================
