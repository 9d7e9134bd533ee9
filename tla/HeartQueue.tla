------------------------------ MODULE HeartQueue ------------------------------
(***************************************************************************)
(* Dataserver heartbeats at the nameserver (HeartManagement in             *)
(* nameserver/heart_manager.cpp).  push() puts a SetDataserverMessage on   *)
(* the work queue of a thread pool without blocking, with max_queue_size_  *)
(* as the bound, except that a dead notice or a heartbeat without a block  *)
(* list is pushed with bound 0 (no bound); when the bounded push fails it  *)
(* answers STATUS_MESSAGE_ERROR ("busy") at once.  A worker thread takes   *)
(* the message (handlePacketQueue) and keepalive() asks the registry and   *)
(* answers with HEART_MESSAGE_OK, HEART_EXP_BLOCK_ID or                    *)
(* HEART_NEED_SEND_BLOCK_INFO.                                             *)
(*                                                                         *)
(* The dataservers and the registry (the client request server of the      *)
(* layout manager) are outside this source; they follow spec 4.2/4.4: a    *)
(* dataserver sends its next heartbeat after the answer to the last one,   *)
(* attaches its block list when told NEED_SEND_BLOCK_INFO or periodically, *)
(* deletes the blocks an answer expires, and sends a dead notice when it   *)
(* exits.                                                                  *)
(***************************************************************************)
EXTENDS Naturals, Sequences, FiniteSets

CONSTANTS
    DS,             \* dataservers (model values)
    Workers,        \* the threads of HeartManagement's pool (model values)
    MaxQueueSize    \* max_queue_size_

ASSUME MaxQueueSize \in Nat \ {0}

VARIABLES
    queue,      \* work_thread_'s queue of heartbeats
    wk,         \* the heartbeat each worker is handling, or NoHeart
    dsPc,       \* dataserver: "beat" (may send), "wait" (for the answer), "exited"
    reply,      \* the answer on its way to each dataserver, or NoReply
    sent,       \* the kind of the last heartbeat each dataserver sent
    needSend,   \* the dataserver attaches its block list to its next heartbeat
    orphan,     \* the dataserver holds a block the registry does not assign it
    regAlive,   \* registry: the dataserver is alive
    regKnows    \* registry: it has the dataserver's block list

vars == <<queue, wk, dsPc, reply, sent, needSend, orphan, regAlive, regKnows>>

\* DATASERVER_STATUS_DEAD, HAS_BLOCK_FLAG_NO, HAS_BLOCK_FLAG_YES
Kinds == {"dead", "normal", "report"}
Heart == [ds : DS, kind : Kinds]
NoHeart == [ds |-> "none"]

\* the statuses of RespHeartMessage, and the busy answer of push()
Statuses == {"HEART_MESSAGE_OK", "HEART_EXP_BLOCK_ID",
             "HEART_NEED_SEND_BLOCK_INFO", "STATUS_MESSAGE_ERROR"}
NoReply == "none"

HeartTypeOK ==
    /\ queue \in Seq(Heart) /\ Len(queue) <= Cardinality(DS)
    /\ wk \in [Workers -> Heart \cup {NoHeart}]
    /\ dsPc \in [DS -> {"beat", "wait", "exited"}]
    /\ reply \in [DS -> Statuses \cup {NoReply}]
    /\ sent \in [DS -> Kinds]
    /\ needSend \in [DS -> BOOLEAN] /\ orphan \in [DS -> BOOLEAN]
    /\ regAlive \in [DS -> BOOLEAN] /\ regKnows \in [DS -> BOOLEAN]

\* A fresh nameserver: it knows no dataserver; any dataserver may hold
\* blocks the registry will disown.
Init ==
    /\ queue = << >> /\ wk = [w \in Workers |-> NoHeart]
    /\ dsPc = [d \in DS |-> "beat"] /\ reply = [d \in DS |-> NoReply]
    /\ sent = [d \in DS |-> "normal"] /\ needSend = [d \in DS |-> FALSE]
    /\ orphan \in [DS -> BOOLEAN]
    /\ regAlive = [d \in DS |-> FALSE] /\ regKnows = [d \in DS |-> FALSE]

-----------------------------------------------------------------------------
(* Nameserver side                                                          *)

\* the bound push() passes to work_thread_.push: 0 (none) for a dead
\* notice or a heartbeat without block list
QueueBound(h) == IF h.kind \in {"dead", "normal"} THEN 0 ELSE MaxQueueSize

\* PacketQueueThread::push(msg, max, block = false) (tbnet): refuses when
\* max > 0 and the queue already holds max messages
Accepts(h) == QueueBound(h) = 0 \/ Len(queue) < QueueBound(h)

\* fault variant of Push: the refused message is freed without the busy answer
PushNoBusyReply(h) ==
    IF Accepts(h)
    THEN queue' = Append(queue, h) /\ UNCHANGED reply
    ELSE UNCHANGED <<queue, reply>>

\* HeartManagement::push on the arrival of heartbeat h: queue it, or
\* answer "busy" and free it
Push(h) ==
    IF Accepts(h)
    THEN queue' = Append(queue, h) /\ UNCHANGED reply
    ELSE reply' = [reply EXCEPT ![h.ds] = "STATUS_MESSAGE_ERROR"] /\ UNCHANGED queue

\* fault variant of Dequeue: the message is not taken off the queue
DequeueNoPop(w) ==
    /\ wk[w] = NoHeart /\ queue # << >>
    /\ wk' = [wk EXCEPT ![w] = Head(queue)] /\ UNCHANGED queue
    /\ UNCHANGED <<dsPc, reply, sent, needSend, orphan, regAlive, regKnows>>

\* a worker of the pool takes the next message (handlePacketQueue)
Dequeue(w) ==
    /\ wk[w] = NoHeart /\ queue # << >>
    /\ wk' = [wk EXCEPT ![w] = Head(queue)] /\ queue' = Tail(queue)
    /\ UNCHANGED <<dsPc, reply, sent, needSend, orphan, regAlive, regKnows>>

\* keepalive: the registry's keepalive, then the answer.  A dead
\* dataserver is dropped (answered OK); a block list makes the registry
\* know the dataserver's blocks and expire those it does not assign it; a
\* heartbeat without one asks for the list when the registry lacks it.
\* When the registry's keepalive fails the answer is STATUS_MESSAGE_ERROR.
Keepalive(w) ==
    LET h == wk[w]
        d == h.ds
        status ==
            CASE h.kind = "dead" -> "HEART_MESSAGE_OK"
              [] h.kind = "report" ->
                    IF orphan[d] THEN "HEART_EXP_BLOCK_ID" ELSE "HEART_MESSAGE_OK"
              [] h.kind = "normal" ->
                    IF regKnows[d] THEN "HEART_MESSAGE_OK"
                    ELSE "HEART_NEED_SEND_BLOCK_INFO"
    IN /\ h # NoHeart
       /\ \/ /\ regAlive' = [regAlive EXCEPT ![d] = h.kind # "dead"]
             /\ regKnows' = [regKnows EXCEPT ![d] =
                               CASE h.kind = "dead" -> FALSE
                                 [] h.kind = "report" -> TRUE
                                 [] OTHER -> @]
             /\ reply' = [reply EXCEPT ![d] = status]
          \/ /\ reply' = [reply EXCEPT ![d] = "STATUS_MESSAGE_ERROR"]
             /\ UNCHANGED <<regAlive, regKnows>>
       /\ wk' = [wk EXCEPT ![w] = NoHeart]
       /\ UNCHANGED <<queue, dsPc, sent, needSend, orphan>>

-----------------------------------------------------------------------------
(* Dataserver side (spec 4.2)                                              *)

\* the next heartbeat: the block list when asked for it, else with or
\* without (report_block_interval); or a dead notice on exit
Heartbeat(d) ==
    /\ dsPc[d] = "beat"
    /\ \E k \in IF needSend[d] THEN {"report", "dead"} ELSE Kinds :
        /\ Push([ds |-> d, kind |-> k])
        /\ sent' = [sent EXCEPT ![d] = k]
    /\ dsPc' = [dsPc EXCEPT ![d] = "wait"]
    /\ UNCHANGED <<wk, needSend, orphan, regAlive, regKnows>>

\* the answer arrives: resend the block list if asked, delete expired
\* blocks, stop after a dead notice
HandleReply(d) ==
    LET r == reply[d]
    IN /\ dsPc[d] = "wait" /\ r # NoReply
       /\ needSend' = [needSend EXCEPT ![d] =
                         CASE r = "HEART_NEED_SEND_BLOCK_INFO" -> TRUE
                           [] sent[d] = "report" /\ r # "STATUS_MESSAGE_ERROR" -> FALSE
                           [] OTHER -> @]
       /\ orphan' = [orphan EXCEPT ![d] = @ /\ r # "HEART_EXP_BLOCK_ID"]
       /\ dsPc' = [dsPc EXCEPT ![d] = IF sent[d] = "dead" THEN "exited" ELSE "beat"]
       /\ reply' = [reply EXCEPT ![d] = NoReply]
       /\ UNCHANGED <<queue, wk, sent, regAlive, regKnows>>

\* the dataserver process starts again
Restart(d) ==
    /\ dsPc[d] = "exited"
    /\ dsPc' = [dsPc EXCEPT ![d] = "beat"]
    /\ needSend' = [needSend EXCEPT ![d] = FALSE]
    /\ UNCHANGED <<queue, wk, reply, sent, orphan, regAlive, regKnows>>

Next ==
    \/ \E w \in Workers : Dequeue(w) \/ Keepalive(w)
    \/ \E d \in DS : Heartbeat(d) \/ HandleReply(d) \/ Restart(d)

\* the pool's threads and the dataservers' receive paths keep running
Fairness ==
    /\ \A w \in Workers : WF_vars(Dequeue(w)) /\ WF_vars(Keepalive(w))
    /\ \A d \in DS : WF_vars(HandleReply(d))

Spec == Init /\ [][Next]_vars
FairSpec == Spec /\ Fairness

-----------------------------------------------------------------------------
\* Every heartbeat a dataserver sends is answered: queued ones by a worker's
\* keepalive, refused ones by push()'s busy reply, so no dataserver waits
\* forever on the nameserver.
EveryHeartbeatAnswered ==
    \A d \in DS : dsPc[d] = "wait" ~> dsPc[d] # "wait"

=============================================================================
