------------------------------- MODULE NsRoles -------------------------------
(***************************************************************************)
(* The role lifecycle the HA controller of heart_manager.cpp gives each    *)
(* nameserver, seen from outside its threads and RPCs: its role, whether   *)
(* it is in safe mode (switch_time_ still ahead) and whether its plan      *)
(* engine holds plans.  Each step is one role event of spec 4.7:           *)
(*   - a slave becomes master in safe mode, with its plans destroyed;      *)
(*   - a master that finds the VIP local again restarts its safe mode and  *)
(*     drops its plans;                                                    *)
(*   - a master becomes slave, entering safe mode and cancelling its plans *)
(*     when it lost the VIP, or keeping both when the other side forced it *)
(*     (the forced change leaves switch_time_ and the plans alone);        *)
(*   - safe mode ends when its time passes;                                *)
(*   - the plan engine of a master out of safe mode builds plans.          *)
(* NsHa implements this specification under the identity mapping of these *)
(* three variables (NsHa's RoleLifecycle).                                 *)
(***************************************************************************)
CONSTANT NS

VARIABLES role, safe, plans

roleVars == <<role, safe, plans>>

\* one nameserver starts as master, the other as slave; no safe mode, no plans
Init ==
    /\ \E m \in NS : role = [n \in NS |-> IF n = m THEN "master" ELSE "slave"]
    /\ safe = [n \in NS |-> FALSE]
    /\ plans = [n \in NS |-> FALSE]

\* n enters safe mode and its plans are destroyed
EnterSafeMode(n) ==
    /\ safe' = [safe EXCEPT ![n] = TRUE]
    /\ plans' = [plans EXCEPT ![n] = FALSE]

Promote(n) ==
    /\ role[n] = "slave"
    /\ role' = [role EXCEPT ![n] = "master"]
    /\ EnterSafeMode(n)

Reassert(n) ==
    /\ role[n] = "master"
    /\ EnterSafeMode(n)
    /\ UNCHANGED role

Demote(n) ==
    /\ role[n] = "master"
    /\ role' = [role EXCEPT ![n] = "slave"]
    /\ EnterSafeMode(n) \/ UNCHANGED <<safe, plans>>

Expire(n) ==
    /\ safe[n]
    /\ safe' = [safe EXCEPT ![n] = FALSE]
    /\ UNCHANGED <<role, plans>>

Plan(n) ==
    /\ role[n] = "master" /\ ~safe[n] /\ ~plans[n]
    /\ plans' = [plans EXCEPT ![n] = TRUE]
    /\ UNCHANGED <<role, safe>>

Next ==
    \E n \in NS :
        Promote(n) \/ Reassert(n) \/ Demote(n) \/ Expire(n) \/ Plan(n)

Spec == Init /\ [][Next]_roleVars

=============================================================================
