------------------------ MODULE CrashProtocolProofs -------------------------
(***************************************************************************)
(* The unrecoverable-host-error protocol, for any number of cores and of   *)
(* errors.                                                                 *)
(***************************************************************************)
EXTENDS CrashProtocol, FiniteSetTheorems, TLAPS

(* The core has Windows' IDT again, from its reload on. *)
AfterIdt == {"raise_ack", "give_ack", "send", "wait", "unblock", "hang"} \cup Bugchecked

(* Before the NMIs are sent. *)
Unsent == {"raise_off", "raise_idt", "raise_ack", "send"}

(* Where a core is decides whether it is in VMX operation and whose IDT it  *)
(* has; nothing has happened before the flag is set, and no NMI is latched  *)
(* before the raiser sends them, so nothing diverts the raiser.             *)
CoreInv ==
  /\ os_idt = {c \in Core : pc[c] \in AfterIdt}
  /\ \A c \in Core : pc[c] \in AfterIdt \cup {"raise_idt", "give_idt"} => c \notin vmx
  /\ \A c \in Core : pc[c] \in {"guest", "root", "claim", "raise_off"} => c \in vmx
  /\ \A c \in Core : pc[c] = "hang" => c \notin masked
  /\ crash_in_progress = 0 => nmi = {} /\ \A c \in Core : pc[c] \in {"guest", "root", "claim"}
  /\ \A c \in Core : pc[c] \in Unsent => nmi = {}

IInv == TypeOK /\ CoreInv /\ OneRaiser /\ BugcheckAfterAll

(* If one error at most is raised: its core is the only claimant, and the   *)
(* others give control inside the NMI that told them to, with NMIs blocked; *)
(* each is sent one NMI, and is not giving control before it is sent.       *)
SingleInv ==
  /\ errors = 0 => crash_in_progress = 0 /\ \A c \in Core : pc[c] # "claim"
  /\ \A c \in Core : pc[c] = "claim" => crash_in_progress = 0
  /\ \A c, d \in Core : pc[c] = "claim" /\ pc[d] = "claim" => c = d
  /\ \A c \in Core : pc[c] \in {"give_off", "give_idt", "give_ack"} => c \in masked
  /\ \A c \in Core : pc[c] = "give_off" => c \in vmx
  /\ \A c \in Core : pc[c] \in Raising \cup Giving \cup Bugchecked => c \notin nmi
  /\ \A c, d \in Core : pc[c] \in Unsent => pc[d] \notin Giving
  /\ NoSecondVmxoff /\ NoForeignBugcheck

-----------------------------------------------------------------------------
(* What a step of core c may do to the place of each core. *)
LEMMA StepsMoveOneCore ==
  ASSUME TypeOK, NEW c \in Core, NEW l \in PC, Goto(c, l)
  PROVE  /\ pc' \in [Core -> PC] /\ pc'[c] = l
         /\ \A d \in Core \ {c} : pc'[d] = pc[d]
BY DEF TypeOK, Goto

(* The flag elects one raiser, and the raiser is never diverted. *)
LEMMA CoreInductive == IInv /\ [Next]_vars => CoreInv' /\ OneRaiser'
<1> SUFFICES ASSUME IInv, [Next]_vars PROVE CoreInv' /\ OneRaiser'
  OBVIOUS
<1> USE DEF IInv, AfterIdt, Unsent, Raising, Bugchecked
<1>1. ASSUME NEW c \in Core, EnterRoot(c) \/ LeaveRoot(c) \/ Error(c) PROVE CoreInv' /\ OneRaiser'
  <2>1. /\ pc[c] \in {"guest", "root"} /\ \E l \in {"guest", "root", "claim"} : Goto(c, l)
        /\ UNCHANGED <<crash_in_progress, vmx, os_idt, nmi, masked>>
    BY <1>1 DEF EnterRoot, LeaveRoot, Error
  <2>2. PICK l \in {"guest", "root", "claim"} : Goto(c, l)
    BY <2>1
  <2>3. pc'[c] = l /\ \A d \in Core \ {c} : pc'[d] = pc[d]
    BY <2>2, StepsMoveOneCore DEF PC
  <2>4. QED
    BY <2>1, <2>3 DEF CoreInv, OneRaiser
<1>2. ASSUME NEW c \in Core, claim(c) PROVE CoreInv' /\ OneRaiser'
  <2> DEFINE l == IF crash_in_progress = 0 THEN "raise_off" ELSE "give_off"
  <2>1. /\ pc[c] = "claim" /\ Goto(c, l) /\ crash_in_progress' = 1
        /\ UNCHANGED <<vmx, os_idt, nmi, masked>>
    BY <1>2 DEF claim
  <2>2. pc'[c] = l /\ \A d \in Core \ {c} : pc'[d] = pc[d]
    BY <2>1, StepsMoveOneCore DEF PC, Giving
  <2>3. QED
    BY <2>1, <2>2 DEF CoreInv, OneRaiser
<1>3. ASSUME NEW c \in Core, vmxoff(c) PROVE CoreInv' /\ OneRaiser'
  <2> DEFINE l == IF c \in vmx THEN IF pc[c] = "raise_off" THEN "raise_idt" ELSE "give_idt" ELSE "fault"
  <2>1. /\ pc[c] \in {"raise_off", "give_off"} /\ Goto(c, l) /\ vmx' = vmx \ {c}
        /\ UNCHANGED <<crash_in_progress, os_idt, nmi, masked>>
    BY <1>3 DEF vmxoff
  <2>2. pc'[c] = l /\ \A d \in Core \ {c} : pc'[d] = pc[d]
    BY <2>1, StepsMoveOneCore DEF PC, Giving
  <2>3. QED
    BY <2>1, <2>2 DEF CoreInv, OneRaiser
<1>4. ASSUME NEW c \in Core, restore_idt(c) PROVE CoreInv' /\ OneRaiser'
  <2> DEFINE l == IF pc[c] = "raise_idt" THEN "raise_ack" ELSE "give_ack"
  <2>1. /\ pc[c] \in {"raise_idt", "give_idt"} /\ Goto(c, l) /\ os_idt' = os_idt \cup {c}
        /\ UNCHANGED <<crash_in_progress, vmx, nmi, masked>>
    BY <1>4 DEF restore_idt
  <2>2. pc'[c] = l /\ \A d \in Core \ {c} : pc'[d] = pc[d]
    BY <2>1, StepsMoveOneCore DEF PC, Giving
  <2>3. QED
    BY <2>1, <2>2 DEF CoreInv, OneRaiser
<1>5. ASSUME NEW c \in Core, acknowledge(c) PROVE CoreInv' /\ OneRaiser'
  <2> DEFINE l == IF pc[c] = "raise_ack" THEN "send" ELSE "unblock"
  <2>1. /\ pc[c] \in {"raise_ack", "give_ack"} /\ Goto(c, l)
        /\ UNCHANGED <<crash_in_progress, vmx, os_idt, nmi, masked>>
    BY <1>5 DEF acknowledge
  <2>2. pc'[c] = l /\ \A d \in Core \ {c} : pc'[d] = pc[d]
    BY <2>1, StepsMoveOneCore DEF PC, Giving
  <2>3. QED
    BY <2>1, <2>2 DEF CoreInv, OneRaiser
<1>6. ASSUME NEW c \in Core, send_nmi_all_others(c) \/ wait_for_acks(c) PROVE CoreInv' /\ OneRaiser'
  <2>1. /\ pc[c] \in {"send", "wait"} /\ \E l \in {"wait", "bugcheck", "bugcheck_unsent"} : Goto(c, l)
        /\ UNCHANGED <<crash_in_progress, vmx, os_idt, masked>>
    BY <1>6 DEF send_nmi_all_others, wait_for_acks
  <2>2. PICK l \in {"wait", "bugcheck", "bugcheck_unsent"} : Goto(c, l)
    BY <2>1
  <2>3. pc'[c] = l /\ \A d \in Core \ {c} : pc'[d] = pc[d]
    BY <2>2, StepsMoveOneCore DEF PC
  <2>4. OneRaiser'
    BY <2>1, <2>3 DEF OneRaiser
  <2>5. \A d \in Core : pc'[d] \notin Unsent
    BY <2>1, <2>3 DEF OneRaiser
  <2>6. crash_in_progress # 0
    BY <2>1 DEF CoreInv
  <2>7. QED
    BY <2>1, <2>3, <2>4, <2>5, <2>6 DEF CoreInv
<1>7. ASSUME NEW c \in Core, handle_nmi(c) PROVE CoreInv' /\ OneRaiser'
  <2>1. /\ c \in nmi /\ c \notin os_idt /\ nmi' = nmi \ {c}
        /\ UNCHANGED <<crash_in_progress, vmx, os_idt>>
    BY <1>7 DEF handle_nmi
  <2>2. crash_in_progress # 0 /\ Goto(c, "give_off") /\ masked' = masked \cup {c}
    BY <1>7, <2>1 DEF handle_nmi, CoreInv
  <2>3. pc'[c] = "give_off" /\ \A d \in Core \ {c} : pc'[d] = pc[d]
    BY <2>2, StepsMoveOneCore DEF PC, Giving
  <2>4. pc[c] \notin AfterIdt
    BY <2>1 DEF CoreInv
  <2>5. QED
    BY <2>1, <2>2, <2>3, <2>4 DEF CoreInv, OneRaiser
<1>8. ASSUME NEW c \in Core, windows_nmi(c) PROVE CoreInv' /\ OneRaiser'
  BY <1>8 DEF windows_nmi, CoreInv, OneRaiser
<1>9. ASSUME NEW c \in Core, cpu_hang_unblock_nmi(c) PROVE CoreInv' /\ OneRaiser'
  <2>1. /\ pc[c] = "unblock" /\ Goto(c, "hang") /\ masked' = masked \ {c}
        /\ UNCHANGED <<crash_in_progress, vmx, os_idt, nmi>>
    BY <1>9 DEF cpu_hang_unblock_nmi
  <2>2. pc'[c] = "hang" /\ \A d \in Core \ {c} : pc'[d] = pc[d]
    BY <2>1, StepsMoveOneCore DEF PC, Giving
  <2>3. QED
    BY <2>1, <2>2 DEF CoreInv, OneRaiser
<1>10. CASE UNCHANGED vars
  BY <1>10 DEF vars, CoreInv, OneRaiser
<1>11. QED
  BY <1>1, <1>2, <1>3, <1>4, <1>5, <1>6, <1>7, <1>8, <1>9, <1>10 DEF Next, Proceed

(* A core is counted once, when it acknowledges, and stays counted: with    *)
(* Windows' IDT no NMI takes it back.                                       *)
LEMMA TypeInductive == IInv /\ [Next]_vars => TypeOK'
<1> SUFFICES ASSUME IInv, [Next]_vars PROVE TypeOK'
  OBVIOUS
<1> USE CoreAssumption, ErrorsAssumption DEF Bugchecked
<1>1. TypeOK /\ CoreInv
  BY DEF IInv
<1>2. ASSUME NEW c \in Core, NEW l \in PC, Goto(c, l),
             pc[c] \in {"send", "wait", "unblock", "hang"} \cup Bugchecked
               <=> l \in {"send", "wait", "unblock", "hang"} \cup Bugchecked
      PROVE  pc' \in [Core -> PC] /\ GaveControl' = GaveControl
  <2>1. pc' \in [Core -> PC] /\ pc'[c] = l /\ \A d \in Core \ {c} : pc'[d] = pc[d]
    BY <1>1, <1>2, StepsMoveOneCore
  <2>2. QED
    BY <1>2, <2>1 DEF GaveControl
<1>3. ASSUME NEW c \in Core, EnterRoot(c) \/ LeaveRoot(c) \/ Error(c) PROVE TypeOK'
  <2>1. /\ pc[c] \in {"guest", "root"} /\ \E l \in {"guest", "root", "claim"} : Goto(c, l)
        /\ UNCHANGED <<crash_in_progress, crash_ack_core_count, vmx, os_idt, nmi, masked, foreign>>
    BY <1>3 DEF EnterRoot, LeaveRoot, Error
  <2>2. pc' \in [Core -> PC] /\ GaveControl' = GaveControl
    BY <1>2, <2>1 DEF PC
  <2>3. errors' \in 0 .. MaxErrors
    BY <1>1, <1>3 DEF EnterRoot, LeaveRoot, Error, TypeOK
  <2>4. QED
    BY <1>1, <2>1, <2>2, <2>3 DEF TypeOK
<1>4. ASSUME NEW c \in Core, claim(c) PROVE TypeOK'
  <2>1. /\ pc[c] = "claim" /\ \E l \in {"raise_off", "give_off"} : Goto(c, l)
        /\ crash_in_progress' = 1 /\ UNCHANGED <<crash_ack_core_count, vmx, os_idt, nmi, masked, foreign, errors>>
    BY <1>4 DEF claim
  <2>2. pc' \in [Core -> PC] /\ GaveControl' = GaveControl
    BY <1>2, <2>1 DEF PC, Raising, Giving
  <2>3. QED
    BY <1>1, <2>1, <2>2 DEF TypeOK
<1>5. ASSUME NEW c \in Core, vmxoff(c) PROVE TypeOK'
  <2>1. /\ pc[c] \in {"raise_off", "give_off"} /\ \E l \in {"raise_idt", "give_idt", "fault"} : Goto(c, l)
        /\ vmx' = vmx \ {c}
        /\ UNCHANGED <<crash_in_progress, crash_ack_core_count, os_idt, nmi, masked, foreign, errors>>
    BY <1>5 DEF vmxoff
  <2>2. pc' \in [Core -> PC] /\ GaveControl' = GaveControl
    BY <1>2, <2>1 DEF PC, Raising, Giving
  <2>3. QED
    BY <1>1, <2>1, <2>2 DEF TypeOK
<1>6. ASSUME NEW c \in Core, restore_idt(c) PROVE TypeOK'
  <2>1. /\ pc[c] \in {"raise_idt", "give_idt"} /\ \E l \in {"raise_ack", "give_ack"} : Goto(c, l)
        /\ os_idt' = os_idt \cup {c}
        /\ UNCHANGED <<crash_in_progress, crash_ack_core_count, vmx, nmi, masked, foreign, errors>>
    BY <1>6 DEF restore_idt
  <2>2. pc' \in [Core -> PC] /\ GaveControl' = GaveControl
    BY <1>2, <2>1 DEF PC, Raising, Giving
  <2>3. QED
    BY <1>1, <2>1, <2>2 DEF TypeOK
<1>7. ASSUME NEW c \in Core, acknowledge(c) PROVE TypeOK'
  <2>1. /\ pc[c] \in {"raise_ack", "give_ack"} /\ crash_ack_core_count' = crash_ack_core_count + 1
        /\ UNCHANGED <<crash_in_progress, vmx, os_idt, nmi, masked, foreign, errors>>
    BY <1>7 DEF acknowledge
  <2>2. PICK l \in {"send", "unblock"} : Goto(c, l)
    BY <1>7 DEF acknowledge
  <2>3. pc' \in [Core -> PC] /\ pc'[c] = l /\ \A d \in Core \ {c} : pc'[d] = pc[d]
    BY <1>1, <2>2, StepsMoveOneCore DEF PC, Raising, Giving
  <2>4. GaveControl' = GaveControl \cup {c} /\ c \notin GaveControl
    BY <2>1, <2>3 DEF GaveControl
  <2>5. IsFiniteSet(GaveControl)
    BY FS_Subset DEF GaveControl
  <2>6. Cardinality(GaveControl') = Cardinality(GaveControl) + 1
    BY <2>4, <2>5, FS_AddElement
  <2>7. c \notin vmx /\ c \in os_idt
    BY <1>1, <2>1 DEF CoreInv, AfterIdt
  <2>8. QED
    BY <1>1, <2>1, <2>3, <2>4, <2>6, <2>7 DEF TypeOK
<1>8. ASSUME NEW c \in Core, send_nmi_all_others(c) \/ wait_for_acks(c) PROVE TypeOK'
  <2>1. /\ pc[c] \in {"send", "wait"} /\ \E l \in {"wait", "bugcheck", "bugcheck_unsent"} : Goto(c, l)
        /\ nmi' \subseteq nmi \cup Core
        /\ UNCHANGED <<crash_in_progress, crash_ack_core_count, vmx, os_idt, masked, foreign, errors>>
    BY <1>8 DEF send_nmi_all_others, wait_for_acks
  <2>2. pc' \in [Core -> PC] /\ GaveControl' = GaveControl
    BY <1>2, <2>1 DEF PC, Raising
  <2>3. QED
    BY <1>1, <2>1, <2>2 DEF TypeOK
<1>9. ASSUME NEW c \in Core, handle_nmi(c) PROVE TypeOK'
  <2>1. /\ c \notin os_idt /\ nmi' = nmi \ {c} /\ masked' \subseteq masked \cup {c}
        /\ Goto(c, "give_off") \/ pc' = pc
        /\ UNCHANGED <<crash_in_progress, crash_ack_core_count, vmx, os_idt, foreign, errors>>
    BY <1>9 DEF handle_nmi
  <2>2. pc[c] \notin AfterIdt
    BY <1>1, <2>1 DEF CoreInv
  <2>3. pc' \in [Core -> PC] /\ GaveControl' = GaveControl
    <3>1. CASE Goto(c, "give_off")
      BY <1>2, <2>2, <3>1 DEF PC, Giving, AfterIdt
    <3>2. CASE pc' = pc
      BY <1>1, <3>2 DEF TypeOK, GaveControl
    <3>3. QED
      BY <2>1, <3>1, <3>2
  <2>4. QED
    BY <1>1, <2>1, <2>3 DEF TypeOK
<1>10. ASSUME NEW c \in Core, windows_nmi(c) PROVE TypeOK'
  BY <1>1, <1>10 DEF windows_nmi, TypeOK, GaveControl
<1>11. ASSUME NEW c \in Core, cpu_hang_unblock_nmi(c) PROVE TypeOK'
  <2>1. /\ pc[c] = "unblock" /\ Goto(c, "hang") /\ masked' \subseteq masked
        /\ UNCHANGED <<crash_in_progress, crash_ack_core_count, vmx, os_idt, nmi, foreign, errors>>
    BY <1>11 DEF cpu_hang_unblock_nmi
  <2>2. pc' \in [Core -> PC] /\ GaveControl' = GaveControl
    BY <1>2, <2>1 DEF PC, Giving
  <2>3. QED
    BY <1>1, <2>1, <2>2 DEF TypeOK
<1>12. CASE UNCHANGED vars
  BY <1>1, <1>12 DEF vars, TypeOK, GaveControl
<1>13. QED
  BY <1>3, <1>4, <1>5, <1>6, <1>7, <1>8, <1>9, <1>10, <1>11, <1>12 DEF Next, Proceed

(* When the count reaches the number of cores, every core is counted. *)
LEMMA AllCounted ==
  ASSUME TypeOK, crash_ack_core_count >= Cardinality(Core)
  PROVE  GaveControl = Core
<1>1. IsFiniteSet(Core) /\ GaveControl \in SUBSET Core
  BY CoreAssumption DEF GaveControl
<1>2. /\ Cardinality(GaveControl) <= Cardinality(Core)
      /\ Cardinality(GaveControl) = Cardinality(Core) => GaveControl = Core
  BY <1>1, FS_Subset
<1>3. Cardinality(Core) \in Nat /\ Cardinality(GaveControl) \in Nat
  BY <1>1, FS_CardinalityType, FS_Subset
<1>4. QED
  BY <1>2, <1>3 DEF TypeOK

(* The raiser passes its wait when all others have acknowledged, and a core *)
(* that has acknowledged only goes on to hang.                              *)
LEMMA BugcheckInductive == IInv /\ [Next]_vars => BugcheckAfterAll'
<1> SUFFICES ASSUME IInv, [Next]_vars,
                    NEW r \in Core, pc'[r] = "bugcheck", NEW d \in Core \ {r}
             PROVE  pc'[d] \in {"unblock", "hang"} /\ d \notin vmx' /\ d \in os_idt'
  BY DEF BugcheckAfterAll
<1>1. TypeOK /\ CoreInv /\ OneRaiser /\ BugcheckAfterAll /\ CoreInv'
  BY CoreInductive DEF IInv
<1>2. SUFFICES pc'[d] \in {"unblock", "hang"}
  BY <1>1 DEF CoreInv, AfterIdt
<1>3. CASE \E c \in Core : wait_for_acks(c)
  <2>1. PICK c \in Core : wait_for_acks(c)
    BY <1>3
  <2>2. pc[c] = "wait" /\ Goto(c, "bugcheck") /\ GaveControl = Core
    BY <1>1, <2>1, AllCounted DEF wait_for_acks
  <2>3. pc'[c] = "bugcheck" /\ \A e \in Core \ {c} : pc'[e] = pc[e]
    BY <1>1, <2>2, StepsMoveOneCore DEF PC, Bugchecked
  <2>4. \A e \in Core \ {c} : pc[e] \in {"unblock", "hang"}
    BY <1>1, <2>2 DEF GaveControl, OneRaiser, Raising
  <2>5. QED
    BY <2>3, <2>4
<1>4. CASE ~\E c \in Core : wait_for_acks(c)
  <2> USE DEF EnterRoot, LeaveRoot, Error, Proceed, claim, vmxoff, restore_idt, acknowledge,
              cpu_hang_unblock_nmi, send_nmi_all_others, handle_nmi, windows_nmi, vars, Goto
  <2>1. \A c \in Core : pc'[c] = "bugcheck" => pc[c] = "bugcheck"
    BY <1>1, <1>4 DEF Next, TypeOK
  <2>2. pc[d] \in {"unblock", "hang"} /\ d \in os_idt
    BY <1>1, <2>1 DEF BugcheckAfterAll
  <2>3. pc'[d] = pc[d] \/ pc'[d] = "hang"
    BY <1>1, <1>4, <2>2 DEF Next, TypeOK
  <2>4. QED
    BY <2>2, <2>3
<1>5. QED
  BY <1>3, <1>4

-----------------------------------------------------------------------------
(* The invariant holds in every reachable state. *)
LEMMA CrashInvariant == Spec => []IInv
<1>1. Init => IInv
  <2> SUFFICES ASSUME Init PROVE IInv
    OBVIOUS
  <2>1. \A c \in Core : pc[c] = "guest"
    BY DEF Init
  <2>2. GaveControl = {} /\ Cardinality({}) = 0
    BY <2>1, FS_EmptySet DEF GaveControl, Bugchecked
  <2>3. TypeOK
    BY <2>2, ErrorsAssumption DEF Init, TypeOK, PC
  <2>4. CoreInv
    BY <2>1 DEF Init, CoreInv, AfterIdt, Unsent, Bugchecked
  <2>5. OneRaiser /\ BugcheckAfterAll
    BY <2>1 DEF OneRaiser, BugcheckAfterAll, Raising, Bugchecked
  <2>6. QED
    BY <2>3, <2>4, <2>5 DEF IInv
<1>2. IInv /\ [Next]_vars => IInv'
  BY TypeInductive, CoreInductive, BugcheckInductive DEF IInv
<1>3. QED
  BY <1>1, <1>2, PTL DEF Spec

(* The acknowledgement count is the number of cores out of VMX operation    *)
(* with Windows' IDT, however errors and NMIs interleave.                   *)
THEOREM AcknowledgedOnce == Spec => []TypeOK
<1>1. IInv => TypeOK
  BY DEF IInv
<1>2. QED
  BY <1>1, CrashInvariant, PTL

(* One core calls KeBugCheckEx, on any number of cores and errors. *)
THEOREM OnlyOneRaiser == Spec => []OneRaiser
<1>1. IInv => OneRaiser
  BY DEF IInv
<1>2. QED
  BY <1>1, CrashInvariant, PTL

(* When KeBugCheckEx is called after the wait, every other core has         *)
(* acknowledged and is out of VMX operation with Windows' IDT.              *)
THEOREM BugcheckWaitsForAll == Spec => []BugcheckAfterAll
<1>1. IInv => BugcheckAfterAll
  BY DEF IInv
<1>2. QED
  BY <1>1, CrashInvariant, PTL

(* VMXOFF twice, and an NMI through Windows' IDT, take two errors: with one *)
(* no core gives control outside the NMI that blocks further ones, and none *)
(* is sent a second.                                                        *)
THEOREM OneErrorOneVmxoff ==
  ASSUME MaxErrors <= 1 PROVE Spec => [](NoSecondVmxoff /\ NoForeignBugcheck)
<1> USE DEF SingleInv, NoSecondVmxoff, NoForeignBugcheck, Raising, Giving, Bugchecked, Unsent
<1>1. Init => SingleInv
  BY DEF Init
<1>2. IInv /\ SingleInv /\ [Next]_vars => SingleInv'
  <2> SUFFICES ASSUME IInv, SingleInv, [Next]_vars PROVE SingleInv'
    OBVIOUS
  <2> USE ErrorsAssumption
  <2>1. TypeOK /\ CoreInv /\ OneRaiser /\ errors \in 0 .. MaxErrors /\ pc \in [Core -> PC]
    BY DEF IInv, TypeOK
  <2>2. ASSUME NEW c \in Core, EnterRoot(c) \/ LeaveRoot(c) PROVE SingleInv'
    BY <2>1, <2>2 DEF EnterRoot, LeaveRoot, Goto
  <2>3. ASSUME NEW c \in Core, Error(c) PROVE SingleInv'
    <3>1. errors = 0 /\ errors' = 1
      BY <2>1, <2>3, MaxErrors <= 1 DEF Error
    <3>2. QED
      BY <2>1, <2>3, <3>1 DEF Error, Goto
  <2>4. ASSUME NEW c \in Core, claim(c) PROVE SingleInv'
    <3>1. /\ pc[c] = "claim" /\ crash_in_progress = 0 /\ nmi = {}
          /\ \A d \in Core : pc[d] \in {"guest", "root", "claim"}
      BY <2>1, <2>4 DEF claim, CoreInv
    <3>2. QED
      BY <2>1, <2>4, <3>1 DEF claim, Goto
  <2>5. ASSUME NEW c \in Core, vmxoff(c) PROVE SingleInv'
    BY <2>1, <2>5 DEF vmxoff, Goto, CoreInv
  <2>6. ASSUME NEW c \in Core, restore_idt(c) \/ acknowledge(c) \/ cpu_hang_unblock_nmi(c) PROVE SingleInv'
    BY <2>1, <2>6 DEF restore_idt, acknowledge, cpu_hang_unblock_nmi, Goto
  <2>7. ASSUME NEW c \in Core, wait_for_acks(c) PROVE SingleInv'
    BY <2>1, <2>7 DEF wait_for_acks, Goto
  <2>8. ASSUME NEW c \in Core, send_nmi_all_others(c) PROVE SingleInv'
    <3>1. \A d \in Core \ {c} : pc[d] \notin Raising \cup Giving \cup Bugchecked
      BY <2>1, <2>8 DEF send_nmi_all_others, OneRaiser
    <3>2. QED
      BY <2>1, <2>8, <3>1 DEF send_nmi_all_others, Goto
  <2>9. ASSUME NEW c \in Core, handle_nmi(c) PROVE SingleInv'
    <3>1. /\ c \in nmi /\ c \notin masked /\ c \notin os_idt /\ pc[c] # "fault" /\ nmi' = nmi \ {c}
          /\ UNCHANGED <<crash_in_progress, vmx, errors, foreign>>
      BY <2>9 DEF handle_nmi
    <3>2. crash_in_progress # 0 /\ Goto(c, "give_off") /\ masked' = masked \cup {c}
      BY <2>1, <2>9, <3>1 DEF handle_nmi, CoreInv
    <3>3. pc[c] \in {"guest", "root"}
      BY <2>1, <3>1, <3>2 DEF PC
    <3>4. c \in vmx /\ \A d \in Core : pc[d] \notin Unsent
      BY <2>1, <3>1, <3>3 DEF CoreInv
    <3>5. QED
      BY <2>1, <3>1, <3>2, <3>4 DEF Goto
  <2>10. ASSUME NEW c \in Core, windows_nmi(c) PROVE SingleInv'
    <3>1. c \in nmi /\ pc[c] \in AfterIdt
      BY <2>1, <2>10 DEF windows_nmi, CoreInv
    <3>2. FALSE
      BY <3>1 DEF AfterIdt
    <3>3. QED
      BY <3>2
  <2>11. CASE UNCHANGED vars
    BY <2>11 DEF vars
  <2>12. QED
    BY <2>2, <2>3, <2>4, <2>5, <2>6, <2>7, <2>8, <2>9, <2>10, <2>11 DEF Next, Proceed
<1>3. SingleInv => NoSecondVmxoff /\ NoForeignBugcheck
  OBVIOUS
<1>4. QED
  BY <1>1, <1>2, <1>3, CrashInvariant, PTL DEF Spec
=============================================================================
