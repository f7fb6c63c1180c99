-------------------------- MODULE NmiQueueProofs ----------------------------
(***************************************************************************)
(* The NMI queue, for any number of NMIs.                                  *)
(***************************************************************************)
EXTENDS NmiQueue, TLAPS

(* Where the exit handler is decides what the control bit says of the       *)
(* queue: until the write that clears the bit it is set, between that write *)
(* and the second test it may be clear although an NMI has come in.         *)
WindowInv ==
  /\ nmi_pc \in {"guest", "resume"} => (nmi_window_exiting <=> queued_nmi_count > 0)
  /\ nmi_pc \in {"load", "store"} => nmi_window_exiting /\ queued_nmi_count > 0
  /\ nmi_pc = "store" => SplitDecrement /\ loaded > 0
  /\ nmi_pc \in {"inject", "test", "disable"} => nmi_window_exiting
  /\ nmi_pc = "again" => (nmi_window_exiting => queued_nmi_count > 0)
  /\ nmi_pc = "enable" => queued_nmi_count > 0

IInv == NmiTypeOK /\ WindowInv

(* The interruption-information field is empty when a window exit starts. *)
ConserveInv ==
  /\ inject => nmi_pc \in {"test", "disable", "again", "enable", "resume"}
  /\ NmisConserved

(* Host NMIs at every point of handle_nmi_window keep the invariant. *)
LEMMA WindowInductive == IInv /\ [NmiNext]_nmiVars => IInv'
<1> SUFFICES ASSUME IInv, [NmiNext]_nmiVars PROVE IInv'
  OBVIOUS
<1> USE NmiAssumption DEF IInv, NmiTypeOK, WindowInv
<1>1. CASE NmiRaised
  BY <1>1 DEF NmiRaised
<1>2. CASE HandleNmi
  <2>1. /\ queued_nmi_count' = queued_nmi_count + 1 /\ received' = received + 1
        /\ nmi_window_exiting' = TRUE /\ latched' = FALSE /\ inject' \in BOOLEAN
        /\ UNCHANGED <<nmi_pc, loaded, blocked, raised, delivered>>
    BY <1>2 DEF HandleNmi, guest_handle_nmi, host_handle_nmi, enqueue_nmi
  <2>2. nmi_window_exiting' /\ queued_nmi_count' > 0
    BY <2>1
  <2>3. NmiTypeOK'
    <3>1. queued_nmi_count' \in Nat /\ received' \in Nat
      BY <2>1
    <3>2. nmi_window_exiting' \in BOOLEAN /\ latched' \in BOOLEAN /\ inject' \in BOOLEAN
      BY <2>1
    <3>3. UNCHANGED <<nmi_pc, loaded, blocked, raised, delivered>>
      BY <2>1
    <3>4. QED
      BY <3>1, <3>2, <3>3
  <2>4. WindowInv'
    BY <2>1, <2>2
  <2>5. QED
    BY <2>3, <2>4
<1>3. CASE OtherExit
  BY <1>3 DEF OtherExit
<1>4. CASE NmiWindowExit
  BY <1>4 DEF NmiWindowExit
<1>5. CASE DecrementStep
  BY <1>5 DEF DecrementStep, Decrement
<1>6. CASE inject_nmi
  BY <1>6 DEF inject_nmi
<1>7. CASE Test
  BY <1>7 DEF Test, TestEmpty, TestAgain
<1>8. CASE SetWindow
  BY <1>8 DEF SetWindow, disable_nmi_window_exiting, enable_nmi_window_exiting
<1>9. CASE GuestEntry
  <2>1. blocked' \in BOOLEAN /\ inject' \in BOOLEAN
    BY <1>9, Zenon DEF GuestEntry
  <2>2. delivered' = IF inject THEN delivered + 1 ELSE delivered
    BY <1>9 DEF GuestEntry
  <2>3. delivered' \in Nat
    BY <2>2
  <2>4. nmi_pc = "resume" /\ nmi_pc' = "guest"
        /\ UNCHANGED <<queued_nmi_count, loaded, nmi_window_exiting, latched, raised, received>>
    BY <1>9 DEF GuestEntry
  <2>5. QED
    BY <2>1, <2>3, <2>4
<1>10. CASE GuestIret
  BY <1>10 DEF GuestIret
<1>11. CASE UNCHANGED nmiVars
  BY <1>11 DEF nmiVars
<1>12. QED
  BY <1>1, <1>2, <1>3, <1>4, <1>5, <1>6, <1>7, <1>8, <1>9, <1>10, <1>11
     DEF NmiNext, handle_nmi_window

(* The inductive invariant holds in every reachable state. *)
LEMMA WindowInvariant == NmiSpec => []IInv
<1>1. NmiInit => IInv
  <2> SUFFICES ASSUME NmiInit PROVE IInv
    OBVIOUS
  <2>1. ~nmi_window_exiting /\ nmi_pc = "guest" /\ queued_nmi_count = 0
    BY DEF NmiInit
  <2>2. WindowInv
    BY <2>1 DEF WindowInv
  <2>3. NmiTypeOK
    BY DEF NmiInit, NmiTypeOK
  <2>4. QED
    BY <2>2, <2>3 DEF IInv
<1>2. QED
  BY <1>1, WindowInductive, PTL DEF NmiSpec

(* The count never underflows, however the decrement is compiled. *)
THEOREM CountIsNatural == NmiSpec => []NmiTypeOK
<1>1. IInv => NmiTypeOK
  BY DEF IInv
<1>2. QED
  BY <1>1, WindowInvariant, PTL

(* The guest never runs with an NMI waiting and the window closed, nor with *)
(* the window open and none waiting, however the decrement is compiled.     *)
THEOREM WindowMatchesQueue == NmiSpec => []WindowArmed
<1>1. IInv => WindowArmed
  BY DEF IInv, WindowInv, WindowArmed
<1>2. QED
  BY <1>1, WindowInvariant, PTL

(* If the decrement is one instruction, no NMI is lost or made up. *)
THEOREM NoNmiLost == ASSUME ~SplitDecrement PROVE NmiSpec => []NmisConserved
<1>1. NmiInit => ConserveInv
  BY DEF NmiInit, ConserveInv, NmisConserved
<1>2. IInv /\ ConserveInv /\ [NmiNext]_nmiVars => ConserveInv'
  <2> SUFFICES ASSUME IInv, ConserveInv, [NmiNext]_nmiVars PROVE ConserveInv'
    OBVIOUS
  <2> USE ~SplitDecrement DEF IInv, NmiTypeOK, WindowInv, ConserveInv, NmisConserved
  <2>1. CASE NmiRaised
    BY <2>1 DEF NmiRaised
  <2>2. CASE HandleNmi
    BY <2>2 DEF HandleNmi, guest_handle_nmi, host_handle_nmi, enqueue_nmi
  <2>3. CASE OtherExit
    BY <2>3 DEF OtherExit
  <2>4. CASE NmiWindowExit
    BY <2>4 DEF NmiWindowExit
  <2>5. CASE DecrementStep
    BY <2>5 DEF DecrementStep, Decrement
  <2>6. CASE inject_nmi
    BY <2>6 DEF inject_nmi
  <2>7. CASE Test
    BY <2>7 DEF Test, TestEmpty, TestAgain
  <2>8. CASE SetWindow
    BY <2>8 DEF SetWindow, disable_nmi_window_exiting, enable_nmi_window_exiting
  <2>9. CASE GuestEntry
    BY <2>9 DEF GuestEntry
  <2>10. CASE GuestIret
    BY <2>10 DEF GuestIret
  <2>11. CASE UNCHANGED nmiVars
    BY <2>11 DEF nmiVars
  <2>12. QED
    BY <2>1, <2>2, <2>3, <2>4, <2>5, <2>6, <2>7, <2>8, <2>9, <2>10, <2>11
       DEF NmiNext, handle_nmi_window
<1>3. ConserveInv => NmisConserved
  BY DEF ConserveInv
<1>4. QED
  BY <1>1, <1>2, <1>3, WindowInvariant, PTL DEF NmiSpec
=============================================================================
