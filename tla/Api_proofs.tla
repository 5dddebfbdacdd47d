------------------------------ MODULE Api_proofs ------------------------------
(***************************************************************************)
(* Two parts of the API: its connector and its AutoTrading toggle.  The    *)
(* two specifications share no name; each theorem is of one of them.       *)
(*                                                                         *)
(* Connector.  However requests interleave, it runs one init thread at a   *)
(* time and its _initializing flag is true exactly while it does.  The     *)
(* flag is read and written under the lock by whoever starts a thread, and *)
(* cleared outside it by the thread alone; so between the read and the     *)
(* write nobody else can set it, which is what Exclusive and Unset say.    *)
(*                                                                         *)
(* AutoTrading.  Whoever else presses, and however late the GUI acts: a    *)
(* call that met no other press and none of its own late ones (misled) has *)
(* nothing pending before its press, and after it at most this one, which  *)
(* moves the switch to what was asked.                                     *)
(***************************************************************************)
EXTENDS Connector, AutoTrading, TLAPS

Critical == {"recheck", "launch", "unlock"}

Exclusive == \A r \in Requests : pc[r] \in Critical => lock = r
Unset     == \A r \in Requests : pc[r] = "launch" => ~initializing
IInv      == TypeOK /\ Exclusive /\ Unset /\ OneInit

(* The two halves of TypeOK, one for each kind of prover. *)
Flags ==
    /\ marker \in BOOLEAN /\ terminal \in BOOLEAN /\ wedged \in BOOLEAN
    /\ loginValid \in BOOLEAN /\ attached \in BOOLEAN /\ server \in BOOLEAN
    /\ initialized \in BOOLEAN /\ initializing \in BOOLEAN
    /\ recent \in BOOLEAN /\ heldOff \in BOOLEAN
Places ==
    /\ ipcFailures \in Nat /\ lastError \in Refusals
    /\ lock \in Requests \cup {NoOne}
    /\ pc \in [Requests -> RequestPlaces]
    /\ init \in [Inits -> InitPlaces]
    /\ answer \in [Inits -> Refusals]
    /\ disconnects \in Nat /\ deaths \in Nat /\ wedges \in Nat

LEMMA TypeHalves == TypeOK <=> Flags /\ Places
  BY DEF TypeOK, Flags, Places

LEMMA InitIInv == Init => IInv
<1> SUFFICES ASSUME Init
             PROVE  IInv
  OBVIOUS
<1>1. Flags
  BY Zenon DEF Init, Flags
<1>2. Places
  BY DEF Init, Places, RequestPlaces, InitPlaces, Refusals
<1>3. OneInit
  <2>1. ~initializing /\ \A t \in Inits : ~Active(t)
    BY DEF Init, Active
  <2>2. QED
    BY <2>1 DEF OneInit
<1>4. Exclusive /\ Unset
  BY DEF Init, Exclusive, Unset, Critical
<1>5. QED
  BY <1>1, <1>2, <1>3, <1>4, TypeHalves DEF IInv

LEMMA FlagsStep == Flags /\ [Next]_vars => Flags'
<1> SUFFICES ASSUME Flags, [Next]_vars
             PROVE  Flags'
  OBVIOUS
<1> USE DEF Flags, worldVars, errorVars, flagVars, bounds
<1>1. ASSUME WorldNext
      PROVE  Flags'
  <2>1. CASE LoginCompletes
    BY <2>1, Zenon DEF LoginCompletes
  <2>2. CASE LoginFixed
    BY <2>2, Zenon DEF LoginFixed
  <2>3. CASE TerminalDies
    BY <2>3, Zenon DEF TerminalDies
  <2>4. CASE TerminalLaunched
    BY <2>4, Zenon DEF TerminalLaunched
  <2>5. CASE PipeWedges
    BY <2>5, Zenon DEF PipeWedges
  <2>6. CASE MinutePasses
    BY <2>6, Zenon DEF MinutePasses
  <2>7. CASE ServerStarts
    BY <2>7, Zenon DEF ServerStarts
  <2>8. QED
    BY <1>1, <2>1, <2>2, <2>3, <2>4, <2>5, <2>6, <2>7 DEF WorldNext
<1>2. ASSUME NEW r \in Requests, Ask(r) \/ Shutdown(r) \/ RequestNext(r)
      PROVE  Flags'
  <2>1. CASE Ask(r)
    BY <2>1, Zenon DEF Ask, OnlyPc
  <2>2. CASE Shutdown(r)
    BY <2>2, Zenon DEF Shutdown, OnlyPc
  <2>3. CASE ReadInitialized(r)
    BY <2>3, Zenon DEF ReadInitialized, OnlyPc
  <2>4. CASE ReadInitializing(r)
    BY <2>4, Zenon DEF ReadInitializing, OnlyPc
  <2>5. CASE ReadRefusal(r)
    BY <2>5, Zenon DEF ReadRefusal, OnlyPc
  <2>6. CASE Quote(r)
    BY <2>6, Zenon DEF Quote, OnlyPc
  <2>7. CASE ForgetRefusal(r)
    BY <2>7, Zenon DEF ForgetRefusal, OnlyPc
  <2>8. CASE TakeLock(r)
    BY <2>8, Zenon DEF TakeLock, OnlyPc
  <2>9. CASE Recheck(r)
    BY <2>9, Zenon DEF Recheck, OnlyPc
  <2>10. CASE Launch(r)
    BY <2>10, Zenon DEF Launch, OnlyPc
  <2>11. CASE Unlock(r)
    BY <2>11, Zenon DEF Unlock, OnlyPc
  <2>12. CASE ClearInitialized(r)
    BY <2>12, Zenon DEF ClearInitialized, OnlyPc
  <2>13. QED
    BY <1>2, <2>1, <2>2, <2>3, <2>4, <2>5, <2>6, <2>7, <2>8, <2>9, <2>10, <2>11, <2>12 DEF RequestNext
<1>3. ASSUME NEW t \in Inits, InitNext(t)
      PROVE  Flags'
  <2>1. CASE CallSucceeds(t)
    BY <2>1, Zenon DEF CallSucceeds
  <2>2. CASE CallRefused(t)
    BY <2>2, Zenon DEF CallRefused
  <2>3. CASE CallRaises(t)
    BY <2>3, Zenon DEF CallRaises
  <2>4. CASE SetInitialized(t)
    BY <2>4, Zenon DEF SetInitialized
  <2>5. CASE StampRefusal(t)
    BY <2>5, Zenon DEF StampRefusal
  <2>6. CASE Exit(t)
    BY <2>6, Zenon DEF Exit
  <2>7. CASE Finally(t)
    BY <2>7, Zenon DEF Finally
  <2>8. CASE NoteRefusal(t)
    <3>1. heldOff' \in BOOLEAN
      BY <2>8 DEF NoteRefusal
    <3>2. QED
      BY <2>8, <3>1, Zenon DEF NoteRefusal
  <2>9. QED
    BY <1>3, <2>1, <2>2, <2>3, <2>4, <2>5, <2>6, <2>7, <2>8 DEF InitNext
<1>4. CASE UNCHANGED vars
  BY <1>4, Zenon DEF vars
<1>5. QED
  BY <1>1, <1>2, <1>3, <1>4 DEF Next

LEMMA PlacesStep == Places /\ [Next]_vars => Places'
<1> SUFFICES ASSUME Places, [Next]_vars
             PROVE  Places'
  OBVIOUS
<1> USE DEF Places, RequestPlaces, InitPlaces, Refusals, worldVars, errorVars,
            flagVars, bounds
<1>1. ASSUME WorldNext
      PROVE  Places'
  BY <1>1 DEF WorldNext, LoginCompletes, LoginFixed, TerminalDies,
              TerminalLaunched, PipeWedges, MinutePasses, ServerStarts
<1>2. ASSUME NEW r \in Requests, Ask(r) \/ Shutdown(r) \/ RequestNext(r)
      PROVE  Places'
  <2> USE DEF Goto, OnlyPc
  <2>1. CASE Ask(r) \/ Quote(r)
    BY <2>1 DEF Ask, Quote
  <2>2. CASE Shutdown(r) \/ ClearInitialized(r)
    BY <2>2 DEF Shutdown, ClearInitialized
  <2>3. CASE ReadInitialized(r) \/ ReadInitializing(r) \/ ReadRefusal(r)
    BY <2>3 DEF ReadInitialized, ReadInitializing, ReadRefusal
  <2>4. CASE ForgetRefusal(r)
    BY <2>4 DEF ForgetRefusal
  <2>5. CASE TakeLock(r) \/ Unlock(r)
    BY <2>5 DEF TakeLock, Unlock
  <2>6. CASE Recheck(r)
    BY <2>6 DEF Recheck
  <2>7. CASE Launch(r)
    BY <2>7 DEF Launch
  <2>8. QED
    BY <1>2, <2>1, <2>2, <2>3, <2>4, <2>5, <2>6, <2>7 DEF RequestNext
<1>3. ASSUME NEW t \in Inits, InitNext(t)
      PROVE  Places'
  <2> USE DEF Step
  <2>1. CASE CallSucceeds(t) \/ CallRefused(t) \/ CallRaises(t)
    BY <2>1 DEF CallSucceeds, CallRefused, CallRaises
  <2>2. CASE SetInitialized(t) \/ Finally(t)
    BY <2>2 DEF SetInitialized, Finally
  <2>3. CASE NoteRefusal(t)
    BY <2>3 DEF NoteRefusal
  <2>4. CASE StampRefusal(t)
    BY <2>4 DEF StampRefusal
  <2>5. CASE Exit(t)
    BY <2>5 DEF Exit
  <2>6. QED
    BY <1>3, <2>1, <2>2, <2>3, <2>4, <2>5 DEF InitNext
<1>4. CASE UNCHANGED vars
  BY <1>4 DEF vars
<1>5. QED
  BY <1>1, <1>2, <1>3, <1>4 DEF Next

LEMMA TypeOKStep == TypeOK /\ [Next]_vars => TypeOK'
<1> SUFFICES ASSUME TypeOK, [Next]_vars
             PROVE  TypeOK'
  OBVIOUS
<1>1. Flags' /\ Places'
  BY FlagsStep, PlacesStep, TypeHalves
<1>2. QED
  BY <1>1 DEF TypeOK, Flags, Places

(* What the world does touches neither threads nor flags. *)
LEMMA WorldStep ==
    ASSUME IInv, WorldNext \/ UNCHANGED vars
    PROVE  Exclusive' /\ Unset' /\ OneInit'
<1>1. /\ pc' = pc /\ lock' = lock /\ init' = init /\ initializing' = initializing
  BY DEF WorldNext, LoginCompletes, LoginFixed, TerminalDies, TerminalLaunched,
         PipeWedges, MinutePasses, ServerStarts, vars, flagVars
<1>2. QED
  BY <1>1 DEF IInv, Exclusive, Unset, OneInit, Active

LEMMA RequestStep ==
    ASSUME IInv, NEW r \in Requests, Ask(r) \/ Shutdown(r) \/ RequestNext(r)
    PROVE  Exclusive' /\ Unset' /\ OneInit'
<1> USE DEF IInv, Goto, At, OnlyPc, flagVars
<1>1. CASE \/ Ask(r) \/ Shutdown(r) \/ ClearInitialized(r) \/ Quote(r)
           \/ ReadInitialized(r) \/ ReadInitializing(r) \/ ReadRefusal(r)
           \/ ForgetRefusal(r)
  <2>1. /\ lock' = lock /\ init' = init /\ initializing' = initializing
        /\ \A q \in Requests : q # r => pc'[q] = pc[q]
        /\ pc'[r] \notin Critical
    BY <1>1 DEF Ask, Shutdown, ClearInitialized, Quote, ReadInitialized,
                ReadInitializing, ReadRefusal, ForgetRefusal, Critical, TypeOK
  <2>2. QED
    BY <2>1 DEF Exclusive, Unset, OneInit, Active, Critical
<1>2. CASE TakeLock(r)
  <2>1. /\ lock = NoOne /\ lock' = r /\ init' = init
        /\ initializing' = initializing
        /\ \A q \in Requests : q # r => pc'[q] = pc[q]
        /\ pc'[r] # "launch"
    BY <1>2 DEF TakeLock, TypeOK
  <2>2. \A q \in Requests : q # r => pc[q] \notin Critical
    BY <2>1, RequestsAssumption DEF Exclusive
  <2>3. QED
    BY <2>1, <2>2 DEF Exclusive, Unset, OneInit, Active, Critical
<1>3. CASE Recheck(r)
  <2>1. /\ lock' = lock /\ lock = r /\ init' = init
        /\ initializing' = initializing
        /\ \A q \in Requests : q # r => pc'[q] = pc[q]
        /\ pc'[r] = "launch" => ~initializing
    BY <1>3 DEF Recheck, TypeOK, Exclusive, Critical
  <2>2. QED
    BY <2>1 DEF Exclusive, Unset, OneInit, Active
<1>4. CASE Launch(r)
  <2>1. PICK t \in Inits : init[t] = "free" /\ init' = [init EXCEPT ![t] = "calling"]
    BY <1>4 DEF Launch
  <2>2. /\ lock' = lock /\ lock = r /\ initializing' = TRUE /\ ~initializing
        /\ \A q \in Requests : q # r => pc'[q] = pc[q]
        /\ pc'[r] = "unlock"
    BY <1>4 DEF Launch, TypeOK, Exclusive, Critical, Unset
  <2>3. \A u \in Inits : ~Active(u)
    BY <2>2 DEF OneInit
  <2>4. \A u \in Inits : Active(u)' <=> u = t
    BY <2>1, <2>3 DEF Active, TypeOK
  <2>5. \A q \in Requests : q # r => pc[q] \notin Critical
    BY <2>2 DEF Exclusive
  <2>6. OneInit'
    BY <2>2, <2>4 DEF OneInit
  <2>7. QED
    BY <2>2, <2>5, <2>6 DEF Exclusive, Unset, Critical
<1>5. CASE Unlock(r)
  <2>1. /\ lock = r /\ lock' = NoOne /\ init' = init
        /\ initializing' = initializing
        /\ \A q \in Requests : q # r => pc'[q] = pc[q]
        /\ pc'[r] = "idle"
    BY <1>5 DEF Unlock, TypeOK, Exclusive, Critical
  <2>2. \A q \in Requests : q # r => pc[q] \notin Critical
    BY <2>1 DEF Exclusive
  <2>3. QED
    BY <2>1, <2>2 DEF Exclusive, Unset, OneInit, Active, Critical
<1>6. QED
  BY <1>1, <1>2, <1>3, <1>4, <1>5 DEF RequestNext

LEMMA InitStep ==
    ASSUME IInv, NEW t \in Inits, InitNext(t)
    PROVE  Exclusive' /\ Unset' /\ OneInit'
<1> USE DEF IInv, Running, Step, flagVars
<1>1. CASE \/ CallSucceeds(t) \/ CallRefused(t) \/ CallRaises(t)
           \/ SetInitialized(t) \/ NoteRefusal(t) \/ StampRefusal(t)
  <2>1. /\ lock' = lock /\ pc' = pc /\ initializing' = initializing
        /\ init[t] # "free" /\ init'[t] # "free"
        /\ \A u \in Inits : u # t => init'[u] = init[u]
    BY <1>1 DEF CallSucceeds, CallRefused, CallRaises, SetInitialized, NoteRefusal,
                StampRefusal, TypeOK
  <2>2. \A u \in Inits : Active(u)' <=> Active(u)
    BY <2>1 DEF Active
  <2>3. QED
    BY <2>1, <2>2 DEF Exclusive, Unset, OneInit
<1>2. CASE Finally(t)
  <2>1. /\ lock' = lock /\ pc' = pc /\ initializing' = FALSE
        /\ init[t] # "free" /\ init'[t] = "free"
        /\ \A u \in Inits : u # t => init'[u] = init[u]
    BY <1>2 DEF Finally, TypeOK
  <2>2. \A u \in Inits : ~Active(u)'
    BY <2>1 DEF OneInit, Active
  <2>3. QED
    BY <2>1, <2>2 DEF Exclusive, Unset, OneInit
<1>3. CASE Exit(t)
  <2>1. /\ initializing' = FALSE
        /\ \A r \in Requests : pc'[r] = "idle"
        /\ \A u \in Inits : init'[u] = "free"
    BY <1>3 DEF Exit
  <2>2. QED
    BY <2>1 DEF Exclusive, Unset, OneInit, Active, Critical
<1>4. QED
  BY <1>1, <1>2, <1>3 DEF InitNext

(* At most one thread is ever inside mt5.initialize, and a flag that would *)
(* refuse every request is never left set (_start_init, _do_initialize).   *)
THEOREM OneInitAlways == Spec => []OneInit
<1>1. IInv /\ [Next]_vars => IInv'
  BY TypeOKStep, WorldStep, RequestStep, InitStep DEF IInv, Next
<1>2. IInv => OneInit
  BY DEF IInv
<1>3. QED
  BY <1>1, <1>2, InitIInv, PTL DEF Spec

(* While a fatal refusal is held, nobody is on the way to a launch, and who *)
(* reads the refusal finds its minute running: either it does, or the      *)
(* thread that stamps it still has _initializing set and nobody gets there.*)
OnTheWay == {"forget", "start", "recheck", "launch"}
Held ==
    heldOff =>
        /\ \A r \in Requests : pc[r] \notin OnTheWay
        /\ lastError = "fatal"
        /\ \/ recent
           \/ /\ \E t \in Inits : init[t] = "noted"
              /\ \A r \in Requests : pc[r] # "refused?"

LEMMA HeldStep == IInv /\ Held /\ [Next]_vars => Held'
<1> SUFFICES ASSUME IInv, Held, [Next]_vars, heldOff'
             PROVE  Held'
  BY DEF Held
<1> USE DEF worldVars, errorVars, flagVars
<1>1. /\ pc \in [Requests -> RequestPlaces] /\ init \in [Inits -> InitPlaces]
      /\ \A t \in Inits : init[t] = "noted" => initializing
  BY DEF IInv, TypeOK, OneInit, Active
<1>2. ASSUME WorldNext \/ UNCHANGED vars
      PROVE  Held'
  <2>1. /\ heldOff /\ pc' = pc /\ init' = init /\ lastError' = lastError
        /\ recent' = recent
    BY <1>2 DEF WorldNext, LoginCompletes, LoginFixed, TerminalDies, TerminalLaunched,
                PipeWedges, MinutePasses, ServerStarts, vars
  <2>2. QED
    BY <2>1 DEF Held
<1>3. ASSUME NEW r \in Requests, Ask(r) \/ Shutdown(r) \/ RequestNext(r)
      PROVE  Held'
  <2> USE DEF At, Goto, OnlyPc
  <2>1. heldOff
    BY <1>3 DEF RequestNext, Ask, Shutdown, ReadInitialized, ReadInitializing, ReadRefusal,
                Quote, ForgetRefusal, TakeLock, Recheck, Launch, Unlock, ClearInitialized
  <2>2. /\ \A q \in Requests : pc[q] \notin OnTheWay
        /\ lastError = "fatal"
        /\ recent \/ \A q \in Requests : pc[q] # "refused?"
        /\ recent \/ \E t \in Inits : init[t] = "noted"
    BY <2>1 DEF Held
  <2>3. /\ init' = init /\ lastError' = lastError /\ recent' = recent
        /\ \A q \in Requests : q # r => pc'[q] = pc[q]
    BY <1>1, <1>3, <2>2 DEF RequestNext, Ask, Shutdown, ReadInitialized, ReadInitializing,
         ReadRefusal, Quote, ForgetRefusal, TakeLock, Recheck, Launch, Unlock,
         ClearInitialized, OnTheWay
  <2>4. pc'[r] \notin OnTheWay
    BY <1>1, <1>3, <2>2 DEF RequestNext, Ask, Shutdown, ReadInitialized, ReadInitializing,
         ReadRefusal, Hold, Quote, ForgetRefusal, TakeLock, Recheck, Launch, Unlock,
         ClearInitialized, OnTheWay
  <2>5. pc'[r] = "refused?" => recent
    BY <1>1, <1>3, <2>2 DEF RequestNext, Ask, Shutdown, ReadInitialized, ReadInitializing,
         ReadRefusal, Hold, Quote, ForgetRefusal, TakeLock, Recheck, Launch, Unlock,
         ClearInitialized, OnTheWay
  <2>6. QED
    BY <2>2, <2>3, <2>4, <2>5 DEF Held
<1>4. ASSUME NEW t \in Inits, InitNext(t)
      PROVE  Held'
  <2> USE DEF Running, Step
  <2>1. CASE NoteRefusal(t)
    <3>1. /\ lastError' = "fatal" /\ pc' = pc /\ init'[t] = "noted"
          /\ \A r \in Requests : pc[r] \notin Deciding
      BY <1>1, <2>1 DEF NoteRefusal
    <3>2. QED
      BY <3>1 DEF Held, Deciding, OnTheWay
  <2>2. CASE StampRefusal(t)
    BY <2>2 DEF StampRefusal, Held
  <2>3. CASE CallSucceeds(t) \/ CallRefused(t) \/ CallRaises(t) \/ SetInitialized(t)
             \/ Finally(t)
    <3>1. /\ heldOff /\ lastError' = lastError /\ recent' = recent /\ pc' = pc
          /\ init[t] # "noted" /\ \A u \in Inits : u # t => init'[u] = init[u]
      BY <1>1, <2>3 DEF CallSucceeds, CallRefused, CallRaises, SetInitialized, Finally
    <3>2. QED
      BY <3>1 DEF Held
  <2>4. CASE Exit(t)
    BY <2>4 DEF Exit
  <2>5. QED
    BY <1>4, <2>1, <2>2, <2>3, <2>4 DEF InitNext
<1>5. QED
  BY <1>2, <1>3, <1>4 DEF Next

(* However requests interleave, the terminal is not asked again within the *)
(* minute of a fatal refusal by one that had not made up its mind when the *)
(* refusal came (initialize, _start_init, _do_initialize).                 *)
THEOREM RefusalAlwaysHeld == Spec => RefusalIsHeld
<1>1. IInv /\ [Next]_vars => IInv'
  BY TypeOKStep, WorldStep, RequestStep, InitStep DEF IInv, Next
<1>2. Init => Held
  BY DEF Init, Held
<1>3. Held /\ IInv /\ [Next]_vars => [Calls' \subseteq Calls \/ ~heldOff]_vars
  <2> SUFFICES ASSUME Held, IInv, Next, heldOff, NEW t \in Calls'
               PROVE  t \in Calls
    OBVIOUS
  <2>1. /\ init \in [Inits -> InitPlaces] /\ pc \in [Requests -> RequestPlaces]
        /\ t \in Inits /\ init'[t] = "calling"
    BY DEF IInv, TypeOK, Calls
  <2>2. ASSUME NEW r \in Requests, Launch(r)
        PROVE  FALSE
    BY <2>2 DEF Launch, At, Held, OnTheWay
  <2>3. ASSUME NEW r \in Requests, Ask(r) \/ Shutdown(r) \/ RequestNext(r)
        PROVE  init' = init
    BY <2>2, <2>3 DEF RequestNext, Ask, Shutdown, ReadInitialized, ReadInitializing,
         ReadRefusal, Quote, ForgetRefusal, TakeLock, Recheck, Unlock,
         ClearInitialized, OnlyPc
  <2>4. ASSUME WorldNext
        PROVE  init' = init
    BY <2>4 DEF WorldNext, LoginCompletes, LoginFixed, TerminalDies, TerminalLaunched,
                PipeWedges, MinutePasses, ServerStarts
  <2>5. ASSUME NEW u \in Inits, InitNext(u)
        PROVE  init'[t] = init[t]
    BY <2>1, <2>5 DEF InitNext, CallSucceeds, CallRefused, CallRaises, SetInitialized,
                      NoteRefusal, StampRefusal, Exit, Finally, Step
  <2>6. QED
    BY <2>1, <2>3, <2>4, <2>5 DEF Next, Calls
<1>4. QED
  BY <1>1, <1>2, <1>3, InitIInv, HeldStep, PTL DEF Spec, RefusalIsHeld
-----------------------------------------------------------------------------
(* The AutoTrading toggle.                                                 *)

(* A program that ends or tries again stays within its types. *)
LEMMA RetryTyped ==
    ASSUME ToggleTypeOK, NEW p \in Pressers,
           Retry(p) \/ \E result \in {"ok", "failed"} : Finish(p, result)
    PROVE  /\ at' \in [Pressers -> {"idle", "look", "press", "wait"}]
           /\ outcome' \in [Pressers -> {"none", "ok", "failed"}]
           /\ tries' \in [Pressers -> 0..Attempts-1]
<1>1. ASSUME NEW result \in {"ok", "failed"}, Finish(p, result)
      PROVE  /\ at' \in [Pressers -> {"idle", "look", "press", "wait"}]
             /\ outcome' \in [Pressers -> {"none", "ok", "failed"}]
             /\ tries' \in [Pressers -> 0..Attempts-1]
  BY <1>1 DEF ToggleTypeOK, Finish, Attempts
<1>2. CASE Retry(p) /\ tries[p] + 1 < Attempts
  BY <1>2 DEF ToggleTypeOK, Retry, Attempts
<1>3. CASE Retry(p) /\ ~(tries[p] + 1 < Attempts)
  BY <1>1, <1>3 DEF Retry
<1>4. QED
  BY <1>1, <1>2, <1>3

(* A step of p changes misled for p alone, or delivers its key.            *)
LEMMA MisledTyped ==
    ASSUME misled \in [Pressers -> BOOLEAN], pending \in Nat,
           NEW p \in Pressers, Begin(p) \/ Runs(p)
    PROVE  misled' \in [Pressers -> BOOLEAN]
<1>1. ASSUME NEW b \in BOOLEAN, misled' = [misled EXCEPT ![p] = b]
      PROVE  misled' \in [Pressers -> BOOLEAN]
  BY <1>1
<1>2. CASE Begin(p)
  <2>1. misled' = [misled EXCEPT ![p] = pending > 0]
    BY <1>2, Zenon DEF Begin
  <2>2. (pending > 0) \in BOOLEAN
    OBVIOUS
  <2>3. QED
    BY <1>1, <2>1, <2>2, Zenon
<1>3. CASE Look(p) \/ Confirm(p)
  <2>1. misled' = [misled EXCEPT ![p] = misled[p] \/ Outdated(p)]
        /\ (misled[p] \/ Outdated(p)) \in BOOLEAN
    BY <1>3, Zenon DEF Look, Confirm
  <2>2. QED
    BY <1>1, <2>1
<1>4. CASE GiveUp(p)
  <2>1. misled' = [misled EXCEPT ![p] = misled[p] \/ pending > 0 \/ Outdated(p)]
        /\ (misled[p] \/ pending > 0 \/ Outdated(p)) \in BOOLEAN
    BY <1>4, Zenon DEF GiveUp
  <2>2. QED
    BY <1>1, <2>1
<1>5. CASE Delivered(p)
  BY <1>5, Zenon DEF Delivered
<1>6. CASE misled' = misled
  BY <1>6
<1>7. QED
  BY <1>2, <1>3, <1>4, <1>5, <1>6 DEF Runs, Press, PressRaises

(* What is known of p where its own step does not mislead it.              *)
LEMMA NotMisled ==
    ASSUME misled \in [Pressers -> BOOLEAN], NEW p \in Pressers, ~misled'[p], pending \in Nat
    PROVE  /\ Begin(p) => pending = 0
           /\ Delivered(p) => ~misled[p] /\ known[p] # "unknown" /\ pending = 0
           /\ Look(p) \/ Confirm(p) => ~misled[p] /\ ~Outdated(p)
           /\ GiveUp(p) => ~misled[p] /\ ~Outdated(p) /\ pending = 0
<1>1. DOMAIN misled = Pressers
  OBVIOUS
<1>2. Begin(p) => ~(pending > 0)
  BY <1>1, Zenon DEF Begin
<1>3. Delivered(p) => ~misled[p] /\ known[p] # "unknown" /\ ~(pending > 0)
  BY <1>1, Zenon DEF Delivered
<1>4. Look(p) => ~misled[p] /\ ~Outdated(p)
  BY <1>1, Zenon DEF Look
<1>5. Confirm(p) => ~misled[p] /\ ~Outdated(p)
  BY <1>1, Zenon DEF Confirm
<1>6. GiveUp(p) => ~misled[p] /\ ~Outdated(p) /\ ~(pending > 0)
  BY <1>1, Zenon DEF GiveUp
<1>7. pending = 0 \/ pending > 0
  OBVIOUS
<1>8. QED
  BY <1>2, <1>3, <1>4, <1>5, <1>6, <1>7

(* Every step keeps the types. *)
LEMMA ToggleTyped ==
    ASSUME AutoTradingAssumption
    PROVE  ToggleTypeOK /\ [ToggleNext]_toggleVars => ToggleTypeOK'
<1>1. SUFFICES ASSUME ToggleTypeOK, [ToggleNext]_toggleVars
               PROVE  ToggleTypeOK'
  OBVIOUS
<1>2. Wanted \subseteq {"on", "off"}
  BY DEF AutoTradingAssumption
<1>3. CASE Act
  BY <1>1, <1>3 DEF ToggleTypeOK, Act, Flip, mine
<1>4. CASE Lose
  BY <1>1, <1>4 DEF ToggleTypeOK, Lose, mine
<1>5. CASE FallSilent \/ AnswerAgain
  <2>1. UNCHANGED <<switch, pending, logged, mine, calls, lost>> /\ silences' \in Nat
    BY <1>1, <1>5 DEF ToggleTypeOK, FallSilent, AnswerAgain
  <2>2. answering' \in BOOLEAN
    BY <1>5, Zenon DEF FallSilent, AnswerAgain
  <2>3. QED
    BY <1>1, <2>1, <2>2 DEF ToggleTypeOK, mine
<1>6. ASSUME NEW p \in Pressers, Begin(p)
      PROVE  ToggleTypeOK'
  <2>1. PICK w \in {"on", "off"} : want' = [want EXCEPT ![p] = w]
    BY <1>2, <1>6 DEF Begin
  <2>2. misled' \in [Pressers -> BOOLEAN]
    BY <1>1, <1>6, MisledTyped DEF ToggleTypeOK
  <2>3. QED
    BY <1>1, <1>6, <2>1, <2>2 DEF ToggleTypeOK, Begin, gui
<1>7. ASSUME NEW p \in Pressers, Runs(p)
      PROVE  ToggleTypeOK'
  <2>1. Reading(p) \in {"on", "off", "unknown"}
    BY <1>1 DEF ToggleTypeOK, Reading, State
  <2>2. misled' \in [Pressers -> BOOLEAN]
    BY <1>1, <1>7, MisledTyped DEF ToggleTypeOK
  <2>3. CASE Look(p) \/ Confirm(p) \/ GiveUp(p)
    <3>1. /\ known' = [known EXCEPT ![p] = Reading(p)]
          /\ UNCHANGED <<gui, want, calls, lost, silences>>
      BY <2>3 DEF Look, Confirm, GiveUp
    <3>2. /\ at' \in [Pressers -> {"idle", "look", "press", "wait"}]
          /\ outcome' \in [Pressers -> {"none", "ok", "failed"}]
          /\ tries' \in [Pressers -> 0..Attempts-1]
      <4>1. CASE Retry(p) \/ \E result \in {"ok", "failed"} : Finish(p, result)
        BY <1>1, <4>1, RetryTyped
      <4>2. CASE at' = [at EXCEPT ![p] = "press"] /\ UNCHANGED <<tries, outcome>>
        BY <1>1, <4>2 DEF ToggleTypeOK
      <4>3. QED
        BY <2>3, <4>1, <4>2 DEF Look, Confirm, GiveUp
    <3>3. QED
      BY <1>1, <2>1, <2>2, <3>1, <3>2 DEF ToggleTypeOK, gui
  <2>4. CASE Press(p)
    BY <1>1, <2>2, <2>4 DEF ToggleTypeOK, Press, Delivered
  <2>5. CASE PressRaises(p)
    <3>1. /\ at' \in [Pressers -> {"idle", "look", "press", "wait"}]
          /\ outcome' \in [Pressers -> {"none", "ok", "failed"}]
          /\ tries' \in [Pressers -> 0..Attempts-1]
      BY <1>1, <2>5, RetryTyped DEF PressRaises
    <3>2. pending' \in Nat
      BY <1>1, <2>5 DEF ToggleTypeOK, PressRaises, Delivered
    <3>3. QED
      BY <1>1, <2>2, <2>5, <3>1, <3>2 DEF ToggleTypeOK, PressRaises
  <2>6. QED
    BY <1>7, <2>3, <2>4, <2>5 DEF Runs
<1>8. CASE UNCHANGED toggleVars
  BY <1>1, <1>8 DEF ToggleTypeOK, toggleVars, gui, mine
<1>9. QED
  BY <1>1, <1>3, <1>4, <1>5, <1>6, <1>7, <1>8 DEF ToggleNext

LEMMA ToggleStarts == ToggleInit => ToggleTypeOK
<1>1. SUFFICES ASSUME ToggleInit
               PROVE  ToggleTypeOK
  OBVIOUS
<1>2. answering \in BOOLEAN /\ misled \in [Pressers -> BOOLEAN]
  BY <1>1, Zenon DEF ToggleInit
<1>3. tries \in [Pressers -> 0..Attempts-1]
  BY <1>1 DEF ToggleInit, Attempts
<1>4. QED
  BY <1>1, <1>2, <1>3 DEF ToggleInit, ToggleTypeOK

(* Where p stands if nothing misled it: no press is queued but the one it  *)
(* waits for, and that one moves the switch where p wants it.              *)
Sure(p) ==
    /\ at[p] \in {"look", "press"} => pending = 0
    /\ at[p] = "press" => switch # want[p] \/ known[p] = "unknown"
    /\ at[p] = "wait" => pending <= 1 /\ (pending = 1 => switch # want[p])
    /\ at[p] = "idle" /\ outcome[p] = "ok" => pending = 0 /\ switch = want[p]

Aimed == \A p \in Pressers : ~misled[p] => Sure(p)

ToggleInv == ToggleTypeOK /\ Aimed

(* A step of another program, or of the terminal's answering, leaves p     *)
(* where it stood, or misleads it.                                         *)
LEMMA OthersStep ==
    ASSUME ToggleTypeOK, NEW p \in Pressers, NEW q \in Pressers \ {p}, Begin(q) \/ Runs(q),
           ~misled[p] => Sure(p)
    PROVE  ~misled'[p] => Sure(p)'
<1>1. SUFFICES ASSUME ~misled'[p]
               PROVE  Sure(p)'
  OBVIOUS
<1>2. ~Delivered(q)
  BY <1>1 DEF Delivered
<1>3. UNCHANGED <<switch, pending>> /\ misled'[p] = misled[p]
  BY <1>2 DEF Begin, Runs, Look, Press, PressRaises, Confirm, GiveUp, gui, ToggleTypeOK
<1>4. /\ at'[p] = at[p] /\ outcome'[p] = outcome[p]
      /\ want'[p] = want[p] /\ known'[p] = known[p]
  BY DEF ToggleTypeOK, Begin, Runs, Look, Press, PressRaises, Confirm, GiveUp, Retry, Finish
<1>5. QED
  BY <1>1, <1>3, <1>4 DEF Sure

LEMMA OwnStep ==
    ASSUME ToggleTypeOK, NEW p \in Pressers, Begin(p) \/ Runs(p), ~misled[p] => Sure(p)
    PROVE  ~misled'[p] => Sure(p)'
<1>1. SUFFICES ASSUME ~misled'[p]
               PROVE  Sure(p)'
  OBVIOUS
<1>2. /\ pending \in Nat /\ switch \in {"on", "off"} /\ want[p] \in {"on", "off"}
      /\ at \in [Pressers -> {"idle", "look", "press", "wait"}]
      /\ outcome \in [Pressers -> {"none", "ok", "failed"}]
      /\ known \in [Pressers -> {"on", "off", "unknown"}]
      /\ want \in [Pressers -> {"on", "off"}] /\ misled \in [Pressers -> BOOLEAN]
  BY DEF ToggleTypeOK
<1>3. CASE Begin(p)
  <2>1. pending = 0 /\ UNCHANGED gui
    BY <1>1, <1>2, <1>3, NotMisled DEF Begin
  <2>2. at'[p] = "look"
    BY <1>2, <1>3 DEF Begin
  <2>3. QED
    BY <2>1, <2>2 DEF Sure, gui
<1>4. CASE Look(p) \/ Confirm(p)
  <2>1. ~misled[p] /\ Reading(p) \in {"unknown", switch}
    BY <1>1, <1>2, <1>4, NotMisled DEF Outdated
  <2>2. /\ UNCHANGED <<switch, pending, want>> /\ known'[p] = Reading(p)
    BY <1>2, <1>4 DEF Look, Confirm, gui
  <2>3. CASE Shows(p) /\ Finish(p, "ok")
    <3>1. switch = want[p] /\ pending = 0
      BY <1>2, <1>4, <2>1, <2>3 DEF Shows, Sure, Look, Confirm
    <3>2. at'[p] = "idle"
      BY <1>2, <2>3 DEF Finish
    <3>3. QED
      BY <2>2, <3>1, <3>2 DEF Sure
  <2>4. CASE at[p] = "look" /\ Finish(p, "failed")
    BY <1>2, <2>4 DEF Finish, Sure
  <2>5. CASE at[p] = "look" /\ Reading(p) = "unknown" /\ Retry(p)
    <3>1. pending = 0
      BY <2>1, <2>5 DEF Sure
    <3>2. at'[p] \in {"look", "press"} \/ (at'[p] = "idle" /\ outcome'[p] = "failed")
      <4>1. CASE tries[p] + 1 < Attempts
        BY <1>2, <2>5, <4>1 DEF Retry
      <4>2. CASE ~(tries[p] + 1 < Attempts)
        <5>1. Finish(p, "failed")
          BY <2>5, <4>2, Zenon DEF Retry
        <5>2. QED
          BY <1>2, <5>1 DEF Finish
      <4>3. QED
        BY <4>1, <4>2
    <3>3. QED
      BY <2>2, <2>5, <3>1, <3>2 DEF Sure
  <2>6. CASE at[p] = "look" /\ ~Shows(p) /\ Reading(p) # "unknown"
             /\ at' = [at EXCEPT ![p] = "press"]
    <3>1. pending = 0 /\ switch # want[p] /\ at'[p] = "press"
      BY <1>2, <2>1, <2>6 DEF Sure, Shows
    <3>2. QED
      BY <2>2, <3>1 DEF Sure
  <2>7. QED
    BY <1>4, <2>3, <2>4, <2>5, <2>6 DEF Look, Confirm
<1>5. CASE Press(p)
  <2>1. ~misled[p] /\ known[p] # "unknown" /\ pending = 0 /\ pending' = 1
    BY <1>1, <1>2, <1>5, NotMisled DEF Press, Delivered
  <2>2. at'[p] = "wait" /\ switch # want[p] /\ UNCHANGED <<switch, want>>
    BY <1>2, <1>5, <2>1 DEF Press, Sure
  <2>3. QED
    BY <2>1, <2>2 DEF Sure
<1>6. CASE PressRaises(p)
  BY <1>2, <1>6 DEF PressRaises, Finish, Sure
<1>7. CASE GiveUp(p)
  <2>1. ~misled[p] /\ pending = 0 /\ Reading(p) \in {"unknown", switch}
    BY <1>1, <1>2, <1>7, NotMisled DEF Outdated
  <2>2. UNCHANGED <<switch, pending, want>> /\ known'[p] = Reading(p)
    BY <1>2, <1>7 DEF GiveUp, gui
  <2>3. switch # want[p] \/ known'[p] = "unknown"
    BY <1>7, <2>1, <2>2 DEF GiveUp, OutOfPatience, Shows
  <2>4. at'[p] \in {"look", "press"} \/ (at'[p] = "idle" /\ outcome'[p] = "failed")
    <3>1. CASE tries[p] + 1 < Attempts
      BY <1>2, <1>7, <3>1 DEF GiveUp, Retry
    <3>2. CASE ~(tries[p] + 1 < Attempts)
      <4>1. Finish(p, "failed")
        BY <1>7, <3>2, Zenon DEF GiveUp, Retry
      <4>2. QED
        BY <1>2, <4>1 DEF Finish
    <3>3. QED
      BY <3>1, <3>2
  <2>5. QED
    BY <2>1, <2>2, <2>3, <2>4 DEF Sure
<1>8. QED
  BY <1>3, <1>4, <1>5, <1>6, <1>7 DEF Runs

LEMMA AimedStep == ToggleInv /\ [ToggleNext]_toggleVars => Aimed'
<1>1. SUFFICES ASSUME ToggleInv, [ToggleNext]_toggleVars, NEW p \in Pressers
               PROVE  ~misled'[p] => Sure(p)'
  BY DEF Aimed
<1>2. ToggleTypeOK /\ (~misled[p] => Sure(p))
  BY <1>1 DEF ToggleInv, Aimed
<1>3. CASE Act
  BY <1>2, <1>3 DEF Act, mine, Sure, ToggleTypeOK
<1>4. CASE Lose
  BY <1>2, <1>4 DEF Lose, mine, Sure, ToggleTypeOK
<1>5. CASE FallSilent \/ AnswerAgain \/ UNCHANGED toggleVars
  BY <1>2, <1>5 DEF FallSilent, AnswerAgain, mine, gui, toggleVars, Sure
<1>6. ASSUME NEW q \in Pressers, Begin(q) \/ Runs(q)
      PROVE  ~misled'[p] => Sure(p)'
  BY <1>2, <1>6, OwnStep, OthersStep
<1>7. QED
  BY <1>1, <1>3, <1>4, <1>5, <1>6 DEF ToggleNext

LEMMA ToggleInvStarts == ToggleInit => ToggleInv
<1>1. ToggleInit => Aimed
  BY DEF ToggleInit, Aimed, Sure
<1>2. QED
  BY <1>1, ToggleStarts DEF ToggleInv

LEMMA ToggleInvStep ==
    ASSUME AutoTradingAssumption
    PROVE  ToggleInv /\ [ToggleNext]_toggleVars => ToggleInv'
  BY ToggleTyped, AimedStep DEF ToggleInv

(* The types of the toggle, and: what a call reported is where the switch  *)
(* stays, whatever the GUI loses and however late it acts, unless another  *)
(* program's press or a late one of its own met it (algo.apply,            *)
(* toggle_algo.main, auto_login.enable_algo_trading).                      *)
THEOREM SuccessAlwaysLasts == ToggleSpec => []ToggleSafe
<1>1. ToggleInv => ToggleSafe
  BY DEF ToggleInv, ToggleSafe, Aimed, Sure, SuccessLasts, Settled
<1>2. QED
  BY <1>1, AutoTradingAssumption, ToggleInvStarts, ToggleInvStep, PTL DEF ToggleSpec

(* Whatever is asked for, such a call presses a key only where it moves    *)
(* the switch towards it (algo.apply, toggle_algo.main).                   *)
THEOREM PressesAreAimed == ToggleSpec => PressesOnMismatch
<1>1. ToggleInv /\ [ToggleNext]_toggleVars
        => [\A p \in Pressers : Pressing(p) /\ ~misled'[p] => Settled # want[p]]_toggleVars
  <2>1. SUFFICES ASSUME ToggleInv, [ToggleNext]_toggleVars, NEW p \in Pressers,
                        Pressing(p), ~misled'[p]
                 PROVE  Settled # want[p]
    OBVIOUS
  <2>2. at[p] = "press" /\ at'[p] = "wait" /\ ToggleTypeOK
    BY <2>1 DEF Pressing, ToggleInv
  <2>3. Press(p)
    <3>1. ASSUME NEW q \in Pressers, Runs(q)
          PROVE  Press(p)
      <4>1. \E w : at' = [at EXCEPT ![q] = w]
        BY <3>1 DEF Runs, Look, Press, PressRaises, Confirm, GiveUp, Retry, Finish
      <4>2. q = p
        BY <2>2, <4>1 DEF ToggleTypeOK
      <4>3. QED
        BY <2>2, <3>1, <4>2 DEF ToggleTypeOK, Runs, Look, PressRaises, Confirm, GiveUp, Finish
    <3>2. ASSUME NEW q \in Pressers, Begin(q)
          PROVE  FALSE
      BY <2>2, <3>2 DEF Begin, ToggleTypeOK
    <3>3. QED
      BY <2>1, <2>2, <3>1, <3>2
         DEF ToggleNext, Act, Lose, FallSilent, AnswerAgain, mine, toggleVars
  <2>4. ~misled[p] /\ known[p] # "unknown" /\ pending = 0
    BY <2>1, <2>2, <2>3, NotMisled DEF Press, ToggleTypeOK
  <2>5. switch # want[p]
    BY <2>1, <2>2, <2>4 DEF ToggleInv, Aimed, Sure
  <2>6. QED
    BY <2>4, <2>5 DEF Settled
<1>2. QED
  BY <1>1, AutoTradingAssumption, ToggleInvStarts, ToggleInvStep, PTL
     DEF ToggleSpec, PressesOnMismatch
=============================================================================
