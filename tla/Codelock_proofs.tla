-------------------------- MODULE Codelock_proofs --------------------------
(***************************************************************************)
(* The code lock, for any keyboard and however often the process is held   *)
(* up: the lock opens only on its code, and while the process is not held  *)
(* up no key is overlooked.                                                *)
(***************************************************************************)
EXTENDS Codelock, TLAPS

(* The k first keys of the code, and e keys after them, end the sequence; *)
(* each came in time.                                                      *)
Found(s, k, e) ==
  /\ k + e <= Len(s)
  /\ \A j \in 1..k : s[Len(s) - e - k + j].key = code[j]
Timely(s, k, e) == \A j \in 2..k : s[Len(s) - e - k + j].gap < 10
Newest(s) == s[Len(s)]

Places == {"first", "next", "final", "late", "check", "opening"}
AnyKey == {"none", "1", "2", "3", "4"} \cup UNION {Keys[i] : i \in DOMAIN Keys}
Presses == [key : AnyKey, gap : {0, 5, 10}]

(* A timer that stops when it has expired. *)
TimerOK(timer) ==
  /\ timer \in [elapsed : Nat, interval : Nat] /\ timer.elapsed <= timer.interval

LEMMA TimerSet ==
  ASSUME NEW n \in Nat
  PROVE  /\ TimerOK(Set(n)) /\ Set(n).elapsed = 0 /\ Set(n).interval = n
         /\ Expired(Set(n)) <=> n = 0
BY DEF Set, TimerOK, Expired

LEMMA TimerTicks ==
  ASSUME NEW timer, TimerOK(timer)
  PROVE  /\ TimerOK(Later(timer)) /\ Later(timer).interval = timer.interval
         /\ Later(timer).elapsed = IF Expired(timer) THEN timer.elapsed ELSE timer.elapsed + 1
         /\ Expired(timer) => Expired(Later(timer))
BY DEF Later, TimerOK, Expired

LEMMA TimerExpired ==
  ASSUME NEW timer, TimerOK(timer)
  PROVE  /\ timer.elapsed \in Nat /\ timer.interval \in Nat /\ timer.elapsed <= timer.interval
         /\ Expired(timer) <=> timer.elapsed = timer.interval
BY DEF TimerOK, Expired

(* What the proof needs of the keys of input_thread.  Lines 267-349. *)
LEMMA ScriptIs ==
  /\ Len(Script) = 17
  /\ \A i \in 1..17 : Script[i].wait \in Nat /\ Script[i].wait >= 1 /\ Script[i].key \in AnyKey
  /\ \A i \in 1..17 : Script[i].key = "none" <=> i = 1
  /\ \A i \in 2..17 : Script[i].key = "4" => i >= 6
  /\ \A i \in 6..17 : Script[i].key = "3" =>
       Script[i - 1].key = "2" /\ Script[i - 2].key = "4" /\ Script[i - 3].key = "1"
  /\ Script[17].wait >= 10 /\ Script[17].key = "3"
<1> DEFINE all == << Press("none", 10), Press("1", 1), Press("2", 1), Press("3", 20),
                    Press("1", 2), Press("4", 2), Press("2", 20), Press("3", 2),
                    Press("1", 2), Press("4", 2), Press("2", 1), Press("3", 1),
                    Press("4", 15), Press("1", 3), Press("4", 4), Press("2", 5),
                    Press("3", 20) >>
<1>1. Script = all
  BY DEF Script
<1>2. Len(all) = 17
  OBVIOUS
<1>3. \A k \in STRING, w \in Nat : Press(k, w).key = k /\ Press(k, w).wait = w
  BY DEF Press
<1>4. /\ all[1].key = "none" /\ all[2].key = "1" /\ all[3].key = "2" /\ all[4].key = "3"
      /\ all[5].key = "1" /\ all[6].key = "4" /\ all[7].key = "2" /\ all[8].key = "3"
      /\ all[9].key = "1" /\ all[10].key = "4" /\ all[11].key = "2" /\ all[12].key = "3"
      /\ all[13].key = "4" /\ all[14].key = "1" /\ all[15].key = "4" /\ all[16].key = "2"
      /\ all[17].key = "3" /\ all[17].wait = 20
  BY DEF Press
<1>5. \A i \in 1..17 : all[i].wait \in Nat /\ all[i].wait >= 1
  <2> SUFFICES ASSUME NEW i \in 1..17 PROVE all[i].wait \in Nat /\ all[i].wait >= 1
    OBVIOUS
  <2> QED BY DEF Press
<1> HIDE DEF all
<1>6. \A i \in 1..17 : all[i].key \in AnyKey
  BY <1>4 DEF AnyKey
<1>7. \A i \in 1..17 : all[i].key = "none" <=> i = 1
  BY <1>4
<1>8. \A i \in 2..17 : all[i].key = "4" => i >= 6
  BY <1>4
<1>9. \A i \in 6..17 : all[i].key = "3" =>
        all[i - 1].key = "2" /\ all[i - 2].key = "4" /\ all[i - 3].key = "1"
  <2> SUFFICES ASSUME NEW i \in 6..17, all[i].key = "3"
               PROVE  all[i - 1].key = "2" /\ all[i - 2].key = "4" /\ all[i - 3].key = "1"
    OBVIOUS
  <2>1. i = 8 \/ i = 12 \/ i = 17
    BY <1>4
  <2> QED BY <1>4, <2>1
<1> QED BY <1>1, <1>2, <1>4, <1>5, <1>6, <1>7, <1>8, <1>9

LEMMA Held == MaxLate \in Nat
BY LockAssumption DEF MaxLate

(* A key more: what is kept moves back by one. *)
LEMMA Pressing ==
  ASSUME NEW s \in Seq(Presses), NEW x \in Presses, Len(s) <= 5 + MaxLate
  PROVE  LET t == LastKeys(Append(s, x))
         IN  /\ t \in Seq(Presses) /\ Len(t) <= 5 + MaxLate /\ Len(t) > 0
             /\ Newest(t) = x
             /\ Len(t) = Len(s) + 1 \/ Len(t) = 5 + MaxLate
             /\ \A j \in 0..Len(t) - 2 :
                  Len(s) - j \in 1..Len(s) /\ t[Len(t) - 1 - j] = s[Len(s) - j]
<1> DEFINE a == Append(s, x)
           n == Len(s)
<1>1. /\ a \in Seq(Presses) /\ Len(a) = n + 1 /\ n \in Nat /\ a[n + 1] = x
      /\ \A i \in 1..n : a[i] = s[i]
  OBVIOUS
<1> HIDE DEF a
<1>2. CASE Len(a) > 5 + MaxLate
  <2>1. /\ Tail(a) \in Seq(Presses) /\ Len(Tail(a)) = n
        /\ \A i \in 1..n : Tail(a)[i] = a[i + 1]
    BY <1>1
  <2>2. n = 5 + MaxLate
    BY <1>1, <1>2, Held
  <2> DEFINE t == Tail(a)
  <2> HIDE DEF t
  <2>3. t[n] = x
    BY <1>1, <2>1, <2>2, Held DEF t
  <2>4. \A j \in 0..n - 2 : n - j \in 1..n /\ t[n - 1 - j] = s[n - j]
    BY <1>1, <2>1, <2>2, Held DEF t
  <2>5. LastKeys(a) = t
    BY <1>2 DEF LastKeys, t
  <2>6. t \in Seq(Presses) /\ Len(t) = n /\ n > 0
    BY <2>1, <2>2, Held DEF t
  <2> QED BY <2>2, <2>3, <2>4, <2>5, <2>6, Held DEF Newest, a
<1>3. CASE ~(Len(a) > 5 + MaxLate)
  <2>1. LastKeys(a) = a
    BY <1>3 DEF LastKeys
  <2>2. \A j \in 0..n - 1 : n - j \in 1..n /\ a[n - j] = s[n - j]
    BY <1>1
  <2> QED BY <1>1, <1>3, <2>1, <2>2, Held DEF Newest, a
<1> QED BY <1>2, <1>3

-----------------------------------------------------------------------------
(* What a call of one thread leaves to the other: the key is looked at in   *)
(* the call of codelock_thread after its press, whose other steps no key    *)
(* meets.                                                                   *)
CallInv ==
  /\ turn \in {"codelock", "input", "returned"} /\ codelock_at \in Places
  /\ key_pressed_flag \in {0, 1} /\ polled \subseteq {"codelock", "input"}
  /\ late \in 0..MaxLate /\ scripted \in BOOLEAN /\ quiet \in 0..10
  /\ input_at \in Nat
  /\ scripted => input_at \in 0..Len(Script)
  /\ turn = "input" => codelock_at \in {"first", "next", "final"}
  /\ codelock_at \in {"late", "check", "opening"} => key_pressed_flag = 0 /\ polled = {}
  /\ key_pressed_flag # 0 => "codelock" \notin polled

TimersInv ==
  /\ TimerOK(codelock_timer) /\ TimerOK(input_timer)
  /\ codelock_at \in {"next", "late"} => codelock_timer.interval = 10
  /\ codelock_at \in {"final", "opening"} => codelock_timer.interval = 5
  /\ scripted /\ input_at > 0 => input_timer.interval = Script[input_at].wait

(* A key that input_thread has pressed in the call that goes on. *)
UnseenInv ==
  (turn = "input" /\ key_pressed_flag # 0) =>
     /\ scripted /\ polled = {} /\ input_at >= 2
     /\ late = 0 => input_timer.elapsed = 0

(* The counter agrees with the place. *)
CounterInv ==
  /\ keys \in 0..4
  /\ codelock_at = "first" => keys = 0 \/ turn = "returned"
  /\ codelock_at \in {"next", "late"} => keys \in 1..3
  /\ codelock_at = "check" => keys \in 0..3
  /\ codelock_at \in {"final", "opening"} => keys = 4

KeyInv ==
  /\ pressed \in Seq(Presses) /\ Len(pressed) <= 5 + MaxLate
  /\ pressed # <<>> => key = Newest(pressed).key
  /\ (key_pressed_flag # 0 \/ codelock_at # "first") => pressed # <<>>
  /\ codelock_at = "next" /\ key_pressed_flag = 0 => key = code[keys]

LEMMA CallStep == CallInv /\ [Next]_vars => CallInv'
<1> SUFFICES ASSUME CallInv, [Next]_vars PROVE CallInv'
  OBVIOUS
<1> USE DEF CallInv, Places
<1>1. CASE codelock_thread
  <2>1. UNCHANGED <<input_at, late, scripted, quiet>> /\ MaxLate' = MaxLate
    BY <1>1 DEF codelock_thread, inputVars, MaxLate
  <2>2. CASE WaitFirst \/ WaitTimed("next", "late") \/ WaitTimed("final", "opening")
    BY <1>1, <2>1, <2>2 DEF codelock_thread, WaitFirst, WaitTimed, GoesOn, Waits,
       PT_SCHEDULE, PT_WAITING, PT_EXITED
  <2>3. CASE TooLate \/ CheckKey \/ Opening
    BY <1>1, <2>1, <2>3 DEF codelock_thread, TooLate, CheckKey, Opening, Break, GoesOn, Exits,
       PT_SCHEDULE, PT_EXITED
  <2> QED BY <1>1, <2>2, <2>3 DEF codelock_thread
<1>2. ASSUME NEW k, press_key(k) PROVE key_pressed_flag' = 1 /\ quiet' = 0
  BY <1>2 DEF press_key
<1>3. CASE input_thread
  <2>1. /\ UNCHANGED <<codelock_at, late, scripted>> /\ turn = "input" /\ scripted
        /\ MaxLate' = MaxLate
    BY <1>3 DEF input_thread, codelockVars, MaxLate
  <2>2. CASE InputGoesOn
    BY <1>2, <2>1, <2>2, ScriptIs DEF InputGoesOn, NoKey
  <2>3. CASE InputWaits \/ InputEnds
    <3>1. /\ turn' = "codelock" /\ UNCHANGED <<key_pressed_flag, quiet>>
          /\ input_at' \in 0..Len(Script)
          /\ polled' = polled \cup {"input"} \/ polled' = {}
      BY <2>1, <2>3, ScriptIs DEF InputWaits, InputEnds, NoKey
    <3>2. /\ polled' \subseteq {"codelock", "input"}
          /\ key_pressed_flag' # 0 => "codelock" \notin polled'
      BY <3>1
    <3>3. input_at' \in Nat
      BY <3>1, ScriptIs
    <3> QED BY <2>1, <3>1, <3>2, <3>3
  <2> QED BY <1>3, <2>2, <2>3 DEF input_thread
<1>4. CASE Keyboard
  <2>1. /\ UNCHANGED <<codelock_at, late, scripted>> /\ turn = "input" /\ ~scripted
        /\ turn' = "codelock" /\ MaxLate' = MaxLate
    BY <1>4 DEF Keyboard, codelockVars, MaxLate
  <2>2. /\ input_at' \in Nat /\ polled' \subseteq {"codelock", "input"}
        /\ key_pressed_flag' \in {0, 1} /\ quiet' \in 0..10
        /\ key_pressed_flag' # 0 => "codelock" \notin polled'
    <3>1. CASE \E k \in Keys[input_at + 1] :
                 press_key(k) /\ input_at' = input_at + 1 /\ polled' = {}
      BY <1>2, <3>1
    <3>2. CASE NoKey /\ UNCHANGED input_at /\ polled' = polled \cup {"input"}
      BY <3>2 DEF NoKey
    <3> QED BY <1>4, <3>1, <3>2 DEF Keyboard
  <2> QED BY <2>1, <2>2
<1>5. CASE Tick
  <2>1. MaxLate' = MaxLate
    BY <1>5 DEF Tick, MaxLate
  <2> QED BY <1>5, <2>1, Held DEF Tick
<1>6. CASE UNCHANGED vars
  BY <1>6 DEF vars, threads, MaxLate
<1> QED BY <1>1, <1>3, <1>4, <1>5, <1>6 DEF Next, Program

(* What a call of codelock_thread leaves alone, and what one of the other. *)
LEMMA CodelockOnly ==
  ASSUME codelock_thread
  PROVE  /\ turn = "codelock"
         /\ UNCHANGED <<input_at, input_timer, key, late, scripted, pressed, quiet>>
         /\ MaxLate' = MaxLate
BY DEF codelock_thread, inputVars, MaxLate

LEMMA InputOnly ==
  ASSUME input_thread \/ Keyboard
  PROVE  /\ turn = "input"
         /\ UNCHANGED <<codelock_at, keys, codelock_timer, late, scripted>> /\ MaxLate' = MaxLate
BY DEF input_thread, Keyboard, codelockVars, MaxLate

LEMMA TickOnly ==
  ASSUME Tick
  PROVE  /\ UNCHANGED <<turn, codelock_at, keys, input_at, key, key_pressed_flag, scripted,
                        pressed>>
         /\ MaxLate' = MaxLate
BY DEF Tick, MaxLate

LEMMA TimersStep == CallInv /\ TimersInv /\ [Next]_vars => TimersInv'
<1> SUFFICES ASSUME CallInv, TimersInv, [Next]_vars PROVE TimersInv'
  OBVIOUS
<1>1. CASE codelock_thread
  <2>1. TimerOK(codelock_timer') /\ UNCHANGED <<input_at, scripted, input_timer>>
    BY <1>1, CodelockOnly, TimerSet DEF codelock_thread, WaitFirst, WaitTimed, TooLate, CheckKey,
       Opening, Break, TimersInv
  <2>2. /\ codelock_at' \in {"next", "late"} => (codelock_timer').interval = 10
        /\ codelock_at' \in {"final", "opening"} => (codelock_timer').interval = 5
    <3>1. CASE WaitFirst \/ WaitTimed("next", "late") \/ WaitTimed("final", "opening")
      BY <3>1 DEF WaitFirst, WaitTimed, GoesOn, Waits, TimersInv
    <3>2. CASE TooLate \/ Opening
      BY <3>2 DEF TooLate, Opening, Break, GoesOn, Exits, TimersInv
    <3>3. CASE CheckKey
      BY <3>3, TimerSet DEF CheckKey, Break, GoesOn
    <3> QED BY <1>1, <3>1, <3>2, <3>3 DEF codelock_thread
  <2> QED BY <2>1, <2>2 DEF TimersInv
<1>2. CASE input_thread \/ Keyboard
  <2>1. UNCHANGED <<codelock_at, codelock_timer, scripted>>
    BY <1>2, InputOnly
  <2>2. CASE input_thread /\ InputGoesOn
    <3>1. input_at + 1 \in 1..17 /\ input_at' = input_at + 1
      BY <2>2, ScriptIs DEF InputGoesOn, input_thread, CallInv
    <3>2. input_timer' = Set(Script[input_at + 1].wait) /\ Script[input_at + 1].wait \in Nat
      BY <2>2, <3>1, ScriptIs DEF InputGoesOn
    <3>3. TimerOK(input_timer') /\ (input_timer').interval = Script[input_at'].wait
      BY <3>1, <3>2, TimerSet
    <3> QED BY <2>1, <3>3 DEF TimersInv
  <2>3. CASE input_thread /\ (InputWaits \/ InputEnds)
    BY <2>1, <2>3 DEF InputWaits, InputEnds, TimersInv
  <2>4. CASE Keyboard
    <3>1. ~scripted /\ UNCHANGED input_timer
      BY <2>4 DEF Keyboard
    <3> QED BY <2>1, <3>1 DEF TimersInv
  <2> QED BY <1>2, <2>2, <2>3, <2>4 DEF input_thread
<1>3. CASE Tick
  <2>1. UNCHANGED <<codelock_at, input_at, scripted>>
    BY <1>3, TickOnly
  <2>2. codelock_timer' = Later(codelock_timer) /\ input_timer' = Later(input_timer)
    BY <1>3 DEF Tick
  <2> QED BY <2>1, <2>2, TimerTicks DEF TimersInv
<1>4. CASE UNCHANGED vars
  BY <1>4 DEF vars, threads, TimersInv
<1> QED BY <1>1, <1>2, <1>3, <1>4 DEF Next, Program

LEMMA UnseenStep ==
  ASSUME CallInv, TimersInv, UnseenInv, [Next]_vars PROVE UnseenInv'
<1>1. CASE codelock_thread
  <2>1. (turn' = "input") => key_pressed_flag' = 0
    BY <1>1 DEF codelock_thread, WaitFirst, WaitTimed, TooLate, CheckKey, Opening, Break, GoesOn,
       Waits, Exits, PT_SCHEDULE, PT_EXITED
  <2> QED BY <2>1 DEF UnseenInv
<1>2. CASE input_thread /\ InputGoesOn
  <2>1. /\ input_at \in 0..16 /\ input_at' = input_at + 1 /\ polled' = {} /\ scripted'
        /\ turn = "input"
    BY <1>2, ScriptIs DEF InputGoesOn, input_thread, codelockVars, CallInv
  <2>2. input_timer' = Set(Script[input_at + 1].wait) /\ Script[input_at + 1].wait \in Nat
    BY <1>2, <2>1, ScriptIs DEF InputGoesOn
  <2>3. (input_timer').elapsed = 0
    BY <2>2, TimerSet
  <2>4. key_pressed_flag' # 0 => input_at' >= 2
    <3>1. CASE input_at = 0
      <4>1. Script[input_at'].key = "none" /\ UNCHANGED key_pressed_flag
        BY <1>2, <2>1, <3>1, ScriptIs DEF InputGoesOn, NoKey
      <4> QED BY <2>1, <3>1, <4>1 DEF UnseenInv
    <3> QED BY <2>1, <3>1
  <2> QED BY <2>1, <2>3, <2>4 DEF UnseenInv
<1>3. CASE Keyboard \/ (input_thread /\ (InputWaits \/ InputEnds))
  BY <1>3 DEF Keyboard, InputWaits, InputEnds, UnseenInv
<1>4. CASE Tick
  <2>1. UNCHANGED <<turn, input_at, key_pressed_flag, scripted>>
    BY <1>4, TickOnly
  <2> SUFFICES ASSUME turn = "input", key_pressed_flag # 0 PROVE polled' = {} /\ late' # 0
    BY <2>1 DEF UnseenInv
  <2>2. polled' = {} /\ late' = late + 1 /\ late \in Nat
    BY <1>4, Held DEF Tick, UnseenInv, CallInv
  <2> QED BY <2>2
<1>5. CASE UNCHANGED vars
  BY <1>5 DEF vars, threads, UnseenInv
<1> QED BY <1>1, <1>2, <1>3, <1>4, <1>5 DEF Next, Program, input_thread

LEMMA CounterStep ==
  ASSUME CallInv, CounterInv, [Next]_vars PROVE CounterInv'
<1>1. CASE codelock_thread
  <2> USE DEF CounterInv
  <2>1. CASE WaitFirst \/ WaitTimed("next", "late") \/ WaitTimed("final", "opening")
    BY <1>1, <2>1 DEF codelock_thread, WaitFirst, WaitTimed, GoesOn, Waits
  <2>2. CASE TooLate
    BY <1>1, <2>2 DEF codelock_thread, TooLate, Break, GoesOn
  <2>3. CASE Opening
    BY <1>1, <2>3 DEF Opening, Break, GoesOn, Exits, PT_SCHEDULE, PT_EXITED
  <2>4. CASE CheckKey
    BY <1>1, <2>4 DEF CheckKey, Break, GoesOn, code
  <2> QED BY <1>1, <2>1, <2>2, <2>3, <2>4 DEF codelock_thread
<1>2. CASE input_thread \/ Keyboard \/ Tick
  <2>1. UNCHANGED <<codelock_at, keys>> /\ (turn = "returned" => turn' = "returned")
    BY <1>2, InputOnly, TickOnly
  <2> QED BY <2>1 DEF CounterInv
<1>3. CASE UNCHANGED vars
  BY <1>3 DEF vars, threads, CounterInv
<1> QED BY <1>1, <1>2, <1>3 DEF Next, Program

(* No key is pressed while one waits to be looked at, unless the process is *)
(* held up.                                                                 *)
LEMMA PressOnSeen ==
  ASSUME CallInv, TimersInv, UnseenInv, [Next]_vars, pressed' # pressed, late = 0
  PROVE  key_pressed_flag = 0
<1> SUFFICES ASSUME key_pressed_flag # 0 PROVE FALSE
  OBVIOUS
<1>1. ~codelock_thread /\ ~Tick
  BY CodelockOnly, TickOnly
<1>2. turn = "input" /\ ~Keyboard
  BY <1>1, InputOnly DEF Next, Program, vars, Keyboard, UnseenInv
<1>3. input_thread /\ InputGoesOn
  BY <1>1, <1>2 DEF Next, Program, vars, input_thread, InputWaits, InputEnds, NoKey
<1>4. /\ input_at \in 1..17 /\ input_timer.elapsed = 0
      /\ input_timer.interval = Script[input_at].wait
  BY <1>2, <1>3, ScriptIs DEF UnseenInv, TimersInv, CallInv
<1>5. ~Expired(input_timer)
  BY <1>4, ScriptIs, TimerExpired DEF TimersInv
<1> QED BY <1>3, <1>4, <1>5 DEF InputGoesOn

ControlInv == CallInv /\ TimersInv /\ UnseenInv /\ CounterInv

LEMMA ControlInit == Init => ControlInv
<1> SUFFICES ASSUME Init PROVE ControlInv
  OBVIOUS
<1>1. CallInv
  BY Held, ScriptIs DEF Init, CallInv, Places
<1>2. TimersInv
  BY TimerSet DEF Init, TimersInv
<1> QED BY <1>1, <1>2 DEF Init, UnseenInv, CounterInv, ControlInv

LEMMA ControlStep == ControlInv /\ [Next]_vars => ControlInv'
BY CallStep, TimersStep, UnseenStep, CounterStep DEF ControlInv

(* The counter and the place agree in every state: the counter is static    *)
(* because a protothread does not keep its stack.  Lines 137-141.           *)
THEOREM TypeCorrect == Spec => []TypeOK
<1>1. ControlInv => TypeOK
  BY DEF ControlInv, CallInv, CounterInv, TypeOK, Places, code
<1> QED BY <1>1, ControlInit, ControlStep, PTL DEF Spec

(* The variable that the threads share is read before it is written again,  *)
(* whatever is typed and when.  Lines 100-118.                              *)
THEOREM KeysAreSeen == Spec => EveryKeyIsSeen
<1>1. ControlInv /\ [Next]_vars =>
        [(late = 0 /\ key_pressed_flag' = 1) => key_pressed_flag = 0]_pressed
  BY PressOnSeen DEF ControlInv
<1> QED BY <1>1, ControlInit, ControlStep, PTL DEF Spec, EveryKeyIsSeen

-----------------------------------------------------------------------------
(* t is s with one press more, of which the oldest may be forgotten. *)
OneMore(s, t, x) ==
  /\ Len(t) = Len(s) + 1 \/ Len(t) = 5 + MaxLate
  /\ Newest(t) = x
  /\ \A j \in 0..Len(t) - 2 : t[Len(t) - 1 - j] = s[Len(s) - j]

LEMMA FoundBefore ==
  ASSUME NEW s \in Seq(Presses), NEW t \in Seq(Presses), NEW x, OneMore(s, t, x),
         NEW k \in 0..4, NEW e \in 0..MaxLate, Found(s, k, e)
  PROVE  Found(t, k, e + 1) /\ (Timely(s, k, e) => Timely(t, k, e + 1))
<1> DEFINE n == Len(s)
           m == Len(t)
<1>1. n \in Nat /\ m \in Nat /\ k + e <= n /\ (m = n + 1 \/ m = 5 + MaxLate)
  BY DEF OneMore, Found
<1>2. k + (e + 1) <= m
  BY <1>1, Held
<1>3. ASSUME NEW j \in 1..k PROVE t[m - (e + 1) - k + j] = s[n - e - k + j]
  <2> DEFINE d == e + k - j
  <2>1. /\ d \in 0..m - 2 /\ m - 1 - d = m - (e + 1) - k + j
        /\ n - d = n - e - k + j
    BY <1>1, <1>2, Held
  <2> HIDE DEF d
  <2>2. t[m - 1 - d] = s[n - d]
    BY <2>1 DEF OneMore
  <2> QED BY <2>1, <2>2
<1> HIDE DEF n, m
<1>4. Found(t, k, e + 1)
  BY <1>2, <1>3 DEF Found, n, m
<1>5. ASSUME Timely(s, k, e) PROVE Timely(t, k, e + 1)
  <2> SUFFICES ASSUME NEW j \in 2..k PROVE t[m - (e + 1) - k + j].gap < 10
    BY DEF Timely, m
  <2>1. s[n - e - k + j].gap < 10
    BY <1>5 DEF Timely, n
  <2>2. j \in 1..k
    OBVIOUS
  <2> QED BY <1>3, <2>1, <2>2
<1> QED BY <1>4, <1>5

LEMMA FoundNow ==
  ASSUME NEW s \in Seq(Presses), NEW k \in 0..3, Found(s, k, 1), Newest(s).key = code[k + 1]
  PROVE  /\ Found(s, k + 1, 0)
         /\ Timely(s, k, 1) /\ (k > 0 => Newest(s).gap < 10) => Timely(s, k + 1, 0)
<1> DEFINE n == Len(s)
<1>1. n \in Nat /\ k + 1 <= n
  BY DEF Found
<1>2. \A j \in 1..k + 1 : /\ n - 0 - (k + 1) + j = n - 1 - k + j
                          /\ (j = k + 1 => n - 1 - k + j = n)
                          /\ (j # k + 1 => j \in 1..k)
  BY <1>1
<1>3. Found(s, k + 1, 0)
  BY <1>1, <1>2 DEF Found, Newest
<1>4. ASSUME Timely(s, k, 1), k > 0 => Newest(s).gap < 10 PROVE Timely(s, k + 1, 0)
  <2> SUFFICES ASSUME NEW j \in 2..k + 1 PROVE s[n - 0 - (k + 1) + j].gap < 10
    BY DEF Timely
  <2>1. CASE j = k + 1
    BY <1>2, <1>4, <2>1 DEF Newest
  <2>2. CASE j # k + 1
    <3>1. j \in 2..k /\ j \in 1..k + 1
      BY <2>2
    <3>2. s[n - 1 - k + j].gap < 10
      BY <1>4, <3>1 DEF Timely
    <3> QED BY <1>2, <3>1, <3>2
  <2> QED BY <2>1, <2>2
<1> QED BY <1>3, <1>4

Gap == 5 * (quiet \div 5)

(* What a press does to the keys that are remembered. *)
LEMMA KeyPressed ==
  ASSUME KeyInv, quiet \in 0..10, NEW k \in AnyKey, press_key(k)
  PROVE  /\ key' = k /\ key_pressed_flag' = 1 /\ quiet' = 0
         /\ pressed' \in Seq(Presses) /\ Len(pressed') <= 5 + MaxLate /\ pressed' # <<>>
         /\ OneMore(pressed, pressed', [key |-> k, gap |-> Gap])
<1> DEFINE x == [key |-> k, gap |-> Gap]
<1>1. Gap \in {0, 5, 10}
  BY DEF Gap
<1>2. x \in Presses
  BY <1>1 DEF Presses
<1>3. key' = k /\ key_pressed_flag' = 1 /\ quiet' = 0 /\ pressed' = LastKeys(Append(pressed, x))
  BY DEF press_key, Gap
<1> HIDE DEF x
<1>4. /\ pressed' \in Seq(Presses) /\ Len(pressed') <= 5 + MaxLate /\ Len(pressed') > 0
      /\ OneMore(pressed, pressed', x)
  BY <1>2, <1>3, Pressing DEF KeyInv, OneMore
<1> QED BY <1>3, <1>4 DEF x

(* The keys that are pressed, by whom and when. *)
LEMMA Presser ==
  ASSUME ControlInv, input_thread \/ Keyboard
  PROVE  \/ UNCHANGED <<key, key_pressed_flag, pressed, quiet>>
         \/ \E k \in AnyKey : press_key(k)
<1>1. CASE Keyboard
  <2>1. CASE NoKey
    BY <2>1 DEF NoKey
  <2>2. CASE ~NoKey
    <3>1. PICK k \in Keys[input_at + 1] : press_key(k) /\ input_at < Len(Keys)
      BY <1>1, <2>2 DEF Keyboard
    <3>2. input_at + 1 \in DOMAIN Keys
      BY <3>1, LockAssumption DEF ControlInv, CallInv
    <3>3. k \in AnyKey
      BY <3>1, <3>2 DEF AnyKey
    <3> QED BY <3>1, <3>3
  <2> QED BY <2>1, <2>2
<1>2. CASE input_thread /\ InputGoesOn
  <2>1. input_at + 1 \in 1..17 /\ input_at' = input_at + 1
    BY <1>2, ScriptIs DEF InputGoesOn, input_thread, ControlInv, CallInv
  <2>2. Script[input_at'].key \in AnyKey
    BY <2>1, ScriptIs
  <2> QED BY <1>2, <2>2 DEF InputGoesOn, NoKey
<1>3. CASE input_thread /\ (InputWaits \/ InputEnds)
  BY <1>3 DEF InputWaits, InputEnds, NoKey
<1> QED BY <1>1, <1>2, <1>3 DEF input_thread

LEMMA KeyStep ==
  ASSUME ControlInv, KeyInv, [Next]_vars PROVE KeyInv'
<1>1. CASE codelock_thread
  <2>1. UNCHANGED <<key, pressed>> /\ MaxLate' = MaxLate
    BY <1>1, CodelockOnly
  <2>2. (key_pressed_flag' # 0 \/ codelock_at' # "first") =>
           key_pressed_flag # 0 \/ codelock_at # "first"
    BY <1>1 DEF codelock_thread, WaitFirst, WaitTimed, TooLate, CheckKey, Opening, Break, GoesOn,
       Waits, Exits
  <2>3. codelock_at' = "next" /\ key_pressed_flag' = 0 => key = code[keys']
    <3>1. CASE WaitFirst \/ WaitTimed("next", "late") \/ WaitTimed("final", "opening")
      BY <3>1 DEF WaitFirst, WaitTimed, GoesOn, Waits, KeyInv
    <3>2. CASE TooLate \/ CheckKey \/ Opening
      BY <3>2 DEF TooLate, CheckKey, Opening, Break, GoesOn, Exits
    <3> QED BY <1>1, <3>1, <3>2 DEF codelock_thread
  <2> QED BY <2>1, <2>2, <2>3 DEF KeyInv
<1>2. CASE input_thread \/ Keyboard
  <2>1. UNCHANGED <<codelock_at, keys>> /\ MaxLate' = MaxLate /\ codelock_at # "check"
    BY <1>2, InputOnly DEF ControlInv, CallInv
  <2>2. ASSUME NEW k \in AnyKey, press_key(k) PROVE KeyInv'
    BY <2>1, <2>2, KeyPressed DEF KeyInv, ControlInv, CallInv, OneMore
  <2>3. CASE UNCHANGED <<key, key_pressed_flag, pressed, quiet>>
    BY <2>1, <2>3 DEF KeyInv
  <2> QED BY <1>2, <2>2, <2>3, Presser
<1>3. CASE Tick \/ UNCHANGED vars
  <2>1. UNCHANGED <<codelock_at, keys, key, key_pressed_flag, pressed>> /\ MaxLate' = MaxLate
    BY <1>3, TickOnly DEF vars, threads, MaxLate
  <2> QED BY <2>1 DEF KeyInv
<1> QED BY <1>1, <1>2, <1>3 DEF Next, Program

-----------------------------------------------------------------------------
(* input_thread: the last keys pressed are those above the line it has come *)
(* to, as far as they are remembered; at its beginning, what an earlier run *)
(* of it has left.                                                          *)
TypedInv ==
  scripted =>
    /\ \A j \in 0..3 : input_at - j >= 2 =>
         j < Len(pressed) /\ pressed[Len(pressed) - j].key = Script[input_at - j].key
    /\ input_at < 2 => key \in {"none", "3"}

(* Two keys found are more than the first three lines hold: a run of        *)
(* input_thread does not complete what an earlier one has begun, because    *)
(* the second that is left for a key is over when it ends.                  *)
Running == codelock_at \in {"next", "late"} /\ ~Expired(codelock_timer)
FoundInv ==
  scripted =>
    /\ (codelock_at = "next" /\ key_pressed_flag # 0) =>
         Expired(codelock_timer) \/ input_timer.elapsed <= codelock_timer.elapsed
    /\ (keys \in {2, 3} /\ (codelock_at = "check" \/ Running)) => input_at >= 6

LEMMA TypedOn ==
  ASSUME NEW s \in Seq(Presses), NEW t \in Seq(Presses), NEW x, OneMore(s, t, x),
         NEW i \in 1..16, x.key = Script[i + 1].key,
         \A j \in 0..3 : i - j >= 2 => j < Len(s) /\ s[Len(s) - j].key = Script[i - j].key
  PROVE  \A j \in 0..3 : (i + 1) - j >= 2 =>
            j < Len(t) /\ t[Len(t) - j].key = Script[(i + 1) - j].key
<1> SUFFICES ASSUME NEW j \in 0..3, (i + 1) - j >= 2
             PROVE  j < Len(t) /\ t[Len(t) - j].key = Script[(i + 1) - j].key
  OBVIOUS
<1> DEFINE n == Len(s)
           m == Len(t)
<1>1. n \in Nat /\ m \in Nat /\ (m = n + 1 \/ m = 5 + MaxLate) /\ MaxLate \in Nat
  BY Held DEF OneMore
<1>2. CASE j = 0
  <2>1. t[m] = x /\ m > 0 /\ m - 0 = m
    BY <1>1 DEF OneMore, Newest
  <2> QED BY <1>2, <2>1
<1>3. CASE j # 0
  <2> DEFINE d == j - 1
  <2>1. d \in 0..2 /\ i - d >= 2 /\ (i + 1) - j = i - d /\ m - j = m - 1 - d
    BY <1>1, <1>3
  <2> HIDE DEF d
  <2>2. d < n /\ s[n - d].key = Script[i - d].key
    BY <2>1
  <2>3. d \in 0..m - 2 /\ j < m
    <3>1. j = d + 1 /\ j <= 3
      BY DEF d
    <3>2. CASE m = n + 1
      BY <1>1, <2>1, <2>2, <3>1, <3>2
    <3>3. CASE m = 5 + MaxLate
      BY <1>1, <2>1, <3>1, <3>3
    <3> QED BY <1>1, <3>2, <3>3
  <2>4. t[m - 1 - d] = s[n - d]
    BY <2>3 DEF OneMore
  <2> QED BY <2>1, <2>2, <2>3, <2>4
<1> QED BY <1>2, <1>3

LEMMA TypedStep ==
  ASSUME ControlInv, KeyInv, TypedInv, [Next]_vars PROVE TypedInv'
<1>1. CASE UNCHANGED <<scripted, input_at, key, pressed>>
  BY <1>1 DEF TypedInv
<1>2. CASE input_thread /\ InputGoesOn
  <2>1. scripted /\ input_at \in 0..16 /\ input_at' = input_at + 1 /\ quiet \in 0..10
    BY <1>2, ScriptIs DEF InputGoesOn, input_thread, ControlInv, CallInv
  <2>2. CASE input_at = 0
    <3>1. UNCHANGED key /\ input_at' = 1
      BY <1>2, <2>1, <2>2, ScriptIs DEF InputGoesOn, NoKey
    <3> QED BY <2>1, <2>2, <3>1 DEF TypedInv
  <2>3. CASE input_at # 0
    <3> DEFINE k == Script[input_at + 1].key
               x == [key |-> k, gap |-> Gap]
    <3>1. input_at \in 1..16 /\ input_at + 1 \in 1..17 /\ input_at + 1 # 1
      BY <2>1, <2>3
    <3>2. k # "none" /\ k \in AnyKey
      BY <3>1, ScriptIs
    <3>3. press_key(k)
      BY <1>2, <2>1, <3>2 DEF InputGoesOn
    <3> HIDE DEF k
    <3>4. OneMore(pressed, pressed', x) /\ pressed' \in Seq(Presses) /\ x.key = k
      BY <2>1, <3>2, <3>3, KeyPressed
    <3> HIDE DEF x
    <3>5. \A j \in 0..3 : (input_at + 1) - j >= 2 =>
            j < Len(pressed') /\ pressed'[Len(pressed') - j].key = Script[(input_at + 1) - j].key
      BY <2>1, <3>1, <3>4, TypedOn DEF TypedInv, KeyInv, k
    <3> QED BY <2>1, <3>1, <3>5 DEF TypedInv
  <2> QED BY <2>2, <2>3
<1>3. CASE input_thread /\ InputEnds
  <2>1. input_at = 17 /\ input_at' = 0 /\ UNCHANGED key /\ scripted
    BY <1>3, ScriptIs DEF InputEnds, NoKey, input_thread
  <2>2. 0 < Len(pressed) /\ pressed[Len(pressed) - 0].key = Script[17 - 0].key
    BY <2>1 DEF TypedInv
  <2>3. pressed # <<>> /\ Len(pressed) - 0 = Len(pressed) /\ 17 - 0 = 17
    BY <2>2 DEF KeyInv
  <2>4. key = "3"
    BY <2>2, <2>3, ScriptIs DEF KeyInv, Newest
  <2> QED BY <2>1, <2>4 DEF TypedInv
<1>4. CASE Keyboard
  BY <1>4, InputOnly DEF Keyboard, TypedInv
<1>5. CASE codelock_thread \/ Tick \/ (input_thread /\ InputWaits) \/ UNCHANGED vars
  BY <1>1, <1>5, CodelockOnly, TickOnly, InputOnly DEF InputWaits, NoKey, vars, threads
<1> QED BY <1>2, <1>3, <1>4, <1>5 DEF Next, Program, input_thread

LEMMA FoundStep ==
  ASSUME ControlInv, KeyInv, TypedInv, FoundInv, [Next]_vars PROVE FoundInv'
<1> SUFFICES ASSUME scripted' PROVE FoundInv'
  BY DEF FoundInv
<1>0. /\ TimerOK(codelock_timer) /\ TimerOK(input_timer) /\ input_at \in 0..17
      /\ scripted
  <2>1. UNCHANGED scripted
    BY CodelockOnly, InputOnly, TickOnly DEF Next, Program, vars
  <2> QED BY <2>1, ScriptIs DEF ControlInv, CallInv, TimersInv
<1>1. CASE codelock_thread
  <2>1. UNCHANGED <<input_at, input_timer, key, pressed>>
    BY <1>1, CodelockOnly
  <2>2. codelock_at' = "next" => key_pressed_flag' = 0
    BY <1>1 DEF codelock_thread, WaitFirst, WaitTimed, TooLate, CheckKey, Opening, Break, GoesOn,
       Waits, Exits, ControlInv, CallInv
  <2>3. ASSUME keys' \in {2, 3}, codelock_at' = "check" \/ Running' PROVE input_at >= 6
    <3>1. CASE WaitFirst
      <4>1. keys = 0 /\ UNCHANGED keys
        BY <1>1, <3>1 DEF WaitFirst, ControlInv, CounterInv, codelock_thread
      <4> QED BY <2>3, <4>1
    <3>2. CASE WaitTimed("next", "late") \/ WaitTimed("final", "opening")
      BY <2>3, <3>2, <1>0 DEF WaitTimed, GoesOn, Waits, Running, FoundInv
    <3>3. CASE TooLate \/ Opening
      BY <2>3, <3>3, <1>0 DEF TooLate, Opening, Break, GoesOn, Exits, Running, FoundInv
    <3>4. CASE CheckKey
      <4>1. keys' = keys + 1 /\ keys \in 1..2 /\ key = code[keys + 1] /\ codelock_at = "check"
        BY <2>3, <3>4 DEF CheckKey, Break, ControlInv, CounterInv
      <4>2. CASE keys = 2
        BY <1>0, <4>1, <4>2 DEF FoundInv
      <4>3. CASE keys = 1
        <5>1. key = "4" /\ pressed # <<>>
          BY <4>1, <4>3 DEF code, KeyInv
        <5>2. input_at >= 2
          BY <1>0, <5>1 DEF TypedInv
        <5>3. pressed[Len(pressed) - 0].key = Script[input_at - 0].key
          BY <1>0, <5>2 DEF TypedInv
        <5>4. Script[input_at].key = "4" /\ input_at \in 2..17
          BY <1>0, <5>1, <5>2, <5>3 DEF KeyInv, Newest
        <5> QED BY <5>4, ScriptIs
      <4> QED BY <4>1, <4>2, <4>3
    <3> QED BY <1>1, <3>1, <3>2, <3>3, <3>4 DEF codelock_thread
  <2> QED BY <2>1, <2>2, <2>3 DEF FoundInv
<1>2. CASE input_thread
  <2>1. UNCHANGED <<codelock_at, keys, codelock_timer>>
    BY <1>2, InputOnly
  <2>2. CASE InputGoesOn
    <3>1. input_at + 1 \in 1..17 /\ input_at' = input_at + 1
      BY <1>0, <2>2, ScriptIs DEF InputGoesOn
    <3>2. input_timer' = Set(Script[input_at + 1].wait) /\ Script[input_at + 1].wait \in Nat
      BY <2>2, <3>1, ScriptIs DEF InputGoesOn
    <3>3. (input_timer').elapsed = 0 /\ codelock_timer.elapsed \in Nat
      BY <1>0, <3>2, TimerSet, TimerExpired
    <3> QED BY <1>0, <2>1, <3>1, <3>3 DEF FoundInv, Running
  <2>3. CASE InputWaits
    BY <1>0, <2>1, <2>3 DEF InputWaits, NoKey, FoundInv, Running
  <2>4. CASE InputEnds
    <3>1. /\ input_at = 17 /\ Expired(input_timer) /\ UNCHANGED <<input_timer, key_pressed_flag>>
          /\ input_timer.interval >= 10
      BY <1>0, <2>4, ScriptIs DEF InputEnds, NoKey, ControlInv, TimersInv
    <3>2. ~Running
      <4> SUFFICES ASSUME Running PROVE FALSE
        OBVIOUS
      <4>1. codelock_at = "next" /\ codelock_timer.interval = 10 /\ ~Expired(codelock_timer)
        BY <1>2, InputOnly DEF Running, ControlInv, CallInv, TimersInv
      <4>2. CASE key_pressed_flag # 0
        <5>1. input_timer.elapsed <= codelock_timer.elapsed
          BY <1>0, <4>1, <4>2 DEF FoundInv
        <5> QED BY <1>0, <3>1, <4>1, <5>1, TimerExpired
      <4>3. CASE key_pressed_flag = 0
        <5>1. key = code[keys] /\ keys \in 1..3 /\ pressed # <<>>
          BY <4>1, <4>3 DEF KeyInv, ControlInv, CounterInv
        <5>2. pressed[Len(pressed) - 0].key = Script[17 - 0].key
          BY <1>0, <3>1 DEF TypedInv
        <5>3. Len(pressed) - 0 = Len(pressed) /\ 17 - 0 = 17
          BY DEF KeyInv
        <5>4. key = "3"
          BY <5>1, <5>2, <5>3, ScriptIs DEF KeyInv, Newest
        <5> QED BY <5>1, <5>4 DEF code
      <4> QED BY <4>2, <4>3
    <3> QED BY <1>0, <1>2, <2>1, <3>1, <3>2, InputOnly DEF FoundInv, Running, ControlInv, CallInv
  <2> QED BY <1>2, <2>2, <2>3, <2>4 DEF input_thread
<1>3. CASE Keyboard
  BY <1>0, <1>3 DEF Keyboard
<1>4. CASE Tick
  <2>1. UNCHANGED <<codelock_at, keys, input_at, key_pressed_flag>>
    BY <1>4, TickOnly
  <2>2. codelock_timer' = Later(codelock_timer) /\ input_timer' = Later(input_timer)
    BY <1>4 DEF Tick
  <2>3. Running' => Running
    BY <1>0, <2>1, <2>2, TimerTicks DEF Running
  <2>4. Expired(codelock_timer) => Expired(codelock_timer')
    BY <1>0, <2>2, TimerTicks
  <2>5. input_timer.elapsed <= codelock_timer.elapsed /\ ~Expired(codelock_timer) =>
          (input_timer').elapsed <= (codelock_timer').elapsed
    BY <1>0, <2>2, TimerTicks, TimerExpired
  <2> QED BY <1>0, <2>1, <2>3, <2>4, <2>5 DEF FoundInv
<1>5. CASE UNCHANGED vars
  BY <1>5 DEF vars, threads, FoundInv, Running
<1> QED BY <1>1, <1>2, <1>3, <1>4, <1>5 DEF Next, Program

-----------------------------------------------------------------------------
(* A key just pressed, just noticed or being looked at is a moment old. *)
QuietInv ==
  (late = 0 /\ (key_pressed_flag # 0 \/ codelock_at = "check"
                  \/ (codelock_at = "late" /\ ~Expired(codelock_timer)))) => quiet = 0

(* How the keys found so far end what was pressed, wherever codelock_thread *)
(* looks for the next: the one before is the newest ...                     *)
AwaitInv ==
  (codelock_at = "next" /\ key_pressed_flag = 0) =>
    /\ Found(pressed, keys, 0)
    /\ late = 0 => Timely(pressed, keys, 0) /\ quiet = codelock_timer.elapsed
(* ... or one more has come, ... *)
ComeInv ==
  (codelock_at = "next" /\ key_pressed_flag # 0) =>
    /\ Found(pressed, keys, 1)
    /\ late = 0 => /\ Timely(pressed, keys, 1)
                   /\ Expired(codelock_timer) \/ Newest(pressed).gap < 10
(* ... has been noticed ... *)
NoticedInv ==
  (codelock_at = "late" /\ ~Expired(codelock_timer)) =>
    /\ Found(pressed, keys, 1)
    /\ late = 0 => Timely(pressed, keys, 1) /\ Newest(pressed).gap < 10
(* ... and found to be in time. *)
CheckInv ==
  codelock_at = "check" =>
    /\ Found(pressed, keys, 1)
    /\ late = 0 => Timely(pressed, keys, 1) /\ (keys > 0 => Newest(pressed).gap < 10)

(* Of the keys of input_thread, when it is held up, one may be overlooked;  *)
(* that none is, FoundInv says.                                             *)
MatchInv == ~scripted \/ late = 0 => AwaitInv /\ ComeInv /\ NoticedInv /\ CheckInv

LEMMA QuietStep ==
  ASSUME ControlInv, KeyInv, QuietInv, [Next]_vars PROVE QuietInv'
<1>1. CASE codelock_thread
  <2>1. UNCHANGED <<late, quiet>>
    BY <1>1, CodelockOnly
  <2>2. CASE WaitFirst \/ WaitTimed("next", "late") \/ WaitTimed("final", "opening")
    BY <2>1, <2>2 DEF WaitFirst, WaitTimed, GoesOn, Waits, QuietInv
  <2>3. CASE TooLate \/ CheckKey \/ Opening
    BY <2>1, <2>3 DEF TooLate, CheckKey, Opening, Break, GoesOn, Exits, QuietInv
  <2> QED BY <1>1, <2>2, <2>3 DEF codelock_thread
<1>2. CASE input_thread \/ Keyboard
  <2>1. UNCHANGED <<codelock_at, codelock_timer, late>>
    BY <1>2, InputOnly
  <2>2. CASE UNCHANGED <<key, key_pressed_flag, pressed, quiet>>
    BY <2>1, <2>2 DEF QuietInv
  <2>3. ASSUME NEW k \in AnyKey, press_key(k) PROVE quiet' = 0
    BY <2>3 DEF press_key
  <2> QED BY <1>2, <2>2, <2>3, Presser DEF QuietInv
<1>3. CASE Tick
  <2>1. UNCHANGED <<codelock_at, key_pressed_flag>>
    BY <1>3, TickOnly
  <2> SUFFICES ASSUME key_pressed_flag # 0 \/ codelock_at \in {"late", "check"}
               PROVE  late' # 0
    BY <2>1 DEF QuietInv
  <2>2. polled # {"codelock", "input"}
    BY DEF ControlInv, CallInv
  <2>3. late' = late + 1 /\ late \in Nat
    BY <1>3, <2>2, Held DEF Tick, ControlInv, CallInv
  <2> QED BY <2>3
<1>4. CASE UNCHANGED vars
  BY <1>4 DEF vars, threads, QuietInv
<1> QED BY <1>1, <1>2, <1>3, <1>4 DEF Next, Program

(* A tick in which a key waits, or the lock has something to do. *)
LEMMA HeldUp ==
  ASSUME ControlInv, Tick,
         key_pressed_flag # 0 \/ codelock_at \in {"late", "check", "opening"}
  PROVE  late' = late + 1 /\ late' # 0
<1>1. polled # {"codelock", "input"}
  BY DEF ControlInv, CallInv
<1>2. late' = late + 1 /\ late \in Nat
  BY <1>1, Held DEF Tick, ControlInv, CallInv
<1> QED BY <1>2

LEMMA MatchCodelock ==
  ASSUME ControlInv, KeyInv, QuietInv, AwaitInv, ComeInv, NoticedInv, CheckInv, codelock_thread
  PROVE  (AwaitInv /\ ComeInv /\ NoticedInv /\ CheckInv)'
<1>1. /\ UNCHANGED <<input_at, input_timer, key, late, scripted, pressed, quiet>>
      /\ TimerOK(codelock_timer)
  BY CodelockOnly DEF ControlInv, TimersInv
<1>2. CASE WaitFirst
  <2>1. codelock_at' \in {"first", "check"}
    BY <1>2 DEF WaitFirst, GoesOn, Waits
  <2>2. codelock_at' = "check" => pressed # <<>>
    BY <1>2 DEF WaitFirst, GoesOn, Waits, KeyInv
  <2>3. keys = 0 /\ keys' = 0
    BY <1>2 DEF WaitFirst, ControlInv, CounterInv, codelock_thread
  <2>4. pressed # <<>> => Found(pressed, 0, 1)
    BY DEF Found, KeyInv
  <2>5. Timely(pressed, 0, 1)
    BY DEF Timely
  <2> QED BY <1>1, <2>1, <2>2, <2>3, <2>4, <2>5 DEF AwaitInv, ComeInv, NoticedInv, CheckInv
<1>3. CASE WaitTimed("next", "late")
  <2>1. UNCHANGED <<keys, codelock_timer>> /\ codelock_at = "next" /\ key_pressed_flag' = 0
    BY <1>3 DEF WaitTimed
  <2>2. \/ codelock_at' = "late" /\ (key_pressed_flag # 0 \/ Expired(codelock_timer))
        \/ codelock_at' = "next" /\ key_pressed_flag = 0
    BY <1>3 DEF WaitTimed, GoesOn, Waits
  <2>3. CASE codelock_at' = "late"
    BY <1>1, <2>1, <2>2, <2>3 DEF AwaitInv, ComeInv, NoticedInv, CheckInv
  <2>4. CASE codelock_at' = "next" /\ key_pressed_flag = 0
    BY <1>1, <2>1, <2>4 DEF AwaitInv, ComeInv, NoticedInv, CheckInv
  <2> QED BY <2>2, <2>3, <2>4
<1>4. CASE WaitTimed("final", "opening") \/ Opening
  <2>1. codelock_at' \in {"final", "opening", "first"}
    BY <1>4 DEF WaitTimed, Opening, Break, GoesOn, Waits, Exits
  <2> QED BY <2>1 DEF AwaitInv, ComeInv, NoticedInv, CheckInv
<1>5. CASE TooLate
  <2>1. \/ codelock_at' = "first"
        \/ /\ codelock_at = "late" /\ ~Expired(codelock_timer)
           /\ codelock_at' = "check" /\ UNCHANGED keys
    BY <1>5 DEF TooLate, Break, GoesOn
  <2>2. CASE codelock_at' = "first"
    BY <2>2 DEF AwaitInv, ComeInv, NoticedInv, CheckInv
  <2>3. CASE /\ codelock_at = "late" /\ ~Expired(codelock_timer)
             /\ codelock_at' = "check" /\ UNCHANGED keys
    BY <1>1, <2>3 DEF AwaitInv, ComeInv, NoticedInv, CheckInv
  <2> QED BY <2>1, <2>2, <2>3
<1>6. CASE CheckKey
  <2>1. \/ codelock_at' \in {"first", "final"}
        \/ /\ key = code[keys + 1] /\ keys' = keys + 1 /\ codelock_timer' = Set(10)
           /\ codelock_at' = "next"
    BY <1>6 DEF CheckKey, Break, GoesOn
  <2>2. CASE codelock_at' \in {"first", "final"}
    BY <2>2 DEF AwaitInv, ComeInv, NoticedInv, CheckInv
  <2>3. CASE /\ key = code[keys + 1] /\ keys' = keys + 1 /\ codelock_timer' = Set(10)
             /\ codelock_at' = "next"
    <3>1. /\ codelock_at = "check" /\ keys \in 0..3 /\ UNCHANGED key_pressed_flag
          /\ key_pressed_flag = 0
      BY <1>6 DEF CheckKey, ControlInv, CounterInv, CallInv
    <3>2. /\ Found(pressed, keys, 1) /\ Newest(pressed).key = code[keys + 1]
          /\ pressed \in Seq(Presses)
      BY <2>3, <3>1 DEF CheckInv, KeyInv
    <3>3. /\ Found(pressed, keys + 1, 0)
          /\ Timely(pressed, keys, 1) /\ (keys > 0 => Newest(pressed).gap < 10) =>
               Timely(pressed, keys + 1, 0)
      BY <3>1, <3>2, FoundNow
    <3>4. late = 0 => Timely(pressed, keys + 1, 0) /\ quiet = 0
      BY <3>1, <3>3 DEF CheckInv, QuietInv
    <3>5. (codelock_timer').elapsed = 0
      BY <2>3, TimerSet
    <3> QED BY <1>1, <2>3, <3>1, <3>3, <3>4, <3>5 DEF AwaitInv, ComeInv, NoticedInv, CheckInv
  <2> QED BY <2>1, <2>2, <2>3
<1> QED BY <1>2, <1>3, <1>4, <1>5, <1>6 DEF codelock_thread

(* A key that comes while another waits to be looked at meets a process *)
(* that is held up, or is one of those of input_thread.                 *)
LEMMA PressFirst ==
  ASSUME ControlInv, ~scripted \/ late = 0, input_thread \/ Keyboard,
         ~UNCHANGED <<key, key_pressed_flag, pressed, quiet>>
  PROVE  key_pressed_flag = 0
<1>1. CASE Keyboard
  BY <1>1 DEF Keyboard, ControlInv, UnseenInv
<1>2. CASE input_thread
  <2> SUFFICES ASSUME key_pressed_flag # 0 PROVE FALSE
    OBVIOUS
  <2>1. InputGoesOn /\ turn = "input" /\ scripted
    BY <1>2 DEF input_thread, InputWaits, InputEnds, NoKey
  <2>2. /\ input_at \in 1..17 /\ input_timer.elapsed = 0
        /\ input_timer.interval = Script[input_at].wait /\ TimerOK(input_timer)
    BY <2>1, ScriptIs DEF ControlInv, UnseenInv, TimersInv, CallInv
  <2>3. ~Expired(input_timer)
    BY <2>2, ScriptIs, TimerExpired
  <2> QED BY <2>1, <2>2, <2>3 DEF InputGoesOn
<1> QED BY <1>1, <1>2

LEMMA MatchStep ==
  ASSUME ControlInv, KeyInv, QuietInv, MatchInv, [Next]_vars PROVE MatchInv'
<1> SUFFICES ASSUME (~scripted \/ late = 0)' PROVE (AwaitInv /\ ComeInv /\ NoticedInv /\ CheckInv)'
  BY DEF MatchInv
<1>1. ~scripted \/ late = 0
  <2>1. CASE codelock_thread \/ input_thread \/ Keyboard
    BY <2>1, CodelockOnly, InputOnly
  <2>2. CASE Tick
    <3>1. late' = late \/ late' = late + 1
      BY <2>2 DEF Tick
    <3>2. UNCHANGED scripted /\ late \in Nat
      BY <2>2, TickOnly, Held DEF ControlInv, CallInv
    <3> QED BY <3>1, <3>2
  <2>3. CASE UNCHANGED vars
    BY <2>3 DEF vars
  <2> QED BY <2>1, <2>2, <2>3 DEF Next, Program
<1>2. AwaitInv /\ ComeInv /\ NoticedInv /\ CheckInv
  BY <1>1 DEF MatchInv
<1>3. CASE codelock_thread
  BY <1>2, <1>3, MatchCodelock
<1>4. CASE input_thread \/ Keyboard
  <2>1. UNCHANGED <<codelock_at, keys, codelock_timer, late, scripted>>
    BY <1>4, InputOnly
  <2>2. CASE UNCHANGED <<key, key_pressed_flag, pressed, quiet>>
    BY <1>2, <2>1, <2>2 DEF AwaitInv, ComeInv, NoticedInv, CheckInv
  <2>3. CASE ~UNCHANGED <<key, key_pressed_flag, pressed, quiet>>
    <3>1. key_pressed_flag = 0 /\ codelock_at \notin {"late", "check"} /\ quiet \in 0..10
      BY <1>1, <1>4, <2>3, PressFirst, InputOnly DEF ControlInv, CallInv
    <3>2. PICK k \in AnyKey : press_key(k)
      BY <1>4, <2>3, Presser
    <3>3. /\ key_pressed_flag' = 1 /\ pressed' \in Seq(Presses)
          /\ OneMore(pressed, pressed', [key |-> k, gap |-> Gap])
      BY <3>1, <3>2, KeyPressed
    <3>4. CASE codelock_at = "next"
      <4>1. /\ keys \in 0..4 /\ pressed \in Seq(Presses) /\ 0 \in 0..MaxLate /\ 0 + 1 = 1
            /\ TimerOK(codelock_timer) /\ codelock_timer.interval = 10
        BY <3>4, Held DEF ControlInv, CounterInv, KeyInv, TimersInv
      <4>2. Found(pressed, keys, 0)
        BY <1>2, <3>1, <3>4 DEF AwaitInv
      <4>3. Found(pressed', keys, 1) /\ (Timely(pressed, keys, 0) => Timely(pressed', keys, 1))
        BY <3>3, <4>1, <4>2, FoundBefore
      <4>4. Newest(pressed').gap = Gap
        BY <3>3 DEF OneMore
      <4>5. ASSUME late = 0 PROVE Expired(codelock_timer) \/ Gap < 10
        <5>1. quiet = codelock_timer.elapsed
          BY <1>2, <3>1, <3>4, <4>5 DEF AwaitInv
        <5>2. Expired(codelock_timer) \/ quiet < 10
          BY <3>1, <4>1, <5>1, TimerExpired
        <5> QED BY <3>1, <5>2 DEF Gap
      <4>6. late = 0 => Timely(pressed', keys, 1)
        BY <1>2, <3>1, <3>4, <4>3 DEF AwaitInv
      <4>7. ComeInv'
        BY <2>1, <4>3, <4>4, <4>5, <4>6 DEF ComeInv
      <4> QED BY <2>1, <3>3, <3>4, <4>7 DEF AwaitInv, NoticedInv, CheckInv
    <3>5. CASE codelock_at # "next"
      BY <2>1, <3>1, <3>5 DEF AwaitInv, ComeInv, NoticedInv, CheckInv
    <3> QED BY <3>4, <3>5
  <2> QED BY <2>2, <2>3
<1>5. CASE Tick
  <2>1. UNCHANGED <<codelock_at, keys, key_pressed_flag, pressed>>
    BY <1>5, TickOnly
  <2>2. /\ codelock_timer' = Later(codelock_timer) /\ TimerOK(codelock_timer)
        /\ quiet' = IF quiet < 10 THEN quiet + 1 ELSE quiet
        /\ late' = late \/ late' = late + 1
        /\ late \in Nat
    BY <1>5, Held DEF Tick, ControlInv, TimersInv, CallInv
  <2>3. late' = 0 => late = 0
    BY <2>2
  <2>4. AwaitInv'
    <3> SUFFICES ASSUME codelock_at = "next", key_pressed_flag = 0,
                        late' = 0 => quiet = codelock_timer.elapsed
                 PROVE  late' = 0 => quiet' = (codelock_timer').elapsed
      BY <1>2, <2>1, <2>3 DEF AwaitInv
    <3>1. codelock_timer.interval = 10
      BY DEF ControlInv, TimersInv
    <3> QED BY <2>2, <3>1, TimerTicks, TimerExpired
  <2>5. ComeInv'
    <3>1. key_pressed_flag # 0 => late' # 0
      BY <1>5, HeldUp
    <3> QED BY <1>2, <2>1, <3>1 DEF ComeInv
  <2>6. codelock_at \in {"late", "check"} => late' # 0
    BY <1>5, HeldUp
  <2>7. ~Expired(codelock_timer') => ~Expired(codelock_timer)
    BY <2>2, TimerTicks
  <2>8. NoticedInv' /\ CheckInv'
    BY <1>2, <2>1, <2>6, <2>7 DEF NoticedInv, CheckInv
  <2> QED BY <2>4, <2>5, <2>8
<1>6. CASE UNCHANGED vars
  BY <1>2, <1>6 DEF vars, threads, AwaitInv, ComeInv, NoticedInv, CheckInv
<1> QED BY <1>3, <1>4, <1>5, <1>6 DEF Next, Program

-----------------------------------------------------------------------------
(* The four keys of the code, and e keys after them; if the process was not *)
(* held up, none of those came within half a second.                        *)
Opens(e) ==
  /\ Found(pressed, 4, e)
  /\ late = 0 => Timely(pressed, 4, e) /\ IsLeft(Len(pressed) - e)

(* The final wait, as long as no key has come in it, ... *)
FinalInv ==
  (codelock_at = "final" /\ key_pressed_flag = 0) =>
    /\ Found(pressed, 4, 0)
    /\ late = 0 => Timely(pressed, 4, 0) /\ quiet >= codelock_timer.elapsed
(* ... and after one or more have: the process was held up before each but  *)
(* the first.                                                               *)
DisturbedInv ==
  (codelock_at = "final" /\ key_pressed_flag # 0) =>
    \E e \in 1..late + 1 :
      /\ Found(pressed, 4, e)
      /\ (turn = "input" /\ input_timer.elapsed > 0) => e <= late
      /\ late = 0 => /\ Timely(pressed, 4, 1)
                     /\ Expired(codelock_timer) => Newest(pressed).gap >= 5
OpeningInv ==
  codelock_at = "opening" =>
    \E e \in 0..late + 1 :
      Found(pressed, 4, e) /\ (late = 0 /\ Expired(codelock_timer) => Opens(e))
OpenedInv == Opened => \E e \in 0..late + 1 : Opens(e)

DoneInv == FinalInv /\ DisturbedInv /\ OpeningInv /\ OpenedInv

(* The fourth key completes the code: of input_thread it is one of the last *)
(* lines, which all four follow each other in.                              *)
LEMMA FourthKey ==
  ASSUME ControlInv, KeyInv, TypedInv, FoundInv, MatchInv, codelock_at = "check", keys = 3,
         key = code[4]
  PROVE  Found(pressed, 4, 0) /\ (late = 0 => Timely(pressed, 4, 0))
<1>1. pressed \in Seq(Presses) /\ pressed # <<>> /\ Newest(pressed).key = code[3 + 1]
  BY DEF KeyInv
<1>2. CASE ~scripted \/ late = 0
  <2>1. CheckInv
    BY <1>2 DEF MatchInv
  <2>2. Found(pressed, 3, 1) /\ (late = 0 => Timely(pressed, 3, 1) /\ Newest(pressed).gap < 10)
    BY <2>1 DEF CheckInv
  <2>3. Found(pressed, 3 + 1, 0) /\ (late = 0 => Timely(pressed, 3 + 1, 0))
    BY <1>1, <2>2, FoundNow
  <2> QED BY <2>3
<1>3. CASE scripted /\ late # 0
  <2> DEFINE n == Len(pressed)
  <2>1. input_at \in 6..17 /\ n \in Nat
    <3>1. input_at >= 6
      BY <1>3 DEF FoundInv
    <3>2. input_at \in 0..17
      BY <1>3, ScriptIs DEF ControlInv, CallInv
    <3> QED BY <1>1, <3>1, <3>2
  <2>2. /\ 0 < n /\ pressed[n - 0].key = Script[input_at - 0].key
        /\ 1 < n /\ pressed[n - 1].key = Script[input_at - 1].key
        /\ 2 < n /\ pressed[n - 2].key = Script[input_at - 2].key
        /\ 3 < n /\ pressed[n - 3].key = Script[input_at - 3].key
    <3>1. \A j \in 0..3 : input_at - j >= 2
      BY <2>1
    <3>2. \A j \in 0..3 : j < n /\ pressed[n - j].key = Script[input_at - j].key
      BY <1>3, <3>1 DEF TypedInv
    <3> QED BY <3>2
  <2>3. /\ n - 0 = n /\ input_at - 0 = input_at /\ 4 + 0 <= n
        /\ n - 0 - 4 + 1 = n - 3 /\ n - 0 - 4 + 2 = n - 2 /\ n - 0 - 4 + 3 = n - 1
        /\ n - 0 - 4 + 4 = n
    BY <2>1, <2>2
  <2> HIDE DEF n
  <2>4. pressed[n].key = "3" /\ Script[input_at].key = "3"
    BY <1>1, <2>2, <2>3 DEF Newest, code, n
  <2>5. /\ Script[input_at - 1].key = "2" /\ Script[input_at - 2].key = "4"
        /\ Script[input_at - 3].key = "1"
    BY <2>1, <2>4, ScriptIs
  <2>6. /\ pressed[n - 3].key = code[1] /\ pressed[n - 2].key = code[2]
        /\ pressed[n - 1].key = code[3] /\ pressed[n].key = code[4]
    BY <2>2, <2>4, <2>5 DEF code
  <2>7. \A j \in 1..4 : pressed[n - 0 - 4 + j].key = code[j]
    <3> SUFFICES ASSUME NEW j \in 1..4 PROVE pressed[n - 0 - 4 + j].key = code[j]
      OBVIOUS
    <3>1. j = 1 \/ j = 2 \/ j = 3 \/ j = 4
      OBVIOUS
    <3> QED BY <2>3, <2>6, <3>1
  <2> QED BY <1>3, <2>3, <2>7 DEF Found, n
<1> QED BY <1>2, <1>3

LEMMA DoneCodelock ==
  ASSUME ControlInv, KeyInv, TypedInv, FoundInv, QuietInv, MatchInv, DoneInv, codelock_thread
  PROVE  DoneInv'
<1>1. /\ UNCHANGED <<input_at, input_timer, key, late, scripted, pressed, quiet>>
      /\ TimerOK(codelock_timer) /\ turn = "codelock" /\ late \in Nat
  BY CodelockOnly, Held DEF ControlInv, TimersInv, CallInv
<1>2. CASE WaitFirst \/ WaitTimed("next", "late") \/ TooLate
  <2>1. codelock_at' \notin {"final", "opening"} /\ turn' # "returned"
    BY <1>1, <1>2 DEF WaitFirst, WaitTimed, TooLate, Break, GoesOn, Waits, PT_SCHEDULE, PT_WAITING,
       PT_EXITED
  <2> QED BY <2>1 DEF DoneInv, FinalInv, DisturbedInv, OpeningInv, OpenedInv, Opened
<1>3. CASE CheckKey
  <2>1. /\ codelock_at' # "opening" /\ turn' # "returned" /\ key_pressed_flag' = 0
        /\ codelock_at' = "final" =>
             /\ key = code[keys + 1] /\ keys + 1 = 4
             /\ codelock_timer' = Set(5)
    BY <1>1, <1>3 DEF CheckKey, Break, GoesOn, ControlInv, CallInv, code
  <2>2. FinalInv'
    <3> SUFFICES ASSUME codelock_at' = "final"
                 PROVE  /\ Found(pressed, 4, 0)
                        /\ late = 0 => /\ Timely(pressed, 4, 0)
                                       /\ quiet >= (codelock_timer').elapsed
      BY <1>1 DEF FinalInv
    <3>1. keys = 3 /\ codelock_at = "check" /\ key = code[4]
      BY <1>3, <2>1 DEF CheckKey, ControlInv, CounterInv
    <3>2. (codelock_timer').elapsed = 0 /\ (late = 0 => quiet = 0)
      BY <2>1, <3>1, TimerSet DEF QuietInv
    <3> QED BY <3>1, <3>2, FourthKey
  <2> QED BY <2>1, <2>2 DEF DoneInv, DisturbedInv, OpeningInv, OpenedInv, Opened
<1>4. CASE WaitTimed("final", "opening")
  <2>1. UNCHANGED codelock_timer /\ codelock_at = "final" /\ key_pressed_flag' = 0
        /\ codelock_timer.interval = 5
    BY <1>4 DEF WaitTimed, ControlInv, TimersInv
  <2>2. turn' # "returned"
    BY <1>1, <1>4 DEF WaitTimed, GoesOn, Waits, PT_SCHEDULE, PT_WAITING, PT_EXITED
  <2>3. \/ codelock_at' = "final" /\ key_pressed_flag = 0
        \/ codelock_at' = "opening" /\ (key_pressed_flag # 0 \/ Expired(codelock_timer))
    BY <1>4 DEF WaitTimed, GoesOn, Waits
  <2>4. CASE codelock_at' = "final" /\ key_pressed_flag = 0
    BY <1>1, <2>1, <2>2, <2>4 DEF DoneInv, FinalInv, DisturbedInv, OpeningInv, OpenedInv, Opened
  <2>5. CASE codelock_at' = "opening" /\ key_pressed_flag # 0
    <3>1. PICK e \in 1..late + 1 :
            /\ Found(pressed, 4, e)
            /\ late = 0 => /\ Timely(pressed, 4, 1)
                           /\ Expired(codelock_timer) => Newest(pressed).gap >= 5
      BY <2>1, <2>5 DEF DoneInv, DisturbedInv
    <3>2. ASSUME late = 0, Expired(codelock_timer) PROVE Opens(e)
      <4>1. e = 1 /\ Newest(pressed).gap >= 5 /\ Timely(pressed, 4, 1)
        BY <1>1, <3>1, <3>2
      <4>2. Len(pressed) - 1 # Len(pressed) /\ (Len(pressed) - 1) + 1 = Len(pressed)
        BY DEF KeyInv
      <4>3. IsLeft(Len(pressed) - 1)
        BY <4>1, <4>2 DEF IsLeft, Newest
      <4> QED BY <3>1, <4>1, <4>3 DEF Opens
    <3>3. e \in 0..late + 1
      BY <1>1
    <3>4. UNCHANGED <<pressed, late, codelock_timer, quiet>>
      BY <1>1, <2>1
    <3>5. Opens(e)' <=> Opens(e)
      BY <3>4 DEF Opens, IsLeft
    <3>6. OpeningInv'
      BY <3>1, <3>2, <3>3, <3>4, <3>5 DEF OpeningInv
    <3> QED BY <2>2, <2>5, <3>6 DEF DoneInv, FinalInv, DisturbedInv, OpenedInv, Opened
  <2>6. CASE codelock_at' = "opening" /\ key_pressed_flag = 0 /\ Expired(codelock_timer)
    <3>1. Found(pressed, 4, 0) /\ (late = 0 => Timely(pressed, 4, 0) /\ quiet >= 5)
      BY <1>1, <2>1, <2>6, TimerExpired DEF DoneInv, FinalInv
    <3>2. Len(pressed) - 0 = Len(pressed)
      BY DEF KeyInv
    <3>3. Opens(0)
      BY <3>1, <3>2 DEF Opens, IsLeft
    <3>4. UNCHANGED <<pressed, late, codelock_timer, quiet>> /\ 0 \in 0..late + 1
      BY <1>1, <2>1
    <3>5. Opens(0)' <=> Opens(0)
      BY <3>4 DEF Opens, IsLeft
    <3>6. OpeningInv'
      BY <3>1, <3>3, <3>4, <3>5 DEF OpeningInv
    <3> QED BY <2>2, <2>6, <3>6 DEF DoneInv, FinalInv, DisturbedInv, OpenedInv, Opened
  <2> QED BY <2>3, <2>4, <2>5, <2>6
<1>5. CASE Opening
  <2>1. codelock_at = "opening" /\ codelock_at' = "first"
    BY <1>5 DEF Opening, Exits, Break, GoesOn
  <2>2. turn' = "returned" => Expired(codelock_timer)
    BY <1>1, <1>5 DEF Opening, Break, GoesOn
  <2>3. PICK e \in 0..late + 1 :
          Found(pressed, 4, e) /\ (late = 0 /\ Expired(codelock_timer) => Opens(e))
    BY <2>1 DEF DoneInv, OpeningInv
  <2>4. turn' = "returned" => Opens(e)
    BY <2>2, <2>3 DEF Opens
  <2>5. UNCHANGED <<pressed, late, quiet>>
    BY <1>1
  <2>6. Opens(e)' <=> Opens(e)
    BY <2>5 DEF Opens, IsLeft
  <2>7. OpenedInv'
    BY <2>4, <2>5, <2>6 DEF OpenedInv, Opened
  <2> QED BY <2>1, <2>7 DEF DoneInv, FinalInv, DisturbedInv, OpeningInv
<1> QED BY <1>2, <1>3, <1>4, <1>5 DEF codelock_thread

(* input_thread goes on in the same call only when it has set its timer. *)
LEMMA GoesOnAnew ==
  ASSUME ControlInv, input_thread \/ Keyboard, turn' = "input"
  PROVE  (input_timer').elapsed = 0
<1>1. InputGoesOn /\ input_thread
  BY DEF input_thread, InputWaits, InputEnds, Keyboard
<1>2. input_at + 1 \in 1..17 /\ input_at' = input_at + 1
  BY <1>1, ScriptIs DEF InputGoesOn, input_thread, ControlInv, CallInv
<1>3. input_timer' = Set(Script[input_at + 1].wait) /\ Script[input_at + 1].wait \in Nat
  BY <1>1, <1>2, ScriptIs DEF InputGoesOn
<1> QED BY <1>3, TimerSet

(* A key in the final wait: the first finds the key of line 228 taken, and  *)
(* so half a second gone if its clock is; each other has waited for its     *)
(* own turn of input_thread, in which 100 ms have passed.                   *)
LEMMA DisturbedStep ==
  ASSUME ControlInv, KeyInv, FinalInv, DisturbedInv, input_thread \/ Keyboard,
         ~UNCHANGED <<key, key_pressed_flag, pressed, quiet>>
  PROVE  DisturbedInv'
<1>1. /\ UNCHANGED <<codelock_at, keys, codelock_timer, late, scripted>>
      /\ turn = "input" /\ late \in 0..MaxLate /\ quiet \in 0..10 /\ MaxLate \in Nat
  BY InputOnly, Held DEF ControlInv, CallInv
<1> SUFFICES ASSUME codelock_at = "final" PROVE DisturbedInv'
  BY <1>1 DEF DisturbedInv
<1>2. TimerOK(codelock_timer) /\ codelock_timer.interval = 5 /\ TimerOK(input_timer)
  BY DEF ControlInv, TimersInv
<1>3. PICK k \in AnyKey : press_key(k)
  BY Presser
<1>4. /\ key_pressed_flag' = 1 /\ pressed' \in Seq(Presses)
      /\ OneMore(pressed, pressed', [key |-> k, gap |-> Gap])
  BY <1>1, <1>3, KeyPressed
<1>5. Newest(pressed').gap = Gap /\ pressed \in Seq(Presses)
  BY <1>4 DEF OneMore, KeyInv
<1>6. (turn' = "input") => (input_timer').elapsed = 0
  BY GoesOnAnew
<1>7. CASE key_pressed_flag = 0
  <2>1. /\ Found(pressed, 4, 0)
        /\ late = 0 => Timely(pressed, 4, 0) /\ quiet >= codelock_timer.elapsed
    BY <1>7 DEF FinalInv
  <2>2. 0 \in 0..MaxLate /\ 0 + 1 = 1 /\ 1 \in 1..late + 1
    BY <1>1
  <2>3. Found(pressed', 4, 1) /\ (Timely(pressed, 4, 0) => Timely(pressed', 4, 1))
    BY <1>4, <1>5, <2>1, <2>2, FoundBefore
  <2>4. ASSUME late = 0, Expired(codelock_timer) PROVE Gap >= 5
    <3>1. quiet >= 5
      BY <1>2, <2>1, <2>4, TimerExpired
    <3> QED BY <1>1, <3>1 DEF Gap
  <2>5. /\ (turn' = "input" /\ (input_timer').elapsed > 0) => 1 <= late
        /\ late = 0 => /\ Timely(pressed', 4, 1)
                       /\ Expired(codelock_timer) => Newest(pressed').gap >= 5
    BY <1>5, <1>6, <2>1, <2>3, <2>4
  <2> QED BY <1>1, <2>2, <2>3, <2>5 DEF DisturbedInv
<1>8. CASE key_pressed_flag # 0
  <2>1. input_thread /\ InputGoesOn /\ scripted /\ input_at >= 2
    BY <1>1, <1>8 DEF ControlInv, UnseenInv, Keyboard, input_thread, InputWaits, InputEnds, NoKey
  <2>2. input_timer.elapsed > 0
    <3>1. input_at \in 1..17 /\ Expired(input_timer)
      BY <2>1, ScriptIs DEF InputGoesOn, ControlInv, CallInv
    <3>2. input_timer.interval >= 1
      BY <2>1, <3>1, ScriptIs DEF ControlInv, TimersInv
    <3> QED BY <1>2, <3>1, <3>2, TimerExpired
  <2>3. PICK e \in 1..late + 1 : Found(pressed, 4, e) /\ e <= late
    BY <1>1, <1>8, <2>2 DEF DisturbedInv
  <2>4. e \in 0..MaxLate /\ e + 1 \in 1..late + 1 /\ late # 0
    BY <1>1, <2>3
  <2>5. Found(pressed', 4, e + 1)
    BY <1>4, <1>5, <2>3, <2>4, FoundBefore
  <2> QED BY <1>1, <1>6, <2>4, <2>5 DEF DisturbedInv
<1> QED BY <1>7, <1>8

LEMMA DoneStep ==
  ASSUME ControlInv, KeyInv, TypedInv, FoundInv, QuietInv, MatchInv, DoneInv, [Next]_vars
  PROVE  DoneInv'
<1>1. CASE codelock_thread
  BY <1>1, DoneCodelock
<1>2. CASE input_thread \/ Keyboard
  <2>1. /\ UNCHANGED <<codelock_at, keys, codelock_timer, late, scripted>>
        /\ codelock_at # "opening"
    BY <1>2, InputOnly DEF ControlInv, CallInv
  <2>2. turn' # "returned"
    BY <1>2, InputOnly DEF input_thread, Keyboard, InputGoesOn, InputWaits, InputEnds
  <2>3. OpeningInv' /\ OpenedInv'
    BY <2>1, <2>2 DEF OpeningInv, OpenedInv, Opened
  <2>4. CASE UNCHANGED <<key, key_pressed_flag, pressed, quiet>>
    <3>1. FinalInv'
      BY <2>1, <2>4 DEF DoneInv, FinalInv
    <3>2. DisturbedInv'
      BY <1>2, <2>1, <2>4, GoesOnAnew DEF DoneInv, DisturbedInv
    <3> QED BY <2>3, <3>1, <3>2 DEF DoneInv
  <2>5. CASE ~UNCHANGED <<key, key_pressed_flag, pressed, quiet>>
    <3>1. DisturbedInv'
      BY <1>2, <2>5, DisturbedStep DEF DoneInv
    <3>2. FinalInv'
      <4>1. PICK k \in AnyKey : press_key(k)
        BY <1>2, <2>5, Presser
      <4> QED BY <4>1 DEF press_key, FinalInv
    <3> QED BY <2>3, <3>1, <3>2 DEF DoneInv
  <2> QED BY <2>4, <2>5
<1>3. CASE Tick
  <2>1. UNCHANGED <<turn, codelock_at, keys, key_pressed_flag, pressed>> /\ turn # "returned"
    BY <1>3, TickOnly DEF Tick
  <2>2. /\ codelock_timer' = Later(codelock_timer) /\ TimerOK(codelock_timer)
        /\ quiet' = IF quiet < 10 THEN quiet + 1 ELSE quiet
        /\ late' = late \/ late' = late + 1
        /\ late \in Nat /\ quiet \in 0..10
    BY <1>3, Held DEF Tick, ControlInv, TimersInv, CallInv
  <2>3. late' = 0 => late = 0
    BY <2>2
  <2>4. FinalInv'
    <3> SUFFICES ASSUME codelock_at = "final", quiet >= codelock_timer.elapsed
                 PROVE  quiet' >= (codelock_timer').elapsed
      BY <2>1, <2>3 DEF DoneInv, FinalInv
    <3>1. codelock_timer.interval = 5
      BY DEF ControlInv, TimersInv
    <3> QED BY <2>2, <3>1, TimerTicks, TimerExpired
  <2>5. DisturbedInv'
    <3> SUFFICES ASSUME codelock_at = "final", key_pressed_flag # 0 PROVE DisturbedInv'
      BY <2>1 DEF DisturbedInv
    <3>1. late' = late + 1 /\ late' # 0
      BY <1>3, HeldUp
    <3>2. PICK e \in 1..late + 1 : Found(pressed, 4, e)
      BY DEF DoneInv, DisturbedInv
    <3>3. e \in 1..late' + 1 /\ e <= late'
      BY <2>2, <3>1
    <3> QED BY <2>1, <3>1, <3>2, <3>3 DEF DisturbedInv
  <2>6. OpeningInv'
    <3> SUFFICES ASSUME codelock_at = "opening" PROVE OpeningInv'
      BY <2>1 DEF OpeningInv
    <3>1. late' = late + 1 /\ late' # 0
      BY <1>3, HeldUp
    <3>2. PICK e \in 0..late + 1 : Found(pressed, 4, e)
      BY DEF DoneInv, OpeningInv
    <3>3. e \in 0..late' + 1
      BY <2>2, <3>1
    <3> QED BY <2>1, <3>1, <3>2, <3>3 DEF OpeningInv
  <2>7. OpenedInv'
    BY <2>1 DEF OpenedInv, Opened
  <2> QED BY <2>4, <2>5, <2>6, <2>7 DEF DoneInv
<1>4. CASE UNCHANGED vars
  <2>1. \A e : Opens(e)' <=> Opens(e)
    BY <1>4 DEF vars, threads, Opens, IsLeft
  <2> QED BY <1>4, <2>1 DEF vars, threads, DoneInv, FinalInv, DisturbedInv, OpeningInv, OpenedInv,
       Opened
<1> QED BY <1>1, <1>2, <1>3, <1>4 DEF Next, Program

-----------------------------------------------------------------------------
(* What the lock relies on. *)
LockInv ==
  /\ ControlInv /\ KeyInv /\ TypedInv /\ FoundInv
  /\ QuietInv /\ MatchInv /\ DoneInv

LEMMA LockInit == Init => LockInv
<1> SUFFICES ASSUME Init PROVE LockInv
  OBVIOUS
<1>1. KeyInv
  BY Held DEF Init, KeyInv
<1>2. TypedInv /\ FoundInv /\ QuietInv
  BY DEF Init, TypedInv, FoundInv, Running, QuietInv
<1>3. MatchInv /\ DoneInv
  BY DEF Init, MatchInv, AwaitInv, ComeInv, NoticedInv, CheckInv, DoneInv, FinalInv, DisturbedInv,
     OpeningInv, OpenedInv, Opened
<1> QED BY <1>1, <1>2, <1>3, ControlInit DEF LockInv

LEMMA LockStep == LockInv /\ [Next]_vars => LockInv'
BY ControlStep, KeyStep, TypedStep, FoundStep, QuietStep, MatchStep, DoneStep DEF LockInv

(* Four keys and e after them, in the words of the property. *)
LEMMA OpenedOnCode == LockInv => OpensOnlyOnCode
<1> SUFFICES ASSUME LockInv, Opened
             PROVE  \E n \in Len(pressed) - 1 - late..Len(pressed) :
                      IsCode(n) /\ (late = 0 => InTime(n) /\ IsLeft(n))
  BY DEF OpensOnlyOnCode
<1>1. PICK e \in 0..late + 1 : Opens(e)
  BY DEF LockInv, DoneInv, OpenedInv
<1> DEFINE m == Len(pressed)
           n == m - e
<1>2. m \in Nat /\ late \in Nat /\ 4 + e <= m
  BY <1>1, Held DEF LockInv, KeyInv, ControlInv, CallInv, Opens, Found
<1>3. n \in m - 1 - late..m /\ n > 3
  BY <1>2
<1>4. \A k \in 1..4 : n - 4 + k = m - e - 4 + k
  BY <1>2
<1>5. \A k \in 0..2 : 4 - k \in 2..4 /\ m - e - 4 + (4 - k) = n - k
  BY <1>2
<1> HIDE DEF n
<1>6. IsCode(n)
  <2>1. \A k \in 1..4 : pressed[m - e - 4 + k].key = code[k]
    BY <1>1 DEF Opens, Found
  <2> QED BY <1>3, <1>4, <2>1 DEF IsCode
<1>7. ASSUME late = 0 PROVE InTime(n) /\ IsLeft(n)
  <2>1. \A j \in 2..4 : pressed[m - e - 4 + j].gap < 10
    BY <1>1, <1>7 DEF Opens, Timely
  <2>2. \A k \in 0..2 : pressed[m - e - 4 + (4 - k)].gap < 10
    BY <1>5, <2>1
  <2>3. InTime(n)
    BY <1>5, <2>2 DEF InTime
  <2>4. IsLeft(n)
    BY <1>1, <1>7 DEF Opens, n
  <2> QED BY <2>3, <2>4
<1> QED BY <1>3, <1>6, <1>7

(* The lock opens on the code and on nothing else, whoever presses the keys *)
(* and however often and long the process is held up.  Lines 37-43 and      *)
(* 144-242.                                                                 *)
THEOREM OpensOnCode == Spec => []OpensOnlyOnCode
BY LockInit, LockStep, OpenedOnCode, PTL DEF Spec
=============================================================================
