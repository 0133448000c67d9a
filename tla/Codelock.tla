------------------------------ MODULE Codelock ------------------------------
(***************************************************************************)
(* example-codelock.c: two protothreads (pt.h) that main schedules in      *)
(* turn.  A call of a protothread reads the clock several times, and on a  *)
(* multitasking system time passes between any two of them; so a call is   *)
(* several steps, each with one look at the clock.                         *)
(*                                                                         *)
(* Of a timer the model keeps how long ago it was set, in units of 100 ms. *)
(***************************************************************************)
EXTENDS Integers, Sequences

CONSTANTS
  Keys,       \* the sets of keys from which a keyboard in the place of
              \* input_thread takes the first, the second ... and the last key
  ScriptLate, KeyboardLate
              \* bounds: how often 100 ms pass while a thread has work to do

ASSUME LockAssumption ==
  /\ ScriptLate \in Nat /\ KeyboardLate \in Nat
  /\ Keys \in Seq(SUBSET STRING)

VARIABLES
  turn,             \* the protothread being called; "returned" after main
  codelock_at,      \* where codelock_thread is: a wait, or what follows it
  keys,             \* its static counter of correct keys
  codelock_timer,   \* [elapsed, interval]
  input_at,         \* the line input_thread waits at; 0 at its beginning
  input_timer,
  key, key_pressed_flag,
  polled,           \* threads that have waited in vain since something happened
  late,             \* how often the process was held up
  scripted,         \* environment: the keys are those of input_thread
  pressed,          \* history: the last keys pressed, [key, gap]: not less than
                    \* gap (0, 5 or 10) after the one before
  quiet             \* history: time since then, up to a second

threads == <<turn, codelock_at, keys, codelock_timer, input_at, input_timer>>
vars == <<threads, key, key_pressed_flag, polled, late, scripted, pressed, quiet>>

MaxLate == IF scripted THEN ScriptLate ELSE KeyboardLate

code == <<"1", "4", "2", "3">>

\* pt.h: what a call of a protothread returns.
PT_WAITING == 0
PT_EXITED == 2
PT_ENDED == 3
PT_SCHEDULE(f) == f < PT_EXITED

\* timer_set and timer_expired.
Set(interval) == [elapsed |-> 0, interval |-> interval]
Expired(timer) == timer.elapsed >= timer.interval

\* input_thread: keys, and how long to wait after each.
Press(k, wait) == [key |-> k, wait |-> wait]
Script ==
  << Press("none", 10), Press("1", 1), Press("2", 1), Press("3", 20),
     Press("1", 2), Press("4", 2), Press("2", 20), Press("3", 2),
     Press("1", 2), Press("4", 2), Press("2", 1), Press("3", 1),
     Press("4", 15), Press("1", 3), Press("4", 4), Press("2", 5), Press("3", 20) >>

Init ==
  /\ turn = "codelock"
  /\ codelock_at = "first" /\ keys = 0 /\ input_at = 0
  /\ codelock_timer = Set(0) /\ input_timer = Set(0)
  /\ key = "none" /\ key_pressed_flag = 0
  /\ polled = {} /\ late = 0 /\ scripted \in BOOLEAN
  /\ pressed = <<>> /\ quiet = 0

-----------------------------------------------------------------------------
\* codelock_thread.

\* It goes on at another place of the same call.
GoesOn(place) == codelock_at' = place /\ polled' = {} /\ UNCHANGED turn

\* The call ends: at a wait (PT_WAIT_UNTIL) or for good (PT_EXIT).
Waits ==
  /\ turn' = IF PT_SCHEDULE(PT_WAITING) THEN "input" ELSE "returned"
  /\ polled' = polled \cup {"codelock"}
  /\ UNCHANGED codelock_at
Exits ==
  /\ turn' = IF PT_SCHEDULE(PT_EXITED) THEN "input" ELSE "returned"
  /\ codelock_at' = "first" /\ polled' = {}

inputVars == <<input_at, input_timer, key, late, scripted, pressed, quiet>>

\* Line 163.
WaitFirst ==
  /\ codelock_at = "first"
  /\ key_pressed_flag' = 0
  /\ IF key_pressed_flag # 0 THEN GoesOn("check") ELSE Waits
  /\ UNCHANGED <<keys, codelock_timer>>

\* Mutant: it waits for the clock alone.
WaitTimed_ClockOnly(place, then) ==
  /\ codelock_at = place
  /\ IF Expired(codelock_timer) THEN GoesOn(then) ELSE Waits
  /\ UNCHANGED <<keys, codelock_timer, key_pressed_flag>>

\* Lines 180 and 228: a key, or else the clock, ends the wait.
WaitTimed(place, then) ==
  /\ codelock_at = place
  /\ key_pressed_flag' = 0
  /\ IF key_pressed_flag # 0 \/ Expired(codelock_timer) THEN GoesOn(then) ELSE Waits
  /\ UNCHANGED <<keys, codelock_timer>>

\* Mutant: the keys found so far still count.
Break_KeepsKeys == GoesOn("first") /\ UNCHANGED <<keys, codelock_timer>>

\* Out of the for loop, and from the beginning of the while loop.
Break == keys' = 0 /\ GoesOn("first") /\ UNCHANGED codelock_timer

\* Line 187: the clock is read again.
TooLate ==
  /\ codelock_at = "late"
  /\ IF Expired(codelock_timer) THEN Break
     ELSE GoesOn("check") /\ UNCHANGED <<keys, codelock_timer>>
  /\ UNCHANGED key_pressed_flag

\* Mutant: a tenth of a second for the next key.
CheckKey_Hasty ==
  /\ codelock_at = "check"
  /\ \/ key # code[keys + 1] /\ Break
     \/ /\ key = code[keys + 1]
        /\ keys' = keys + 1
        /\ IF keys' = Len(code)
           THEN codelock_timer' = Set(5) /\ GoesOn("final")
           ELSE codelock_timer' = Set(1) /\ GoesOn("next")
  /\ UNCHANGED key_pressed_flag

\* Lines 201 to 215, and on to the next wait.
CheckKey ==
  /\ codelock_at = "check"
  /\ \/ key # code[keys + 1] /\ Break
     \/ /\ key = code[keys + 1]
        /\ keys' = keys + 1
        /\ IF keys' = Len(code)
           THEN codelock_timer' = Set(5) /\ GoesOn("final")
           ELSE codelock_timer' = Set(10) /\ GoesOn("next")
  /\ UNCHANGED key_pressed_flag

\* Mutant: whatever ended the final wait, the lock opens.
Opening_Unchecked ==
  /\ codelock_at = "opening" /\ Exits
  /\ UNCHANGED <<keys, codelock_timer, key_pressed_flag>>

\* Line 234: the clock is read again.
Opening ==
  /\ codelock_at = "opening"
  /\ IF Expired(codelock_timer) THEN Exits /\ UNCHANGED <<keys, codelock_timer>>
     ELSE Break
  /\ UNCHANGED key_pressed_flag

codelock_thread ==
  /\ turn = "codelock"
  /\ \/ WaitFirst \/ WaitTimed("next", "late") \/ WaitTimed("final", "opening")
     \/ TooLate \/ CheckKey \/ Opening
  /\ UNCHANGED inputVars

-----------------------------------------------------------------------------
\* input_thread, and main, which calls it whatever it returned before.

codelockVars == <<codelock_at, keys, codelock_timer, late, scripted>>

LastKeys(s) == IF Len(s) > 5 + MaxLate THEN Tail(s) ELSE s

press_key(k) ==
  /\ key' = k /\ key_pressed_flag' = 1
  /\ pressed' = LastKeys(Append(pressed, [key |-> k, gap |-> 5 * (quiet \div 5)]))
  /\ quiet' = 0
NoKey == UNCHANGED <<key, key_pressed_flag, pressed, quiet>>

\* The beginning, or a wait that is over and another step to take.
InputGoesOn ==
  /\ input_at = 0 \/ (input_at \in 1..Len(Script) - 1 /\ Expired(input_timer))
  /\ input_at' = input_at + 1
  /\ input_timer' = Set(Script[input_at'].wait)
  /\ IF Script[input_at'].key = "none" THEN NoKey ELSE press_key(Script[input_at'].key)
  /\ polled' = {} /\ UNCHANGED turn
InputWaits ==
  /\ input_at # 0 /\ ~Expired(input_timer)
  /\ turn' = "codelock" /\ polled' = polled \cup {"input"}
  /\ NoKey /\ UNCHANGED <<input_at, input_timer>>
\* PT_END: it would begin again.
InputEnds ==
  /\ input_at = Len(Script) /\ Expired(input_timer)
  /\ input_at' = 0 /\ turn' = "codelock" /\ polled' = {}
  /\ NoKey /\ UNCHANGED input_timer

input_thread ==
  /\ turn = "input" /\ scripted
  /\ InputGoesOn \/ InputWaits \/ InputEnds
  /\ UNCHANGED codelockVars

\* A keyboard in its place: a key, or none, at each call.
Keyboard ==
  /\ turn = "input" /\ ~scripted /\ turn' = "codelock"
  /\ \/ /\ input_at < Len(Keys)
        /\ \E k \in Keys[input_at + 1] : press_key(k)
        /\ input_at' = input_at + 1 /\ polled' = {}
     \/ NoKey /\ UNCHANGED input_at /\ polled' = polled \cup {"input"}
  /\ UNCHANGED <<codelockVars, input_timer>>

Later(timer) ==
  [timer EXCEPT !.elapsed = IF Expired(timer) THEN timer.elapsed ELSE timer.elapsed + 1]

\* 100 ms pass.
Tick ==
  /\ turn # "returned"
  /\ \/ polled = {"codelock", "input"} /\ UNCHANGED late
     \/ polled # {"codelock", "input"} /\ late < MaxLate /\ late' = late + 1
  /\ codelock_timer' = Later(codelock_timer)
  /\ input_timer' = Later(input_timer)
  /\ polled' = {}
  /\ quiet' = IF quiet < 10 THEN quiet + 1 ELSE quiet
  /\ UNCHANGED <<turn, codelock_at, keys, input_at, key, key_pressed_flag, scripted,
                 pressed>>

Program == codelock_thread \/ input_thread
Next == Program \/ Keyboard \/ Tick
Spec == Init /\ [][Next]_vars /\ WF_vars(Program) /\ WF_vars(Tick)

-----------------------------------------------------------------------------
(* The type invariant; the counter of keys agrees with the place in the     *)
(* protothread, which does not keep its stack.                              *)
TypeOK ==
  /\ turn \in {"codelock", "input", "returned"}
  /\ codelock_at \in {"first", "next", "final", "late", "check", "opening"}
  /\ keys \in 0..Len(code)
  /\ codelock_at = "first" => keys = 0 \/ turn = "returned"
  /\ codelock_at \in {"next", "late"} => keys \in 1..Len(code) - 1
  /\ codelock_at \in {"final", "opening"} => keys = Len(code)
  /\ key_pressed_flag \in {0, 1} /\ polled \subseteq {"codelock", "input"}

Opened == turn = "returned"

\* The four keys up to the n-th are the code; less than a second apart; and
\* for half a second no other came.
IsCode(n) == n > 3 /\ \A k \in 1..4 : pressed[n - 4 + k].key = code[k]
InTime(n) == \A k \in 0..2 : pressed[n - k].gap < 10
IsLeft(n) == (IF n = Len(pressed) THEN quiet ELSE pressed[n + 1].gap) >= 5

(* Lines 37 to 43.  The lock opens only for the code, its keys the last     *)
(* ones pressed but for a key that came in the final wait and was noticed   *)
(* after it, which is overlooked because line 234 asks the clock and not    *)
(* key_pressed: one key, and one more for each time the process was held    *)
(* up.  While it is not, each key came within a second and no other in the  *)
(* final half second.                                                       *)
OpensOnlyOnCode ==
  Opened => \E n \in Len(pressed) - 1 - late..Len(pressed) :
              IsCode(n) /\ (late = 0 => InTime(n) /\ IsLeft(n))

(* A key is looked at before the next one takes its place in the variable   *)
(* they share, unless the process is held up.  Lines 100-118.               *)
EveryKeyIsSeen == [][(late = 0 /\ key_pressed_flag' = 1) => key_pressed_flag = 0]_pressed

(* The simulated user, who errs in every way the code lock knows, opens the *)
(* lock in the end, held up or not.  Lines 260-350.                         *)
ScriptOpens == scripted ~> Opened
=============================================================================
