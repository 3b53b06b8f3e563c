---------------------------- MODULE Subproc_proofs ----------------------------
(* The timed wait of konoha.subproc is safe for any number of objects and     *)
(* process identifiers, and for every order of the methods, the timer, the    *)
(* terminal and the children.                                                 *)
EXTENDS Subproc, TLAPS

-----------------------------------------------------------------------------
(* Types.  Between the first and the last system call of a method, call says  *)
(* which child it waits for.                                                  *)
WaitingCall == [op : {"fg", "exec", "communicate"}, obj : Obj, pid : Pid]
CallKnown == pc \in InWait \cup {"write"} => call \in WaitingCall
TypeInv == TypeOK /\ CallKnown

(* The timer runs from setitimer to the end of the wait; alarmHandler is      *)
(* installed a little later and taken away after the timer; what it replaced  *)
(* is never itself.                                                           *)
TimerInv ==
  /\ armed => pc \in {"sigalrm", "waitpid", "disarm", "dead"}
  /\ sigalrm = "alarmHandler" =>
       pc \in {"waitpid", "disarm", "alarmback", "timeout", "dead"}
  /\ oldset.alarm # "alarmHandler"

Data == [alive : BOOLEAN, cpid : Pid \cup {-1}, bg : BOOLEAN, timeoutKill : BOOLEAN,
         mode : [Stream -> Mode], fp : [Stream -> {"NULL", "open", "stale"}]]

LEMMA FreshTyped == Fresh \in Data /\ Gone \in Data
<1>1. Fresh \in Data
  BY DEF Fresh, Data, Stream, Mode
<1>2. QED
  BY <1>1 DEF Gone, Data

LEMMA ModeTyped ==
  ASSUME NEW d \in Data, NEW s \in Stream, NEW n \in Mode
  PROVE  [d EXCEPT !.mode[s] = n] \in Data
BY DEF Data

LEMMA FpTyped ==
  ASSUME NEW d \in Data, NEW s \in Stream, NEW f \in {"NULL", "open", "stale"}
  PROVE  [d EXCEPT !.fp[s] = f] \in Data
BY DEF Data

LEMMA clearFdTyped == ASSUME NEW d \in Data PROVE clearFd(d) \in Data
BY DEF clearFd, Data

LEMMA RecordedTyped ==
  ASSUME NEW d \in Data, NEW op, NEW i \in Pid
  PROVE  Recorded(Opened(d, op), op, i) \in Data
<1>1. Opened(d, op) \in Data
  BY DEF Opened, Data
<1>2. ASSUME NEW e \in Data PROVE Recorded(e, op, i) \in Data
  BY DEF Recorded, Data
<1>3. QED
  BY <1>1, <1>2

(* The variables a step leaves alone keep their types. *)
KernelTyped == /\ proc \in [Pid -> Child \cup {"free", "foreign"}]
               /\ started \in [Pid -> Obj \cup {NoOne}] /\ condemned \subseteq Pid
SignalsTyped == /\ armed \in BOOLEAN
                /\ sigalrm \in {"DFL", "alarmHandler"} /\ sigint \in {"DFL", "keyIntHandler"}
                /\ oldset \in [alarm : {"ERR", "DFL", "alarmHandler"},
                               keyInt : {"ERR", "DFL", "keyIntHandler"}]
                /\ fgPid \in Pid \cup {0}
ControlTyped == /\ pc \in InWait \cup {"idle", "write", "dead"}
                /\ call \in WaitingCall \cup {NoCall}
                /\ CallKnown

LEMMA TypeParts ==
  /\ TypeInv <=> sub \in [Obj -> Data] /\ KernelTyped /\ SignalsTyped /\ ControlTyped
  /\ TypeInv' <=> sub' \in [Obj -> Data] /\ KernelTyped' /\ SignalsTyped' /\ ControlTyped'
BY DEF TypeInv, TypeOK, Data, KernelTyped, SignalsTyped, ControlTyped, WaitingCall

LEMMA TypeInit == Init => TypeInv
<1> SUFFICES ASSUME Init PROVE TypeInv
  OBVIOUS
<1>1. sub \in [Obj -> Data]
  BY FreshTyped DEF Init
<1>2. KernelTyped
  BY DEF Init, KernelTyped, NoOne
<1>3. SignalsTyped
  BY DEF Init, SignalsTyped, NoHandlers
<1>4. ControlTyped
  BY DEF Init, ControlTyped, CallKnown, InWait
<1>5. QED
  BY <1>1, <1>2, <1>3, <1>4, TypeParts

LEMMA ReapedTyped ==
  ASSUME KernelTyped, NEW i \in Pid, Reaped(i) PROVE KernelTyped'
BY DEF KernelTyped, Reaped

LEMMA TypeStep == TypeInv /\ TimerInv /\ [Next]_vars => TypeInv'
<1> SUFFICES ASSUME sub \in [Obj -> Data], KernelTyped, SignalsTyped, ControlTyped,
                    TimerInv, [Next]_vars
             PROVE  sub' \in [Obj -> Data] /\ KernelTyped' /\ SignalsTyped' /\ ControlTyped'
  BY TypeParts
<1>k. UNCHANGED kernel => KernelTyped'
  BY DEF kernel, KernelTyped
<1>s. UNCHANGED signals => SignalsTyped'
  BY DEF signals, SignalsTyped
<1>c. ASSUME UNCHANGED call,
             \/ pc' = pc \/ pc' \in {"idle", "dead"}
             \/ pc \in InWait \cup {"write"} /\ pc' \in InWait \cup {"write"}
      PROVE  ControlTyped'
  BY <1>c DEF ControlTyped, CallKnown, InWait
<1>i. ASSUME pc' \in {"idle", "dead"}, call' = NoCall PROVE ControlTyped'
  BY <1>i DEF ControlTyped, CallKnown, InWait
<1>w. call \in WaitingCall => call.obj \in Obj /\ call.pid \in Pid
  BY DEF WaitingCall
<1>1. ASSUME NEW o \in Obj, Subproc_new(o) \/ Subproc_free(o)
      PROVE  sub' \in [Obj -> Data] /\ KernelTyped' /\ SignalsTyped' /\ ControlTyped'
  BY <1>1, <1>s, <1>c, FreshTyped
     DEF Subproc_new, Subproc_free, KernelTyped, kernel, signals
<1>2. ASSUME NEW o \in Obj, NEW s \in Settable, NEW m \in {"PIPE", "NREDIRECT"},
             NEW on \in BOOLEAN, Enable(o, s, m, on)
      PROVE  sub' \in [Obj -> Data] /\ KernelTyped' /\ SignalsTyped' /\ ControlTyped'
  <2>1. s \in Stream /\ m \in Mode /\ "DEFAULT" \in Mode
    BY SubprocAssumption DEF Stream, Mode
  <2>2. sub' \in [Obj -> Data]
    <3>1. ASSUME NEW e \in [Obj -> Data], NEW n \in Mode
          PROVE  [e EXCEPT ![o].mode[s] = n] \in [Obj -> Data]
      <4>1. [e[o] EXCEPT !.mode[s] = n] \in Data
        BY <2>1, ModeTyped
      <4>2. QED
        BY <4>1
    <3>2. ASSUME NEW e \in [Obj -> Data]
          PROVE  [e EXCEPT ![o].fp[s] = "NULL"] \in [Obj -> Data]
      <4>1. [e[o] EXCEPT !.fp[s] = "NULL"] \in Data
        BY <2>1, FpTyped
      <4>2. QED
        BY <4>1
    <3> DEFINE n == IF on THEN m ELSE "DEFAULT"
               e == [sub EXCEPT ![o].mode[s] = n]
    <3>3. n \in Mode
      BY <2>1
    <3>4. e \in [Obj -> Data]
      BY <3>1, <3>3
    <3>5. sub' = [e EXCEPT ![o].fp[s] = "NULL"]
      BY <1>2 DEF Enable
    <3>6. QED
      BY <3>2, <3>4, <3>5
  <2>3. QED
    BY <1>2, <2>2, <1>k, <1>s, <1>c DEF Enable
<1>3. ASSUME NEW o \in Obj, NEW op \in {"fg", "bg", "exec"}, Start(o, op)
      PROVE  sub' \in [Obj -> Data] /\ KernelTyped' /\ SignalsTyped' /\ ControlTyped'
  <2>1. PICK i \in Pid :
          /\ Forked(i, o, op)
          /\ sub' = [sub EXCEPT ![o] = Recorded(Opened(@, op), op, i)]
          /\ IF op = "bg" THEN UNCHANGED <<pc, call>>
             ELSE pc' = "sigint" /\ call' = [op |-> op, obj |-> o, pid |-> i]
    BY <1>3 DEF Start
  <2>2. sub' \in [Obj -> Data]
    BY <2>1, RecordedTyped
  <2>3. KernelTyped'
    BY <2>1 DEF Forked, KernelTyped, Child
  <2>4. ControlTyped'
    BY <2>1, <1>c DEF ControlTyped, CallKnown, WaitingCall, InWait
  <2>5. QED
    BY <1>3, <2>2, <2>3, <2>4, <1>s DEF Start
<1>4. ASSUME NEW o \in Obj, NEW op \in {"fg", "bg", "exec"}, StartFails(o, op)
      PROVE  sub' \in [Obj -> Data] /\ KernelTyped' /\ SignalsTyped' /\ ControlTyped'
  <2> DEFINE d == [sub[o] EXCEPT !.timeoutKill = FALSE,
                                 !.bg = IF op = "exec" THEN @ ELSE op = "bg"]
  <2>1. d \in Data
    BY DEF Data
  <2>2. \/ sub' = [sub EXCEPT ![o] = d]
        \/ \E q \in Obj, s \in Stream :
             sub' = [sub EXCEPT ![o] = d, ![q].fp[s] = "stale"]
    BY <1>4 DEF StartFails
  <2>3. sub' \in [Obj -> Data]
    <3> DEFINE e == [sub EXCEPT ![o] = d]
    <3>1. e \in [Obj -> Data]
      BY <2>1
    <3> HIDE DEF e, d
    <3>2. ASSUME NEW q \in Obj, NEW s \in Stream
          PROVE  [e EXCEPT ![q].fp[s] = "stale"] \in [Obj -> Data]
      <4>1. [e[q] EXCEPT !.fp[s] = "stale"] \in Data
        BY <3>1, FpTyped
      <4>2. QED
        BY <3>1, <4>1
    <3>3. QED
      BY <2>2, <3>1, <3>2 DEF e
  <2>4. QED
    BY <1>4, <2>3, <1>k, <1>s, <1>c DEF StartFails
<1>5. ASSUME NEW o \in Obj, Communicate(o)
      PROVE  sub' \in [Obj -> Data] /\ KernelTyped' /\ SignalsTyped' /\ ControlTyped'
  <2>1. sub[o].cpid \in Pid
    BY <1>5, SubprocAssumption DEF Communicate, ONEXEC, Data
  <2>2. ControlTyped'
    BY <1>5, <2>1 DEF Communicate, WaitOf, ControlTyped, CallKnown, WaitingCall, InWait
  <2>3. QED
    BY <1>5, <2>2, <1>k, <1>s DEF Communicate
<1>6. CASE Written
  BY <1>6, <1>k, <1>s, <1>c DEF Written, WaitOf, InWait
<1>7. CASE SetSigint
  <2>1. SignalsTyped'
    BY <1>7, <1>w DEF SetSigint, SignalsTyped, ControlTyped, CallKnown, InWait
  <2>2. QED
    BY <1>7, <2>1, <1>k, <1>c DEF SetSigint, InWait
<1>8. CASE Setitimer \/ SetSigalrm \/ Disarm \/ RestoreSigalrm \/ RestoreSigint \/ Timeout
  <2>1. SignalsTyped'
    BY <1>8 DEF Setitimer, SetSigalrm, Disarm, RestoreSigalrm, RestoreSigint, Timeout,
                SignalsTyped, Saved
  <2>2. QED
    BY <1>8, <2>1, <1>k, <1>c
       DEF Setitimer, SetSigalrm, Disarm, RestoreSigalrm, RestoreSigint, Timeout, InWait
<1>9. CASE Waitpid
  <2>1. call.pid \in Pid
    BY <1>9, <1>w DEF Waitpid, ControlTyped, CallKnown, InWait
  <2>2. KernelTyped'
    <3>1. CASE Reaped(call.pid)
      BY <2>1, <3>1, ReapedTyped
    <3>2. CASE proc' = [proc EXCEPT ![call.pid] = "stopseen"] /\ UNCHANGED <<started, condemned>>
      BY <3>2 DEF KernelTyped, Child
    <3>3. QED
      BY <1>9, <3>1, <3>2, <1>k DEF Waitpid
  <2>3. QED
    BY <1>9, <2>2, <1>s, <1>c DEF Waitpid, InWait
<1>10. CASE Return
  <2>1. call.obj \in Obj
    BY <1>10, <1>w DEF Return, ControlTyped, CallKnown, InWait
  <2>2. sub' \in [Obj -> Data]
    BY <1>10, <2>1, clearFdTyped DEF Return
  <2>3. SignalsTyped'
    BY <1>10 DEF Return, SignalsTyped, NoHandlers
  <2>4. QED
    BY <1>10, <2>2, <2>3, <1>k, <1>i DEF Return
<1>11. CASE Alarm
  <2>1. SignalsTyped'
    BY <1>11 DEF Alarm, SignalsTyped
  <2>2. QED
    BY <1>11, <2>1, <1>k, <1>c DEF Alarm, TimerInv, InWait
<1>12. CASE Kill
  <2>1. call.obj \in Obj /\ call.pid \in Pid
    BY <1>12, <1>w DEF Kill, ControlTyped, CallKnown, InWait
  <2>2. sub' \in [Obj -> Data]
    BY <1>12, <2>1 DEF Kill, Data
  <2>3. KernelTyped'
    BY <1>12, <2>1 DEF Kill, KernelTyped, Child
  <2>4. QED
    BY <1>12, <2>2, <2>3, <1>s, <1>c DEF Kill, InWait
<1>13. CASE Poll
  <2>1. call.obj \in Obj /\ call.pid \in Pid
    BY <1>13, <1>w DEF Poll, ControlTyped, CallKnown, InWait
  <2>2. sub' \in [Obj -> Data]
    BY <1>13, <2>1, clearFdTyped DEF Poll
  <2>3. KernelTyped'
    BY <1>13, <2>1, <1>k, ReapedTyped DEF Poll
  <2>4. SignalsTyped'
    BY <1>13 DEF Poll, SignalsTyped, NoHandlers
  <2>5. QED
    BY <1>13, <2>2, <2>3, <2>4, <1>i DEF Poll
<1>14. CASE Interrupt
  <2>1. KernelTyped'
    BY <1>14 DEF Interrupt, KernelTyped, Child
  <2>2. QED
    BY <1>14, <2>1, <1>s, <1>c DEF Interrupt
<1>15. ASSUME NEW i \in Pid, ChildEnds(i) \/ ChildStops(i) \/ ChildContinues(i) \/ Stranger(i)
       PROVE  sub' \in [Obj -> Data] /\ KernelTyped' /\ SignalsTyped' /\ ControlTyped'
  <2>1. KernelTyped'
    BY <1>15 DEF ChildEnds, ChildStops, ChildContinues, Stranger, KernelTyped, Child
  <2>2. QED
    BY <1>15, <2>1, <1>s, <1>c DEF ChildEnds, ChildStops, ChildContinues, Stranger
<1>16. CASE UNCHANGED vars
  BY <1>16, <1>k, <1>s, <1>c DEF vars, kernel, signals
<1>17. QED
  BY <1>1, <1>2, <1>3, <1>4, <1>5, <1>6, <1>7, <1>8, <1>9, <1>10, <1>11, <1>12, <1>13,
     <1>14, <1>15, <1>16 DEF Next, knh_wait

-----------------------------------------------------------------------------
LEMMA TimerInit == Init => TimerInv
BY DEF Init, TimerInv, NoHandlers

LEMMA TimerStep == TypeInv /\ TimerInv /\ [Next]_vars => TimerInv'
<1> SUFFICES ASSUME SignalsTyped, TimerInv, [Next]_vars PROVE TimerInv'
  BY TypeParts
<1>1. ASSUME UNCHANGED signals, pc \in {"idle", "write", "sigint", "return", "poll", "kill"}
               \/ pc' \in {pc, "dead"}
      PROVE  TimerInv'
  BY <1>1 DEF signals, TimerInv
<1>2. ASSUME NEW o \in Obj,
             \/ Subproc_new(o) \/ Subproc_free(o) \/ Communicate(o)
             \/ \E op \in {"fg", "bg", "exec"} : Start(o, op) \/ StartFails(o, op)
             \/ \E s \in Settable, m \in {"PIPE", "NREDIRECT"}, on \in BOOLEAN :
                  Enable(o, s, m, on)
      PROVE  TimerInv'
  BY <1>1, <1>2 DEF Subproc_new, Subproc_free, Communicate, ONEXEC, Start, StartFails,
                    Enable, PREEXEC
<1>3. CASE Written \/ Kill \/ Interrupt
  BY <1>1, <1>3 DEF Written, Kill, Interrupt
<1>4. CASE SetSigint
  BY <1>4 DEF SetSigint, TimerInv, SignalsTyped
<1>5. CASE Setitimer
  BY <1>5 DEF Setitimer, TimerInv
<1>6. CASE SetSigalrm
  BY <1>6 DEF SetSigalrm, TimerInv, SignalsTyped
<1>7. CASE Waitpid
  BY <1>7 DEF Waitpid, TimerInv, signals
<1>8. CASE Disarm
  BY <1>8 DEF Disarm, TimerInv
<1>9. CASE RestoreSigalrm \/ RestoreSigint
  BY <1>9 DEF RestoreSigalrm, RestoreSigint, TimerInv, Saved
<1>10. CASE Return \/ Poll
  BY <1>10 DEF Return, Poll, TimerInv, NoHandlers
<1>11. CASE Alarm
  BY <1>11 DEF Alarm, TimerInv
<1>12. CASE Timeout
  BY <1>12 DEF Timeout, TimerInv, Saved
<1>13. CASE \/ \E i \in Pid : ChildEnds(i) \/ ChildStops(i) \/ ChildContinues(i) \/ Stranger(i)
            \/ UNCHANGED vars
  BY <1>1, <1>13 DEF ChildEnds, ChildStops, ChildContinues, Stranger, vars, signals
<1>14. QED
  BY <1>2, <1>3, <1>4, <1>5, <1>6, <1>7, <1>8, <1>9, <1>10, <1>11, <1>12, <1>13
     DEF Next, knh_wait

LEMMA Waiting == Spec => [](TypeInv /\ TimerInv)
BY TypeInit, TypeStep, TimerInit, TimerStep, PTL DEF Spec

(* Types hold in every reachable state: whatever value of the local variable  *)
(* alarm_oldset is seen behind the longjmp, SIGALRM does not get SIG_ERR.     *)
THEOREM TypeCorrect == Spec => []TypeOK
<1>1. TypeInv => TypeOK
  BY DEF TypeInv
<1>2. QED
  BY <1>1, Waiting, PTL

(* The timer and its handler never outlive the wait that set them up, in      *)
(* whichever way it ended: no siglongjmp into a frame that has returned.      *)
THEOREM TimerEndsWithWait == Spec => []AlarmOnlyInWait
<1>1. TimerInv => AlarmOnlyInWait
  BY DEF TimerInv, AlarmOnlyInWait
<1>2. QED
  BY <1>1, Waiting, PTL
-----------------------------------------------------------------------------
(* A child whose time was up was sent SIGKILL: until it is reaped nothing but *)
(* its end happens to it, whatever identifiers the kernel uses again.         *)
Doomed == \A i \in condemned : proc[i] \in {"dying", "zombie"}

LEMMA DoomedStep == TypeInv /\ TypeInv' /\ Doomed /\ [Next]_vars => Doomed'
<1> SUFFICES ASSUME KernelTyped, ControlTyped, Doomed, [Next]_vars PROVE Doomed'
  BY TypeParts
<1>1. ASSUME UNCHANGED <<proc, condemned>> PROVE Doomed'
  BY <1>1 DEF Doomed
<1>2. ASSUME NEW i \in Pid, Reaped(i) PROVE Doomed'
  BY <1>2 DEF Doomed, Reaped, KernelTyped
<1>3. ASSUME NEW o \in Obj, NEW op \in {"fg", "bg", "exec"}, Start(o, op) PROVE Doomed'
  BY <1>3 DEF Start, Forked, Doomed, KernelTyped
<1>4. ASSUME NEW o \in Obj,
             \/ Subproc_new(o) \/ Subproc_free(o) \/ Communicate(o)
             \/ \E op \in {"fg", "bg", "exec"} : StartFails(o, op)
             \/ \E s \in Settable, m \in {"PIPE", "NREDIRECT"}, on \in BOOLEAN :
                  Enable(o, s, m, on)
      PROVE  Doomed'
  BY <1>1, <1>4 DEF Subproc_new, Subproc_free, Communicate, StartFails, Enable, kernel
<1>5. CASE \/ Written \/ SetSigint \/ Setitimer \/ SetSigalrm \/ Disarm \/ RestoreSigalrm
           \/ RestoreSigint \/ Return \/ Timeout \/ Alarm \/ UNCHANGED vars
  BY <1>1, <1>5 DEF Written, SetSigint, Setitimer, SetSigalrm, Disarm, RestoreSigalrm,
                    RestoreSigint, Return, Timeout, Alarm, vars, kernel
<1>6. CASE Waitpid
  <2>1. call.pid \in Pid
    BY <1>6 DEF Waitpid, ControlTyped, CallKnown, InWait, WaitingCall
  <2>2. CASE proc[call.pid] = "stopped" /\ proc' = [proc EXCEPT ![call.pid] = "stopseen"]
             /\ UNCHANGED condemned
    BY <2>1, <2>2 DEF Doomed, KernelTyped
  <2>3. QED
    BY <1>1, <1>2, <1>6, <2>1, <2>2 DEF Waitpid, kernel
<1>7. CASE Kill
  <2>1. call.pid \in Pid
    BY <1>7 DEF Kill, ControlTyped, CallKnown, InWait, WaitingCall
  <2>2. \A i \in condemned' : proc[i] \in {"dying", "zombie"} \/ (i = call.pid /\ proc[i] \in Child)
    BY <1>7 DEF Kill, Doomed
  <2>3. condemned' \subseteq Pid
    BY <1>7, <2>1 DEF Kill, KernelTyped
  <2>4. QED
    BY <1>7, <2>1, <2>2, <2>3 DEF Kill, Victim, Doomed, Child
<1>8. CASE Poll
  <2>1. call.pid \in Pid
    BY <1>8 DEF Poll, ControlTyped, CallKnown, InWait, WaitingCall
  <2>2. QED
    BY <1>1, <1>2, <1>8, <2>1 DEF Poll, kernel
<1>9. CASE Interrupt
  BY <1>9 DEF Interrupt, Doomed, KernelTyped
<1>10. ASSUME NEW i \in Pid, ChildEnds(i) \/ ChildStops(i) \/ ChildContinues(i) \/ Stranger(i)
       PROVE  Doomed'
  BY <1>10 DEF ChildEnds, ChildStops, ChildContinues, Stranger, Doomed, KernelTyped
<1>11. QED
  BY <1>3, <1>4, <1>5, <1>6, <1>7, <1>8, <1>9, <1>10 DEF Next, knh_wait

(* No child whose time was up runs on behind the method that waited for it.   *)
THEOREM LateChildrenStop == Spec => []TimedOutStops
<1>1. Init => Doomed
  BY DEF Init, Doomed
<1>2. Doomed => TimedOutStops
  BY DEF Doomed, TimedOutStops
<1>3. QED
  BY <1>1, <1>2, DoomedStep, Waiting, PTL DEF Spec

-----------------------------------------------------------------------------
(* What an object records of its child.  An object that is free has none, as  *)
(* has one that fg and bg may start.                                          *)
KnownInv == ChildKnown /\ \A o \in Obj : ~sub[o].alive => sub[o].cpid = -1

LEMMA RecordedCpid ==
  ASSUME NEW d \in Data, NEW op, NEW i \in Pid
  PROVE  LET e == Recorded(Opened(d, op), op, i) IN
         /\ e.alive = d.alive /\ e.mode = d.mode
         /\ e.cpid = IF op = "exec" THEN d.cpid ELSE i
         /\ \A s \in Stream : e.fp[s] = IF Piped(d, op, s) THEN "open" ELSE d.fp[s]
<1>1. Opened(d, op).cpid = d.cpid /\ Opened(d, op).alive = d.alive
      /\ Opened(d, op).mode = d.mode
      /\ Opened(d, op).fp = [s \in Stream |-> IF Piped(d, op, s) THEN "open" ELSE d.fp[s]]
      /\ Opened(d, op) \in Data
  BY DEF Opened, Data
<1>2. ASSUME NEW e \in Data
      PROVE  /\ Recorded(e, op, i).alive = e.alive /\ Recorded(e, op, i).mode = e.mode
             /\ Recorded(e, op, i).cpid = (IF op = "exec" THEN e.cpid ELSE i)
             /\ Recorded(e, op, i).fp = e.fp
  BY DEF Recorded, Data
<1>3. QED
  BY <1>1, <1>2

(* Some object's record changed, in nothing that says which child it has.     *)
LEMMA SameChildren ==
  ASSUME TypeInv, TypeInv', KnownInv, started' = started,
         \A o \in Obj : sub'[o].cpid = sub[o].cpid /\ sub'[o].alive = sub[o].alive,
         \A i \in Pid : proc'[i] \in Child => proc[i] \in Child
  PROVE  KnownInv'
BY TypeParts DEF KnownInv, ChildKnown, KernelTyped

LEMMA KnownReaped ==
  ASSUME TypeInv, KnownInv, NEW i \in Pid, Reaped(i), sub' = sub PROVE KnownInv'
BY TypeParts DEF KnownInv, ChildKnown, Reaped, KernelTyped, Child

LEMMA KnownStep == TypeInv /\ TypeInv' /\ KnownInv /\ [Next]_vars => KnownInv'
<1> SUFFICES ASSUME TypeInv, TypeInv', KnownInv, [Next]_vars PROVE KnownInv'
  OBVIOUS
<1>t. sub \in [Obj -> Data] /\ KernelTyped /\ ControlTyped
  BY TypeParts
<1>w. pc \in InWait => call.pid \in Pid /\ call.obj \in Obj
  BY <1>t DEF ControlTyped, CallKnown, WaitingCall
<1>n. -1 \notin Pid
  BY SubprocAssumption
<1>1. ASSUME NEW o \in Obj, Subproc_new(o) PROVE KnownInv'
  <2>1. sub' = [sub EXCEPT ![o] = Fresh] /\ ~sub[o].alive /\ UNCHANGED <<proc, started>>
    BY <1>1 DEF Subproc_new, kernel
  <2>2. Fresh.cpid = -1 /\ Fresh.alive /\ sub[o].cpid = -1
    BY <2>1 DEF Fresh, KnownInv
  <2>3. QED
    BY <1>t, <2>1, <2>2 DEF KnownInv, ChildKnown, KernelTyped
<1>2. ASSUME NEW o \in Obj, Subproc_free(o) PROVE KnownInv'
  <2>1. Gone.cpid = -1
    BY DEF Gone, Fresh
  <2>2. QED
    BY <1>2, <1>t, <2>1 DEF Subproc_free, KnownInv, ChildKnown, KernelTyped, NoOne
<1>3. ASSUME NEW o \in Obj, NEW op \in {"fg", "bg", "exec"}, Start(o, op) PROVE KnownInv'
  <2>1. PICK i \in Pid : Forked(i, o, op) /\ sub' = [sub EXCEPT ![o] = Recorded(Opened(@, op), op, i)]
    BY <1>3 DEF Start
  <2>2. /\ sub'[o].cpid = (IF op = "exec" THEN -1 ELSE i) /\ sub[o].cpid = -1
        /\ sub'[o].alive /\ \A q \in Obj \ {o} : sub'[q] = sub[q]
    BY <1>3, <1>t, <2>1, RecordedCpid DEF Start, PREEXEC
  <2>3. ASSUME NEW j \in Pid, proc'[j] \in Child, started'[j] # NoOne
        PROVE  sub'[started'[j]].cpid = j
    <3>1. CASE j = i
      BY <1>t, <2>1, <2>2, <2>3, <3>1 DEF Forked, KernelTyped
    <3>2. CASE j # i
      <4>1. proc[j] \in Child /\ started'[j] = started[j] /\ started[j] \in Obj
        BY <1>t, <2>1, <2>3, <3>2 DEF Forked, KernelTyped
      <4>2. sub[started[j]].cpid = j
        BY <2>3, <4>1 DEF KnownInv, ChildKnown
      <4>3. started[j] # o
        BY <1>n, <2>2, <4>2
      <4>4. QED
        BY <2>2, <4>1, <4>2, <4>3
    <3>3. QED
      BY <3>1, <3>2
  <2>4. \A q \in Obj : ~sub'[q].alive => sub'[q].cpid = -1
    BY <2>2 DEF KnownInv
  <2>5. QED
    BY <2>3, <2>4 DEF KnownInv, ChildKnown
<1>4. ASSUME NEW o \in Obj, NEW op \in {"fg", "bg", "exec"}, StartFails(o, op) PROVE KnownInv'
  <2> DEFINE d == [sub[o] EXCEPT !.timeoutKill = FALSE,
                                 !.bg = IF op = "exec" THEN @ ELSE op = "bg"]
  <2>1. d.cpid = sub[o].cpid /\ d.alive = sub[o].alive /\ d \in Data
    BY <1>t DEF Data
  <2>2. \/ sub' = [sub EXCEPT ![o] = d]
        \/ \E q \in Obj, s \in Stream :
             sub' = [sub EXCEPT ![o] = d, ![q].fp[s] = "stale"]
    BY <1>4 DEF StartFails
  <2>3. \A q \in Obj : sub'[q].cpid = sub[q].cpid /\ sub'[q].alive = sub[q].alive
    <3> DEFINE e == [sub EXCEPT ![o] = d]
    <3>1. e \in [Obj -> Data] /\ \A q \in Obj : e[q].cpid = sub[q].cpid /\ e[q].alive = sub[q].alive
      BY <1>t, <2>1
    <3> HIDE DEF e, d
    <3>2. \A p \in Obj, s \in Stream, q \in Obj :
            LET f == [e EXCEPT ![p].fp[s] = "stale"]
            IN f[q].cpid = e[q].cpid /\ f[q].alive = e[q].alive
      BY <3>1 DEF Data
    <3>3. CASE sub' = e
      BY <3>1, <3>3
    <3>4. CASE \E p \in Obj, s \in Stream : sub' = [e EXCEPT ![p].fp[s] = "stale"]
      BY <3>1, <3>2, <3>4
    <3>5. QED
      BY <2>2, <3>3, <3>4 DEF e
  <2>4. QED
    BY <1>4, <2>3, SameChildren DEF StartFails, kernel
<1>5. ASSUME NEW o \in Obj, NEW s \in Settable, NEW m \in {"PIPE", "NREDIRECT"},
             NEW on \in BOOLEAN, Enable(o, s, m, on)
      PROVE  KnownInv'
  <2>1. \A q \in Obj : sub'[q].cpid = sub[q].cpid /\ sub'[q].alive = sub[q].alive
    BY <1>5, <1>t DEF Enable, Data
  <2>2. QED
    BY <1>5, <2>1, SameChildren DEF Enable, kernel
<1>6. ASSUME UNCHANGED <<sub, proc, started>> PROVE KnownInv'
  BY <1>6, SameChildren
<1>7. ASSUME NEW o \in Obj, Communicate(o) PROVE KnownInv'
  BY <1>6, <1>7 DEF Communicate, kernel
<1>8. CASE \/ Written \/ SetSigint \/ Setitimer \/ SetSigalrm \/ Disarm \/ RestoreSigalrm
           \/ RestoreSigint \/ Timeout \/ Alarm \/ UNCHANGED vars
  BY <1>6, <1>8 DEF Written, SetSigint, Setitimer, SetSigalrm, Disarm, RestoreSigalrm,
                    RestoreSigint, Timeout, Alarm, vars, kernel
<1>9. CASE Waitpid
  <2>1. call.pid \in Pid
    BY <1>9, <1>w DEF Waitpid, InWait
  <2>2. CASE /\ proc[call.pid] = "stopped" /\ proc' = [proc EXCEPT ![call.pid] = "stopseen"]
             /\ UNCHANGED <<started, condemned>>
    <3>1. sub' = sub
      BY <1>9 DEF Waitpid
    <3>2. \A i \in Pid : proc'[i] \in Child => proc[i] \in Child
      BY <1>t, <2>1, <2>2 DEF Child, KernelTyped
    <3>3. QED
      BY <2>2, <3>1, <3>2, SameChildren
  <2>3. QED
    BY <1>6, <1>9, <2>1, <2>2, KnownReaped DEF Waitpid, kernel
<1>10. ASSUME NEW d \in Data PROVE clearFd(d).cpid = d.cpid /\ clearFd(d).alive = d.alive
  BY DEF clearFd, Data
<1>11. CASE Return
  <2>1. \A q \in Obj : sub'[q].cpid = sub[q].cpid /\ sub'[q].alive = sub[q].alive
    BY <1>10, <1>11, <1>t DEF Return
  <2>2. QED
    BY <1>11, <2>1, SameChildren DEF Return, kernel
<1>12. CASE Kill
  <2>1. \A q \in Obj : sub'[q].cpid = sub[q].cpid /\ sub'[q].alive = sub[q].alive
    BY <1>12, <1>t DEF Kill, Data
  <2>2. \A i \in Pid : proc'[i] \in Child => proc[i] \in Child
    BY <1>12 DEF Kill, Child
  <2>3. QED
    BY <1>12, <2>1, <2>2, SameChildren DEF Kill
<1>13. CASE Poll
  <2>1. \A q \in Obj : sub'[q].cpid = sub[q].cpid /\ sub'[q].alive = sub[q].alive
    BY <1>10, <1>13, <1>t DEF Poll
  <2>2. CASE UNCHANGED kernel
    BY <2>1, <2>2, SameChildren DEF kernel
  <2>3. CASE Reaped(call.pid)
    <3>1. call.pid \in Pid
      BY <1>13, <1>w DEF Poll, InWait
    <3>2. QED
      BY <1>t, <2>1, <2>3, <3>1 DEF KnownInv, ChildKnown, Reaped, KernelTyped, Child
  <2>4. QED
    BY <1>13, <2>2, <2>3 DEF Poll
<1>14. CASE Interrupt
  <2>1. \A i \in Pid : proc'[i] \in Child => proc[i] \in Child
    BY <1>14, <1>t DEF Interrupt, Child, KernelTyped
  <2>2. QED
    BY <1>14, <2>1, SameChildren DEF Interrupt
<1>15. ASSUME NEW i \in Pid, ChildEnds(i) \/ ChildStops(i) \/ ChildContinues(i) \/ Stranger(i)
       PROVE  KnownInv'
  <2>1. \A j \in Pid : proc'[j] \in Child => proc[j] \in Child
    BY <1>15, <1>t DEF ChildEnds, ChildStops, ChildContinues, Stranger, Child, KernelTyped
  <2>2. QED
    BY <1>15, <2>1, SameChildren DEF ChildEnds, ChildStops, ChildContinues, Stranger
<1>16. QED
  BY <1>1, <1>2, <1>3, <1>4, <1>5, <1>7, <1>8, <1>9, <1>11, <1>12, <1>13, <1>14, <1>15
     DEF Next, knh_wait

(* An object that lives can always name the child it started, until somebody  *)
(* has waited for it: no second fg or bg overwrites cpid.                     *)
THEOREM ChildrenKnown == Spec => []ChildKnown
<1>1. Init => KnownInv
  <2>1. Gone.cpid = -1
    BY DEF Gone, Fresh
  <2>2. QED
    BY <2>1 DEF Init, KnownInv, ChildKnown, Child
<1>2. KnownInv => ChildKnown
  BY DEF KnownInv
<1>3. QED
  BY <1>1, <1>2, KnownStep, Waiting, PTL DEF Spec
-----------------------------------------------------------------------------
(* A piped stream of an object that has a child was opened when the child was *)
(* started: the modes cannot be set any more, and only the end of an exec,    *)
(* which records no child, closes a stream.                                   *)
Opens(d) == d.cpid \in Pid => \A s \in Stream : d.mode[s] = "PIPE" => d.fp[s] # "NULL"
InCall(d, op) ==
  IF op = "exec" THEN d.cpid = -1 /\ (d.mode["r"] # "NREDIRECT" => d.fp["r"] # "NULL")
  ELSE d.cpid \in Pid
StreamInv ==
  /\ \A o \in Obj : Opens(sub[o])
  /\ pc \in InWait \cup {"write"} => InCall(sub[call.obj], call.op)
  /\ pc = "write" => sub[call.obj].mode["w"] = "PIPE" /\ call.op = "communicate"

LEMMA StreamsSame ==
  ASSUME TypeInv, TypeInv', StreamInv,
         \A o \in Obj : /\ sub'[o].cpid = sub[o].cpid /\ sub'[o].mode = sub[o].mode
                        /\ \A s \in Stream : sub[o].fp[s] # "NULL" => sub'[o].fp[s] # "NULL",
         \/ pc' \in {"idle", "dead"}
         \/ pc' = pc /\ call' = call
         \/ pc' \in InWait /\ pc \in InWait \cup {"write"} /\ call' = call
  PROVE  StreamInv'
<1>1. CASE pc' \in {"idle", "dead"}
  BY <1>1 DEF StreamInv, Opens, InWait
<1>2. CASE call' = call /\ pc' \in InWait \cup {"write"} /\ pc \in InWait \cup {"write"}
           /\ (pc' = "write" => pc = "write")
  <2>1. call.obj \in Obj
    BY <1>2, TypeParts DEF ControlTyped, CallKnown, WaitingCall
  <2>2. "r" \in Stream
    BY DEF Stream
  <2>3. QED
    BY <1>2, <2>1, <2>2 DEF StreamInv, Opens, InCall
<1>3. CASE pc' = pc /\ pc \notin InWait \cup {"write"}
  BY <1>3 DEF StreamInv, Opens
<1>4. QED
  BY <1>1, <1>2, <1>3 DEF InWait

LEMMA StreamStep == TypeInv /\ TypeInv' /\ TimerInv /\ StreamInv /\ [Next]_vars => StreamInv'
<1> SUFFICES ASSUME TypeInv, TypeInv', TimerInv, StreamInv, [Next]_vars PROVE StreamInv'
  OBVIOUS
<1>t. sub \in [Obj -> Data] /\ ControlTyped
  BY TypeParts
<1>n. -1 \notin Pid
  BY SubprocAssumption
<1>r. "r" \in Stream
  BY DEF Stream
<1>i. "idle" \notin InWait /\ "write" \notin InWait
  BY DEF InWait
<1>1. ASSUME NEW o \in Obj, Subproc_new(o) \/ Subproc_free(o) PROVE StreamInv'
  <2>1. Fresh.cpid = -1 /\ Gone.cpid = -1
    BY DEF Gone, Fresh
  <2>2. /\ \A q \in Obj : sub'[q] = sub[q] \/ sub'[q].cpid = -1
        /\ pc' = "idle"
    BY <1>1, <1>t, <2>1 DEF Subproc_new, Subproc_free
  <2>3. QED
    BY <1>n, <1>i, <2>2 DEF StreamInv, Opens
<1>2. ASSUME NEW o \in Obj, NEW op \in {"fg", "bg", "exec"}, Start(o, op) PROVE StreamInv'
  <2>1. PICK i \in Pid :
          /\ sub' = [sub EXCEPT ![o] = Recorded(Opened(@, op), op, i)]
          /\ IF op = "bg" THEN UNCHANGED <<pc, call>>
             ELSE pc' = "sigint" /\ call' = [op |-> op, obj |-> o, pid |-> i]
    BY <1>2 DEF Start
  <2> DEFINE d == sub[o]
             e == Recorded(Opened(d, op), op, i)
  <2>2. /\ d \in Data /\ e.mode = d.mode /\ d.cpid = -1
        /\ e.cpid = IF op = "exec" THEN d.cpid ELSE i
        /\ \A s \in Stream : e.fp[s] = IF Piped(d, op, s) THEN "open" ELSE d.fp[s]
    BY <1>2, <1>t, RecordedCpid DEF Start, PREEXEC
  <2>3. /\ sub'[o] = e /\ \A q \in Obj \ {o} : sub'[q] = sub[q]
    BY <1>t, <2>1
  <2> HIDE DEF e, d
  <2>4. \A s \in Stream : e.mode[s] = "PIPE" => e.fp[s] # "NULL"
    BY <2>2 DEF Piped
  <2>5. op = "exec" /\ e.mode["r"] # "NREDIRECT" => e.fp["r"] # "NULL"
    <3>1. d.mode["r"] \in Mode
      BY <1>r, <2>2 DEF Data
    <3>2. QED
      BY <1>r, <2>2, <3>1 DEF Piped, Mode
  <2>6. \A q \in Obj : Opens(sub'[q])
    BY <2>3, <2>4 DEF StreamInv, Opens
  <2>7. CASE op = "bg"
    BY <1>2, <1>i, <2>1, <2>6, <2>7 DEF Start, PREEXEC, StreamInv, Opens
  <2>8. CASE op # "bg"
    <3>1. pc' = "sigint" /\ call'.op = op /\ call'.obj = o
      BY <2>1, <2>8
    <3>2. InCall(sub'[o], op)
      BY <2>2, <2>3, <2>5, <2>8 DEF InCall
    <3>3. QED
      BY <2>6, <3>1, <3>2 DEF StreamInv, Opens, InCall
  <2>9. QED
    BY <2>7, <2>8
<1>3. ASSUME NEW o \in Obj, NEW op \in {"fg", "bg", "exec"}, StartFails(o, op) PROVE StreamInv'
  <2> DEFINE d == [sub[o] EXCEPT !.timeoutKill = FALSE,
                                 !.bg = IF op = "exec" THEN @ ELSE op = "bg"]
             e == [sub EXCEPT ![o] = d]
  <2>1. d.cpid = sub[o].cpid /\ d.mode = sub[o].mode /\ d.fp = sub[o].fp /\ d \in Data
    BY <1>t DEF Data
  <2>2. sub' = e \/ \E q \in Obj, s \in Stream : sub' = [e EXCEPT ![q].fp[s] = "stale"]
    BY <1>3 DEF StartFails
  <2>3. /\ e \in [Obj -> Data]
        /\ \A q \in Obj : e[q].cpid = sub[q].cpid /\ e[q].mode = sub[q].mode /\ e[q].fp = sub[q].fp
    BY <1>t, <2>1
  <2> HIDE DEF e, d
  <2>4. CASE sub' = e
    BY <1>3, <2>3, <2>4, StreamsSame DEF StartFails
  <2>5. CASE \E q \in Obj, s \in Stream : sub' = [e EXCEPT ![q].fp[s] = "stale"]
    <3>1. PICK q \in Obj, s \in Stream : sub' = [e EXCEPT ![q].fp[s] = "stale"]
      BY <2>5
    <3>2. \A z \in Obj : /\ sub'[z].cpid = e[z].cpid /\ sub'[z].mode = e[z].mode
                         /\ \A x \in Stream : e[z].fp[x] # "NULL" => sub'[z].fp[x] # "NULL"
      BY <2>3, <3>1 DEF Data
    <3>3. QED
      BY <1>3, <2>3, <3>2, StreamsSame DEF StartFails
  <2>6. QED
    BY <2>2, <2>4, <2>5
<1>4. ASSUME NEW o \in Obj, NEW s \in Settable, NEW m \in {"PIPE", "NREDIRECT"},
             NEW on \in BOOLEAN, Enable(o, s, m, on)
      PROVE  StreamInv'
  <2>1. /\ sub'[o].cpid = -1 /\ \A q \in Obj \ {o} : sub'[q] = sub[q]
        /\ pc' = "idle"
    BY <1>4, <1>t DEF Enable, PREEXEC, Data
  <2>2. QED
    BY <1>n, <1>i, <2>1 DEF StreamInv, Opens
<1>5. ASSUME NEW o \in Obj, Communicate(o) PROVE StreamInv'
  <2>1. sub[o].cpid \in Pid
    BY <1>5, <1>t, SubprocAssumption DEF Communicate, ONEXEC, Data
  <2>2. /\ sub' = sub /\ call'.op = "communicate" /\ call'.obj = o
        /\ pc' = "write" => sub[o].mode["w"] = "PIPE"
    BY <1>5 DEF Communicate, WaitOf
  <2>3. QED
    BY <2>1, <2>2 DEF StreamInv, InCall, Opens
<1>6. ASSUME sub' = sub,
             \/ pc' \in {"idle", "dead"}
             \/ pc' = pc /\ call' = call
             \/ pc' \in InWait /\ pc \in InWait \cup {"write"} /\ call' = call
      PROVE  StreamInv'
  BY <1>6, StreamsSame
<1>7. CASE Written
  BY <1>6, <1>7 DEF Written, WaitOf, InWait
<1>8. CASE SetSigint \/ Setitimer \/ SetSigalrm \/ Waitpid \/ Disarm \/ RestoreSigalrm
           \/ RestoreSigint \/ Timeout
  BY <1>6, <1>8 DEF SetSigint, Setitimer, SetSigalrm, Waitpid, Disarm, RestoreSigalrm,
                    RestoreSigint, Timeout, InWait
<1>9. CASE Alarm
  BY <1>6, <1>9 DEF Alarm, TimerInv, InWait
<1>10. ASSUME NEW d \in Data PROVE clearFd(d).cpid = d.cpid
  BY DEF clearFd, Data
<1>11. CASE Return \/ Poll
  <2>1. call.obj \in Obj /\ pc' = "idle" /\ pc \in InWait
    BY <1>11, <1>t DEF Return, Poll, ControlTyped, CallKnown, WaitingCall, InWait
  <2>2. \/ sub' = sub
        \/ call.op = "exec" /\ sub' = [sub EXCEPT ![call.obj] = clearFd(@)]
    BY <1>11 DEF Return, Poll
  <2>3. CASE sub' = sub
    BY <1>6, <2>1, <2>3
  <2>4. CASE call.op = "exec" /\ sub' = [sub EXCEPT ![call.obj] = clearFd(@)]
    <3>1. sub[call.obj].cpid = -1
      BY <2>1, <2>4 DEF StreamInv, InCall
    <3>2. sub'[call.obj].cpid = -1 /\ \A q \in Obj \ {call.obj} : sub'[q] = sub[q]
      BY <1>10, <1>t, <2>1, <2>4, <3>1
    <3>3. QED
      BY <1>n, <1>i, <2>1, <3>2 DEF StreamInv, Opens
  <2>5. QED
    BY <2>2, <2>3, <2>4
<1>12. CASE Kill
  <2>1. \A q \in Obj : sub'[q].cpid = sub[q].cpid /\ sub'[q].mode = sub[q].mode
                       /\ sub'[q].fp = sub[q].fp
    BY <1>12, <1>t DEF Kill, Data
  <2>2. QED
    BY <1>12, <2>1, StreamsSame DEF Kill, InWait
<1>13. CASE Interrupt
  BY <1>6, <1>13 DEF Interrupt
<1>14. ASSUME NEW i \in Pid, ChildEnds(i) \/ ChildStops(i) \/ ChildContinues(i) \/ Stranger(i)
       PROVE  StreamInv'
  BY <1>6, <1>14 DEF ChildEnds, ChildStops, ChildContinues, Stranger
<1>15. CASE UNCHANGED vars
  BY <1>6, <1>15 DEF vars
<1>16. QED
  BY <1>1, <1>2, <1>3, <1>4, <1>5, <1>7, <1>8, <1>9, <1>11, <1>12, <1>13, <1>14, <1>15
     DEF Next, knh_wait

(* Whatever order the methods of all objects are called in, exec and          *)
(* communicate read and write streams that popen opened: no FILE is NULL.     *)
THEOREM StreamsUsedAreOpen == Spec => []StreamsOpen
<1>1. Init => StreamInv
  <2>1. Gone.cpid = -1
    BY DEF Gone, Fresh
  <2>2. QED
    BY <2>1, SubprocAssumption DEF Init, StreamInv, Opens, InWait
<1>2. TypeInv /\ StreamInv => StreamsOpen
  <2> SUFFICES ASSUME TypeInv, StreamInv PROVE StreamsOpen
    OBVIOUS
  <2>1. pc \in InWait \cup {"write"} => call.obj \in Obj
    BY TypeParts DEF ControlTyped, CallKnown, WaitingCall
  <2>2. {"r", "w", "e"} = Stream
    BY DEF Stream
  <2>3. QED
    BY <2>1, <2>2 DEF StreamInv, StreamsOpen, Opens, InCall, InWait
<1>3. QED
  BY <1>1, <1>2, StreamStep, Waiting, PTL DEF Spec
=============================================================================
