------------------------------ MODULE Subproc ------------------------------
(***************************************************************************)
(* The package konoha.subproc (src/package/konoha.subproc/subproc_glue.h): *)
(* Subproc objects start child processes, wait for them with an interval   *)
(* timer and a longjmp out of the signal handler, and kill what is late.   *)
(* Children, the terminal and the timer act at any time between two system *)
(* calls of the interpreter, which is one thread.                          *)
(*                                                                         *)
(* Abstracted: what commands do and print; a FILE is NULL, open, or stale  *)
(* (its descriptor was closed behind its back).  Every object has the      *)
(* default time limit of ten seconds: setTimeout is commented out.         *)
(***************************************************************************)
EXTENDS Integers

CONSTANTS
  Obj,      \* Subproc objects
  Pid,      \* process identifiers, which the kernel uses again
  Settable  \* the streams whose mode the script changes

ASSUME SubprocAssumption == Pid \subseteq Nat \ {0} /\ Settable \subseteq {"r", "w", "e"}

VARIABLES
  sub,     \* sub[o]: the subprocData_t of an object (or free)
  pc,      \* the next system call of the interpreter, "idle" between methods
  call,    \* the method that waits: its name, object and child
  armed,   \* ITIMER_REAL runs
  sigalrm, \* the disposition of SIGALRM
  sigint,  \* the disposition of SIGINT
  oldset,  \* knh_wait's alarm_oldset and keyInt_oldset
  fgPid,   \* the static fgPid that keyIntHandler signals
  proc,    \* proc[i]: the process that has identifier i
  started, \* started[i]: who started child i with fg or bg, for ChildKnown
  condemned \* children whose time was up, until they are reaped, for TimedOutStops

vars == <<sub, pc, call, armed, sigalrm, sigint, oldset, fgPid, proc, started,
          condemned>>
signals == <<armed, sigalrm, sigint, oldset, fgPid>>
kernel == <<proc, started, condemned>>

Stream == {"r", "w", "e"}
Mode == {"DEFAULT", "NREDIRECT", "PIPE"}
Child == {"run", "stopped", "stopseen", "dying", "zombie"}
NoCall == [op |-> "none", obj |-> 0, pid |-> 0]
NoOne == 0

(* initData, for a new object. *)
Fresh == [alive |-> TRUE, cpid |-> -1, bg |-> FALSE, timeoutKill |-> FALSE,
          mode |-> [s \in Stream |-> "DEFAULT"], fp |-> [s \in Stream |-> "NULL"]]

Gone == [Fresh EXCEPT !.alive = FALSE]
NoHandlers == [alarm |-> "ERR", keyInt |-> "ERR"]

Init ==
  /\ sub = [o \in Obj |-> Gone]
  /\ pc = "idle" /\ call = NoCall
  /\ armed = FALSE /\ sigalrm = "DFL" /\ sigint = "DFL"
  /\ oldset = NoHandlers /\ fgPid = 0
  /\ proc = [i \in Pid |-> "free"] /\ started = [i \in Pid |-> NoOne]
  /\ condemned = {}

(* Fault: an object that has started its child may start another. *)
PREEXEC_any(o) == pc = "idle" /\ sub[o].alive
PREEXEC(o) == pc = "idle" /\ sub[o].alive /\ sub[o].cpid = -1
ONEXEC(o) == pc = "idle" /\ sub[o].alive /\ sub[o].cpid > 0

-----------------------------------------------------------------------------
(* Methods that only change an object. *)

Subproc_new(o) ==
  /\ pc = "idle" /\ ~sub[o].alive
  /\ sub' = [sub EXCEPT ![o] = Fresh]
  /\ UNCHANGED <<pc, call, signals, kernel>>

(* The collector frees an object: neither its streams are closed nor its   *)
(* child is waited for.                                                    *)
Subproc_free(o) ==
  /\ pc = "idle" /\ sub[o].alive
  /\ sub' = [sub EXCEPT ![o] = Gone]
  /\ started' = [i \in Pid |-> IF started[i] = o THEN NoOne ELSE started[i]]
  /\ UNCHANGED <<pc, call, signals, proc, condemned>>

(* enablePipemodeIN/OUT/ERR and enableStandardIN/OUT/ERR: setFd or initFd.   *)
(* enableERR2StdOUT redirects without a FILE and is taken for NREDIRECT.      *)
Enable(o, s, mode, on) ==
  /\ PREEXEC(o)
  /\ on \/ sub[o].mode[s] = mode
  /\ sub' = [sub EXCEPT ![o].mode[s] = IF on THEN mode ELSE "DEFAULT",
                        ![o].fp[s] = "NULL"]
  /\ UNCHANGED <<pc, call, signals, kernel>>

(* clearFd of all three streams. *)
clearFd(d) ==
  [d EXCEPT !.fp = [s \in Stream |->
     IF d.mode[s] \in {"PIPE", "DEFAULT"} THEN "NULL" ELSE d.fp[s]]]

-----------------------------------------------------------------------------
(***************************************************************************)
(* knh_popen.  A stream in mode DEFAULT takes the mode of the method: PIPE *)
(* for exec, NREDIRECT for fg and bg.                                      *)
(***************************************************************************)
Piped(d, op, s) ==
  d.mode[s] = "PIPE" \/ (d.mode[s] = "DEFAULT" /\ op = "exec")

Forked(i, o, op) ==
  /\ proc[i] = "free"
  /\ proc' = [proc EXCEPT ![i] = "run"]
  /\ started' = [started EXCEPT ![i] = IF op = "exec" THEN NoOne ELSE o]
  /\ condemned' = condemned \ {i}

Opened(d, op) ==
  [d EXCEPT !.timeoutKill = FALSE,
            !.fp = [s \in Stream |-> IF Piped(d, op, s) THEN "open" ELSE d.fp[s]]]

(* Fault: exec records its child as the object's. *)
Recorded_exec(d, op, i) == [d EXCEPT !.cpid = i]
(* proc_start records the child and the way it runs; exec records neither. *)
Recorded(d, op, i) ==
  IF op = "exec" THEN d ELSE [d EXCEPT !.cpid = i, !.bg = (op = "bg")]

(* fg, bg and exec when knh_popen succeeds; all but bg go on to knh_wait,  *)
(* exec with bg = 0 whatever the object says.                              *)
Start(o, op) ==
  /\ PREEXEC(o)
  /\ \E i \in Pid :
       /\ Forked(i, o, op)
       /\ sub' = [sub EXCEPT ![o] = Recorded(Opened(@, op), op, i)]
       /\ IF op = "bg" THEN UNCHANGED <<pc, call>>
          ELSE pc' = "sigint" /\ call' = [op |-> op, obj |-> o, pid |-> i]
  /\ UNCHANGED signals

(* The pipe of s fails after one in front of it was never made: descriptors *)
(* are closed that were never set.                                         *)
ClosesGarbage(d, op) ==
  \/ Piped(d, op, "w") /\ ~Piped(d, op, "r")
  \/ Piped(d, op, "e") /\ ~(Piped(d, op, "r") /\ Piped(d, op, "w"))

(* knh_popen fails: no pipe or no process is left.  The numbers closed by  *)
(* mistake may be those of any stream.                                     *)
StartFails(o, op) ==
  /\ PREEXEC(o)
  /\ LET d == [sub[o] EXCEPT !.timeoutKill = FALSE,
                             !.bg = IF op = "exec" THEN @ ELSE op = "bg"] IN
     \/ sub' = [sub EXCEPT ![o] = d]
     \/ /\ ClosesGarbage(d, op)
        /\ \E q \in Obj, s \in Stream :
             /\ sub[q].fp[s] = "open"
             /\ sub' = [sub EXCEPT ![o] = d, ![q].fp[s] = "stale"]
  /\ UNCHANGED <<pc, call, signals, kernel>>

(* The first system call of knh_wait. *)
WaitOf(o) == IF sub[o].bg THEN "setitimer" ELSE "sigint"

(* communicate: input, if there is any and a pipe to take it, is written to *)
(* the child first, without a time limit.                                  *)
Communicate(o) ==
  /\ ONEXEC(o)
  /\ call' = [op |-> "communicate", obj |-> o, pid |-> sub[o].cpid]
  /\ \/ pc' = WaitOf(o)
     \/ pc' = "write" /\ sub[o].mode["w"] = "PIPE"
  /\ UNCHANGED <<sub, signals, kernel>>

(* fwrite and fflush return once the child has read enough or is gone.     *)
Written ==
  /\ pc = "write"
  /\ pc' = WaitOf(call.obj)
  /\ UNCHANGED <<sub, call, signals, kernel>>

-----------------------------------------------------------------------------
(* knh_wait, one system call after the other. *)

Foreground == call.op = "exec" \/ ~sub[call.obj].bg

SetSigint ==
  /\ pc = "sigint" /\ pc' = "setitimer"
  /\ fgPid' = call.pid
  /\ oldset' = [oldset EXCEPT !.keyInt = sigint]
  /\ sigint' = "keyIntHandler"
  /\ UNCHANGED <<sub, call, armed, sigalrm, kernel>>

(* Fault: a time limit that is never armed. *)
Setitimer_never ==
  /\ pc = "setitimer" /\ pc' = "sigalrm"
  /\ UNCHANGED <<sub, call, armed, sigalrm, sigint, oldset, fgPid, kernel>>
Setitimer ==
  /\ pc = "setitimer" /\ pc' = "sigalrm"
  /\ armed' = TRUE
  /\ UNCHANGED <<sub, call, sigalrm, sigint, oldset, fgPid, kernel>>

SetSigalrm ==
  /\ pc = "sigalrm" /\ pc' = "waitpid"
  /\ oldset' = [oldset EXCEPT !.alarm = sigalrm]
  /\ sigalrm' = "alarmHandler"
  /\ UNCHANGED <<sub, call, armed, sigint, fgPid, kernel>>

Reaped(i) ==
  /\ proc' = [proc EXCEPT ![i] = "free"]
  /\ started' = [started EXCEPT ![i] = NoOne]
  /\ condemned' = condemned \ {i}

(* waitpid with WUNTRACED: the child ended, or stopped, or there is no such *)
(* child, and then *status is not set.                                     *)
Waitpid ==
  LET i == call.pid IN
  /\ pc = "waitpid" /\ pc' = "disarm"
  /\ \/ proc[i] = "zombie" /\ Reaped(i)
     \/ proc[i] = "stopped" /\ proc' = [proc EXCEPT ![i] = "stopseen"]
        /\ UNCHANGED <<started, condemned>>
     \/ proc[i] \in {"free", "foreign"} /\ UNCHANGED kernel
  /\ UNCHANGED <<sub, call, signals>>

(* Fault: the timer is left running. *)
Disarm_keep ==
  /\ pc = "disarm" /\ pc' = "alarmback"
  /\ UNCHANGED <<sub, call, signals, kernel>>
Disarm ==
  /\ pc = "disarm" /\ pc' = "alarmback"
  /\ armed' = FALSE
  /\ UNCHANGED <<sub, call, sigalrm, sigint, oldset, fgPid, kernel>>

Saved(old) == IF old = "ERR" THEN "DFL" ELSE old

RestoreSigalrm ==
  /\ pc = "alarmback" /\ pc' = IF Foreground THEN "intback" ELSE "return"
  /\ sigalrm' = Saved(oldset.alarm)
  /\ UNCHANGED <<sub, call, armed, sigint, oldset, fgPid, kernel>>

RestoreSigint ==
  /\ pc = "intback" /\ pc' = "return"
  /\ sigint' = Saved(oldset.keyInt)
  /\ UNCHANGED <<sub, call, armed, sigalrm, oldset, fgPid, kernel>>

(* exec reads the output and closes the streams, if the output is piped;   *)
(* communicate reads what is piped and closes nothing.                     *)
Return ==
  /\ pc = "return" /\ pc' = "idle" /\ call' = NoCall
  /\ sub' = IF call.op = "exec" /\ sub[call.obj].mode["r"] # "NREDIRECT"
            THEN [sub EXCEPT ![call.obj] = clearFd(@)] ELSE sub
  /\ oldset' = NoHandlers
  /\ UNCHANGED <<armed, sigalrm, sigint, fgPid, kernel>>

-----------------------------------------------------------------------------
(* The timer fires: alarmHandler jumps into knh_wait, wherever that stands; *)
(* before the handler is installed, the interpreter dies.                  *)
Alarm ==
  /\ armed /\ pc # "dead" /\ armed' = FALSE
  /\ pc' = IF sigalrm = "alarmHandler" THEN "timeout" ELSE "dead"
  /\ UNCHANGED <<sub, call, sigalrm, sigint, oldset, fgPid, kernel>>

(* The way back out of sigsetjmp.  alarm_oldset is a local variable that was *)
(* changed since: it reads as SIG_ERR or as what was stored.  SIGINT stays. *)
Timeout ==
  /\ pc = "timeout" /\ pc' = "kill"
  /\ armed' = FALSE
  /\ sigalrm' \in {"DFL", Saved(oldset.alarm)}
  /\ UNCHANGED <<sub, call, sigint, oldset, fgPid, kernel>>

(* Fault: exec, too, kills the process the object has recorded. *)
Victim_cpid == sub[call.obj].cpid
Victim == call.pid

(* killWait: SIGKILL, to whatever has the identifier by now. *)
Kill ==
  /\ pc = "kill" /\ pc' = "poll"
  /\ sub' = [sub EXCEPT ![call.obj].timeoutKill = TRUE]
  /\ proc' = [i \in Pid |-> IF i # Victim THEN proc[i]
                            ELSE IF proc[i] \in {"run", "stopped", "stopseen"} THEN "dying"
                            ELSE IF proc[i] = "foreign" THEN "free" ELSE proc[i]]
  /\ condemned' = IF proc[call.pid] \in Child THEN condemned \cup {call.pid} ELSE condemned
  /\ UNCHANGED <<call, signals, started>>

(* killWait: one look at the child after DELAY microseconds. *)
Poll ==
  /\ pc = "poll" /\ pc' = "idle" /\ call' = NoCall
  /\ IF proc[call.pid] = "zombie" THEN Reaped(call.pid) ELSE UNCHANGED kernel
  /\ sub' = IF call.op = "exec" THEN [sub EXCEPT ![call.obj] = clearFd(@)] ELSE sub
  /\ oldset' = NoHandlers
  /\ UNCHANGED <<armed, sigalrm, sigint, fgPid>>

-----------------------------------------------------------------------------
(* What happens outside of the interpreter. *)

(* A key on the terminal: SIGINT for the interpreter, as children have a   *)
(* session of their own; keyIntHandler passes it on to fgPid.              *)
Interrupt ==
  /\ pc # "dead"
  /\ IF sigint = "DFL" THEN pc' = "dead" /\ UNCHANGED proc
     ELSE /\ fgPid \in Pid /\ proc[fgPid] = "run"
          /\ proc' = [proc EXCEPT ![fgPid] = "dying"] /\ UNCHANGED pc
  /\ UNCHANGED <<sub, call, signals, started, condemned>>

ChildEnds(i) ==
  /\ proc[i] \in {"run", "dying"}
  /\ proc' = [proc EXCEPT ![i] = "zombie"]
  /\ UNCHANGED <<sub, pc, call, signals, started, condemned>>

ChildStops(i) ==
  /\ proc[i] = "run"
  /\ proc' = [proc EXCEPT ![i] = "stopped"]
  /\ UNCHANGED <<sub, pc, call, signals, started, condemned>>

ChildContinues(i) ==
  /\ proc[i] \in {"stopped", "stopseen"}
  /\ proc' = [proc EXCEPT ![i] = "run"]
  /\ UNCHANGED <<sub, pc, call, signals, started, condemned>>

(* The kernel gives a free identifier to a process of somebody else. *)
Stranger(i) ==
  /\ proc[i] \in {"free", "foreign"}
  /\ proc' = [proc EXCEPT ![i] = IF @ = "free" THEN "foreign" ELSE "free"]
  /\ UNCHANGED <<sub, pc, call, signals, started, condemned>>

knh_wait == \/ SetSigint \/ Setitimer \/ SetSigalrm \/ Waitpid \/ Disarm
            \/ RestoreSigalrm \/ RestoreSigint \/ Return
            \/ Timeout \/ Kill \/ Poll

Next ==
  \/ \E o \in Obj : \/ Subproc_new(o) \/ Subproc_free(o) \/ Communicate(o)
                    \/ \E op \in {"fg", "bg", "exec"} : Start(o, op) \/ StartFails(o, op)
                    \/ \E s \in Settable, m \in {"PIPE", "NREDIRECT"}, on \in BOOLEAN :
                         Enable(o, s, m, on)
  \/ Written \/ knh_wait \/ Alarm \/ Interrupt
  \/ \E i \in Pid : ChildEnds(i) \/ ChildStops(i) \/ ChildContinues(i) \/ Stranger(i)

(* The interpreter runs on, and a timer that runs fires. *)
Spec == Init /\ [][Next]_vars /\ WF_vars(knh_wait) /\ WF_vars(Alarm)

-----------------------------------------------------------------------------
InWait == {"sigint", "setitimer", "sigalrm", "waitpid", "disarm", "alarmback",
           "intback", "return", "timeout", "kill", "poll"}

(* Types of the state; SIGALRM never gets the disposition SIG_ERR. *)
TypeOK ==
  /\ sub \in [Obj -> [alive : BOOLEAN, cpid : Pid \cup {-1}, bg : BOOLEAN,
                      timeoutKill : BOOLEAN, mode : [Stream -> Mode],
                      fp : [Stream -> {"NULL", "open", "stale"}]]]
  /\ pc \in InWait \cup {"idle", "write", "dead"}
  /\ call \in [op : {"fg", "exec", "communicate"}, obj : Obj, pid : Pid] \cup {NoCall}
  /\ armed \in BOOLEAN
  /\ sigalrm \in {"DFL", "alarmHandler"} /\ sigint \in {"DFL", "keyIntHandler"}
  /\ oldset \in [alarm : {"ERR", "DFL", "alarmHandler"},
                 keyInt : {"ERR", "DFL", "keyIntHandler"}]
  /\ fgPid \in Pid \cup {0}
  /\ proc \in [Pid -> Child \cup {"free", "foreign"}]
  /\ started \in [Pid -> Obj \cup {NoOne}] /\ condemned \subseteq Pid

(***************************************************************************)
(* siglongjmp(env, 1) may only be reached while the knh_wait that filled   *)
(* env is on the C stack, and no timer outlives it to kill the interpreter *)
(* later: with no wait, no timer runs and alarmHandler is not installed,   *)
(* whichever way the last wait ended.                                      *)
(***************************************************************************)
AlarmOnlyInWait ==
  pc \in {"idle", "write"} => ~armed /\ sigalrm # "alarmHandler"

(* The streams that exec and communicate read and write were opened by the *)
(* popen of that child, across every order of the methods: a FILE that is  *)
(* used is not NULL.                                                       *)
StreamsOpen ==
  LET d == sub[call.obj] IN
  /\ pc = "write" => d.fp["w"] # "NULL"
  /\ pc = "return" /\ call.op = "communicate" =>
       \A s \in {"r", "e"} : d.mode[s] = "PIPE" => d.fp[s] # "NULL"
  /\ pc = "return" /\ call.op = "exec" /\ d.mode["r"] # "NREDIRECT" =>
       d.fp["r"] # "NULL"

(* A child whose time was up does not run on once the method has returned. *)
TimedOutStops ==
  \A i \in condemned : pc = "idle" => proc[i] \in {"dying", "zombie"}

(* A child started by fg or bg that nobody has waited for stays within     *)
(* reach of its object: cpid names it for as long as the object lives.     *)
ChildKnown ==
  \A i \in Pid : proc[i] \in Child /\ started[i] # NoOne =>
                   sub[started[i]].cpid = i

(* knh_wait returns, whatever the child does, because of the time limit.   *)
WaitEnds == (pc = "waitpid") ~> (pc \in {"idle", "dead"})
=============================================================================
