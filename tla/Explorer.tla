------------------------------- MODULE Explorer -------------------------------
(***************************************************************************)
(* The read-only shell a model explores with (sandbox.rs, explorer.rs,        *)
(* progress.rs, tool_span.rs): one kernel on a thread of its own, behind a     *)
(* queue that the tools of a turn share, and the log of what they are doing    *)
(* that a job's poll shows.  A script is what it does to the kernel.           *)
(***************************************************************************)
EXTENDS Naturals, Sequences, FiniteSets

CONSTANTS
  Callers,       \* the tool calls of one session
  Scripts,       \* what their scripts may do
  Start,         \* the kernel's first directory, the project's root
  ScratchLimit,  \* what the kernel's memory of its own may hold
  SlowChat,      \* how long a chat may take before the caller is warned
  MaxChats

ASSUME ExplorerAssumption ==
  /\ IsFiniteSet(Callers) /\ "nobody" \notin Callers
  /\ Scripts \cap {"nothing", "read"} = {}

VARIABLES
  toolAt,       \* where each call is
  askedJob,     \* the job each call sent
  queue,        \* the jobs the worker has not taken
  worker,       \* its kernel: where it is, what its scratch holds, whom it serves
  answer,       \* what each call was told
  ranIn,        \* the directory each script started in
  progressLog,  \* ProgressLog: the last step, how many there were, each chat's time
  warnedOf,     \* how many lines were promoted to the caller
  span          \* what each call's trace says: its outcome, and its script's exit code

explorerVars == <<toolAt, askedJob, queue, worker, answer, ranIn, progressLog, warnedOf, span>>

Nobody == "nobody"
Open == [outcome |-> "none", exit |-> "none"]
Nothing == [code |-> "none", out |-> "none", err |-> "none"]

ExplorerInit ==
  /\ toolAt = [c \in Callers |-> "idle"]
  /\ askedJob = [c \in Callers |-> [does |-> "nothing"]]
  /\ queue = << >>
  /\ worker = [alive |-> TRUE, cwd |-> Start, scratch |-> 0, serves |-> Nobody]
  /\ answer = [c \in Callers |-> Nothing]
  /\ ranIn = [c \in Callers |-> Start]
  /\ progressLog = [latest |-> <<Nobody, "nothing">>, steps |-> 0, chats |-> << >>]
  /\ warnedOf = 0
  /\ span = [c \in Callers |-> Open]

\* ProgressLog.emit: a chat is timed and is no step.
Emit(event) == progressLog' = [progressLog EXCEPT !.latest = event, !.steps = @ + 1]

\* The span closes when the call returns, with the exit code of the script it ran:
\* a script that fails is no failure of the tool.
Closed(calls, outcome, exit) ==
  span' = [c \in Callers |-> IF c \in calls THEN [outcome |-> outcome, exit |-> exit] ELSE span[c]]

\* RunKaish.call tells the log first.
Ask(c, does) ==
  /\ toolAt[c] = "idle"
  /\ Emit(<<c, does>>)
  /\ askedJob' = [askedJob EXCEPT ![c] = [does |-> does]]
  /\ IF worker.alive
       THEN /\ queue' = Append(queue, c)
            /\ toolAt' = [toolAt EXCEPT ![c] = "waiting"]
            /\ UNCHANGED <<answer, span>>
       ELSE /\ toolAt' = [toolAt EXCEPT ![c] = "answered"]
            /\ answer' = [answer EXCEPT ![c] = [Nothing EXCEPT !.code = "gone"]]
            /\ Closed({c}, "error", "none")
            /\ UNCHANGED queue
  /\ UNCHANGED <<worker, ranIn, warnedOf>>

\* ViewImage and the attachments read bytes through the same worker.
AskRead(c, size) ==
  /\ toolAt[c] = "idle" /\ worker.alive
  /\ askedJob' = [askedJob EXCEPT ![c] = [does |-> "read", size |-> size]]
  /\ queue' = Append(queue, c)
  /\ toolAt' = [toolAt EXCEPT ![c] = "waiting"]
  /\ UNCHANGED <<worker, answer, ranIn, progressLog, warnedOf, span>>

\* Mutant of Take: a script starts where the last one left off.
TakeWhereLeft ==
  /\ worker.alive /\ worker.serves = Nobody /\ queue # << >>
  /\ queue' = Tail(queue)
  /\ worker' = [worker EXCEPT !.serves = Head(queue)]
  /\ ranIn' = [ranIn EXCEPT ![Head(queue)] = worker.cwd]
  /\ UNCHANGED <<toolAt, askedJob, answer, progressLog, warnedOf, span>>
\* Every script starts in the root; what it set and stored stays for the next.
Take ==
  /\ worker.alive /\ worker.serves = Nobody /\ queue # << >>
  /\ queue' = Tail(queue)
  /\ LET c == Head(queue) IN
     worker' = [worker EXCEPT !.serves = c,
                              !.cwd = IF askedJob[c].does = "read" THEN @ ELSE Start]
  /\ ranIn' = [ranIn EXCEPT ![Head(queue)] = worker'.cwd]
  /\ UNCHANGED <<toolAt, askedJob, answer, progressLog, warnedOf, span>>

\* KaishOutput::from_result and from_error.
Result(does) ==
  CASE does \in {"reads", "goes", "stores"} -> [code |-> "0", out |-> "text", err |-> "none"]
    [] does = "binary" -> [code |-> "0", out |-> "none", err |-> "binary"]
    [] does = "floods" -> [code |-> "3", out |-> "sample", err |-> "none"]
    [] does = "hangs" -> [code |-> "124", out |-> "text", err |-> "none"]
    [] does = "mutates" -> [code |-> "1", out |-> "none", err |-> "read-only"]
    [] does = "forbidden" -> [code |-> "126", out |-> "none", err |-> "disabled"]
    [] does = "faults" -> [code |-> "-1", out |-> "text", err |-> "failed"]
    [] does = "garbled" -> [code |-> "-1", out |-> "none", err |-> "failed"]
    [] OTHER -> [code |-> "0", out |-> "bytes", err |-> "none"]

Full == worker.scratch = ScratchLimit

\* The kernel is done with a script, within its time: one that hangs is cancelled.
\* A caller that has given up is not there to hear.
Finish ==
  LET c == worker.serves
      does == askedJob[c].does
      result == IF does = "stores" /\ Full
                  THEN [code |-> "1", out |-> "none", err |-> "full"] ELSE Result(does) IN
  /\ worker.alive /\ c # Nobody
  /\ worker' = [worker EXCEPT !.serves = Nobody,
                              !.cwd = IF does \in {"goes", "hangs"} THEN "below" ELSE @,
                              !.scratch = IF does = "stores" /\ ~Full THEN @ + 1 ELSE @]
  /\ IF toolAt[c] = "waiting"
       THEN /\ toolAt' = [toolAt EXCEPT ![c] = "answered"]
            /\ answer' = [answer EXCEPT ![c] = result]
            /\ Closed({c}, "ok", IF does = "read" THEN "none" ELSE result.code)
       ELSE UNCHANGED <<toolAt, answer, span>>
  /\ UNCHANGED <<askedJob, queue, ranIn, progressLog, warnedOf>>

\* The turn is cancelled, or its deadline passes: the job stays with the worker.
GiveUp(c) ==
  /\ toolAt[c] = "waiting"
  /\ toolAt' = [toolAt EXCEPT ![c] = "gone"]
  /\ UNCHANGED <<askedJob, queue, worker, answer, ranIn, progressLog, warnedOf, span>>

\* The thread ends under a job: whoever waits learns that no reply will come.
Die ==
  LET waiting == {c \in Callers : toolAt[c] = "waiting"} IN
  /\ worker.alive /\ worker.serves # Nobody
  /\ worker' = [worker EXCEPT !.alive = FALSE, !.serves = Nobody]
  /\ queue' = << >>
  /\ toolAt' = [c \in Callers |-> IF c \in waiting THEN "answered" ELSE toolAt[c]]
  /\ answer' = [c \in Callers |-> IF c \in waiting
                                    THEN [Nothing EXCEPT !.code = "dropped"] ELSE answer[c]]
  /\ Closed(waiting, "error", "none")
  /\ UNCHANGED <<askedJob, ranIn, progressLog, warnedOf>>

\* A completion the agent waited for.
Chat(took) ==
  /\ Len(progressLog.chats) < MaxChats
  /\ progressLog' = [progressLog EXCEPT !.chats = Append(@, took)]
  /\ warnedOf' = IF took >= SlowChat THEN warnedOf + 1 ELSE warnedOf
  /\ UNCHANGED <<toolAt, askedJob, queue, worker, answer, ranIn, span>>

ExplorerNext ==
  \/ \E c \in Callers, does \in Scripts : Ask(c, does)
  \/ \E c \in Callers : AskRead(c, "small") \/ GiveUp(c)
  \/ Take \/ Finish \/ Die
  \/ \E took \in {0, SlowChat} : Chat(took)

ExplorerSpec == ExplorerInit /\ [][ExplorerNext]_explorerVars

----
(* Properties *)

Queued(c) == \E n \in DOMAIN queue : queue[n] = c

\* The tools of a turn share one kernel and may give up or lose it at any step: a
\* call that waits is one the worker has or will take, a call is told what its own
\* script came to, and every script starts in the project's root whatever the one
\* before it did, timed out or was abandoned in the middle of.  A call's trace says it
\* worked exactly when it was told what its script came to, and a job's poll counts the
\* scripts it asked for, however many chats came between.
ScriptsStandAlone ==
  \A c \in Callers :
    /\ toolAt[c] = "waiting" => Queued(c) \/ worker.serves = c
    /\ Queued(c) => askedJob[c].does # "nothing"
    /\ ranIn[c] = Start \/ askedJob[c].does = "read"
    /\ span[c].outcome = "ok" <=> answer[c].out # "none" \/ answer[c].err # "none"
    /\ span[c].exit \in {answer[c].code, "none"}
    /\ progressLog.steps = Cardinality({d \in Callers : askedJob[d].does \notin {"nothing", "read"}})
    /\ toolAt[c] = "answered" /\ askedJob[c].does # "stores" =>
         answer[c] \in {Result(askedJob[c].does)} \cup
           {[Nothing EXCEPT !.code = why] : why \in {"gone", "dropped"}}
=============================================================================
