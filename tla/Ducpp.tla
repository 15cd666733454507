------------------------------- MODULE Ducpp --------------------------------
(***************************************************************************)
(* src/ducpp.cpp: the size of a directory, or its largest and smallest     *)
(* files.  Each entry of the directory is a task of a pool; an entry is a  *)
(* file or a directory of files.  The files change and vanish meanwhile,   *)
(* and what exists() or a comparison has found out may be over when        *)
(* file_size() is called, which then throws, as it does for a fifo or a    *)
(* device.  What may not be read or is removed makes any other call throw. *)
(***************************************************************************)
EXTENDS Integers, FiniteSets
Sets == INSTANCE FiniteSetsExt

CONSTANTS
    DuFiles,     \* files
    Fifos,       \* those of them that may be no regular files
    DuEntry,     \* [DuFiles -> entries of the directory]
    DuSizes,     \* sizes of files
    Gone,        \* the size of a file that does not exist
    Odd,         \* the size of what exists and is no regular file: it has none
    DuWorkers,   \* how many tasks the pool runs at a time
    DuOptions,   \* values of -t and -b; main() takes 0 for an absent one
    MaxChanges,  \* bound on what happens to the files
    Main         \* the main thread

ASSUME DuAssumption ==
    /\ IsFiniteSet(DuFiles)
    /\ DuSizes \subseteq Nat
    /\ Gone \notin DuSizes /\ Odd \notin DuSizes /\ Odd # Gone
    /\ DuWorkers \in Nat \ {0}
    /\ DuOptions \subseteq Int
    /\ MaxChanges \in Nat
    /\ \A f \in DuFiles : DuEntry[f] # Main

Entries == {DuEntry[f] : f \in DuFiles}

VARIABLES
    mode,      \* "sum" (du) or "rank" (topN)
    wanted,    \* top_k and bottom_k
    size,      \* the size of each file
    task,      \* each entry's task: "queued", "running", "done" or "threw"
    todo,      \* the files the task has yet to visit
    visiting,  \* the file it visits, as a set
    stage,     \* of the visit: "next", "valid", or the queue it goes into: "max", "min"
    sz,        \* sz of each task
    queue,     \* contents of the two priority queues
    lock,      \* holder of each spin lock, as a set
    stale,     \* whether a file changed in the queue, whose order then means nothing
    checked,   \* files that exist for the comparison the holder of a lock is in
    shown,     \* what is printed: the sum, or the files of each list
    outcome,   \* of main(): "running", the queue it pops, "printed", "terminated", "undefined"
    had,       \* history: the sizes each file has had
    unread,    \* history: whose access to the file system failed, entries and Main
    changes    \* how often a file has changed or an access failed

duVars == <<mode, wanted, size, task, todo, visiting, stage, sz, queue, lock, stale, checked,
            shown, outcome, had, unread, changes>>

Queues == {"max", "min"}
\* QueueType's capacity, a size_t
Capacity == LET cap == Sets!Max({wanted["max"], wanted["min"]})
            IN IF cap < 0 THEN Cardinality(DuFiles) ELSE cap
\* Adding up what f counts over S.
Total(f, S) == Sets!FoldSet(LAMBDA x, n : f[x] + n, 0, S)
SizesOf(f) == DuSizes \cup (IF f \in Fifos THEN {Odd} ELSE {})
Exists(f) == size[f] # Gone
HasSize(f) == size[f] \notin {Gone, Odd}

\* CompFileSize: a file that is gone is less than any other.
Smaller(f, g) == Exists(g) /\ (~Exists(f) \/ size[f] < size[g])
\* f comes before g in the queue's list.
Beats(q, f, g) == IF q = "max" THEN Smaller(g, f) ELSE Smaller(f, g)

DuInit ==
    /\ mode \in {"sum", "rank"}
    /\ wanted \in IF mode = "sum" THEN {[q \in Queues |-> 0]} ELSE [Queues -> DuOptions]
    /\ size \in {s \in [DuFiles -> DuSizes \cup {Odd}] : \A f \in DuFiles : s[f] \in SizesOf(f)}
    /\ task = [e \in Entries |-> "queued"]
    /\ todo = [e \in Entries |-> {f \in DuFiles : DuEntry[f] = e}]
    /\ visiting = [e \in Entries |-> {}]
    /\ stage = [e \in Entries |-> "next"]
    /\ sz = [e \in Entries |-> 0]
    /\ queue = [q \in Queues |-> {}]
    /\ lock = [q \in Queues |-> {}]
    /\ stale = [q \in Queues |-> FALSE]
    /\ checked = [q \in Queues |-> {}]
    /\ shown = [q \in Queues \cup {"sum"} |-> {}]
    /\ outcome = "running"
    /\ had = [f \in DuFiles |-> {size[f]}]
    /\ unread = {}
    /\ changes = 0

\* Someone else writes to a file, removes or replaces it; a directory has been listed by then.
Change(f) ==
    /\ changes < MaxChanges
    /\ Exists(f)
    /\ \E s \in (SizesOf(f) \cup {Gone}) \ {size[f]} : size' = [size EXCEPT ![f] = s]
    /\ had' = [had EXCEPT ![f] = @ \cup {size'[f]}]
    /\ stale' = [q \in Queues |-> stale[q] \/ f \in queue[q] \cup visiting[DuEntry[f]]]
    /\ changes' = changes + 1
    /\ UNCHANGED <<mode, wanted, task, todo, visiting, stage, sz, queue, lock, checked, shown,
                   outcome, unread>>

-----------------------------------------------------------------------------
(* A task: du(entry) or topN(entry, top, filter) *)

\* A worker of the pool takes the task.
StartTask(e) ==
    /\ task[e] = "queued"
    /\ Cardinality({d \in Entries : task[d] = "running"}) < DuWorkers
    /\ task' = [task EXCEPT ![e] = "running"]
    /\ UNCHANGED <<mode, wanted, size, todo, visiting, stage, sz, queue, lock, stale, checked,
                   shown, outcome, had, unread, changes>>

\* validate(path): a file that is gone counts nothing.
Visit(e, f) ==
    /\ task[e] = "running"
    /\ stage[e] = "next"
    /\ f \in todo[e]
    /\ todo' = [todo EXCEPT ![e] = @ \ {f}]
    /\ \/ ~Exists(f) /\ UNCHANGED <<visiting, stage>>
       \/ /\ Exists(f)
          /\ visiting' = [visiting EXCEPT ![e] = {f}]
          /\ stage' = [stage EXCEPT ![e] = IF mode = "sum" THEN "valid" ELSE "max"]
    /\ UNCHANGED <<mode, wanted, size, task, sz, queue, lock, stale, checked, shown, outcome,
                   had, unread, changes>>

\* The heap of a queue after a push that threw: the file was in its vector by then or not.
AfterThrow(e) ==
    {queue} \cup {[queue EXCEPT ![q] = @ \cup visiting[e]] : q \in {r \in Queues : lock[r] = {e}}}

\* exists(), is_directory() or directory_iterator throws, in whatever the task is doing.
AccessFails(e) ==
    /\ changes < MaxChanges
    /\ task[e] = "running"
    /\ task' = [task EXCEPT ![e] = "threw"]
    /\ queue' \in AfterThrow(e)
    /\ lock' = [q \in Queues |-> lock[q] \ {e}]
    /\ visiting' = [visiting EXCEPT ![e] = {}]
    /\ stage' = [stage EXCEPT ![e] = "next"]
    /\ unread' = unread \cup {e}
    /\ changes' = changes + 1
    /\ UNCHANGED <<mode, wanted, size, todo, sz, stale, checked, shown, outcome, had>>

\* du(): sz += file_size(path)
AddSize(e) ==
    /\ stage[e] = "valid"
    /\ \E f \in visiting[e] :
         \/ ~HasSize(f) /\ task' = [task EXCEPT ![e] = "threw"] /\ UNCHANGED sz
         \/ /\ HasSize(f)
            /\ sz' = [sz EXCEPT ![e] = @ + size[f]]
            /\ UNCHANGED task
    /\ visiting' = [visiting EXCEPT ![e] = {}]
    /\ stage' = [stage EXCEPT ![e] = "next"]
    /\ UNCHANGED <<mode, wanted, size, todo, queue, lock, stale, checked, shown, outcome, had, unread,
                   changes>>

\* push() to one queue: it is locked and, in CompFileSize, the files are tested.
BeginPush(e, q) ==
    /\ stage[e] = q
    /\ lock[q] = {}
    /\ lock' = [lock EXCEPT ![q] = {e}]
    /\ checked' = [checked EXCEPT ![q] = {f \in queue[q] \cup visiting[e] : Exists(f)}]
    /\ UNCHANGED <<mode, wanted, size, task, todo, visiting, stage, sz, queue, stale, shown,
                   outcome, had, unread, changes>>

\* Whether the contents S of a queue have an order: no file of them changed or has no size.
Settled(q, S) == ~stale[q] /\ \A f \in S : size[f] # Odd

\* file_size() is asked for two files that were there, and throws for one of them.
MayThrow(q) == \E f, g \in checked[q] : f # g /\ ~HasSize(f)
\* There is one to compare f with for which it does not throw, or none at all.
MayCompare(q, f) ==
    \/ queue[q] = {} \/ stale[q]
    \/ \E g \in queue[q] : {f, g} \subseteq checked[q] => HasSize(f) /\ HasSize(g)

\* What a push may leave: with room everything, otherwise all but one that comes last.
AfterPush(q, f) ==
    LET all == queue[q] \cup {f}
    IN IF Cardinality(queue[q]) < Capacity THEN {all}
       ELSE {all \ {g} : g \in {g \in all : Settled(q, all) => \A h \in all : ~Beats(q, g, h)}}

\* The sizes are compared: file_size() may throw for one that has gone since the test, or
\* has no size.
EndPush(e, q) ==
    /\ lock[q] = {e}
    /\ lock' = [lock EXCEPT ![q] = {}]
    /\ checked' = [checked EXCEPT ![q] = {}]
    /\ \E f \in visiting[e] :
         \/ /\ Capacity = 0  \* top() of an empty queue
            /\ outcome' = "undefined"
            /\ UNCHANGED <<task, queue, visiting, stage>>
         \/ /\ Capacity # 0
            /\ MayThrow(q)
            /\ task' = [task EXCEPT ![e] = "threw"]
            /\ visiting' = [visiting EXCEPT ![e] = {}]
            /\ stage' = [stage EXCEPT ![e] = "next"]
            /\ queue' \in AfterThrow(e)
            /\ UNCHANGED outcome
         \/ /\ Capacity # 0
            /\ MayCompare(q, f)
            /\ \E left \in AfterPush(q, f) : queue' = [queue EXCEPT ![q] = left]
            /\ visiting' = IF q = "min" THEN [visiting EXCEPT ![e] = {}] ELSE visiting
            /\ stage' = [stage EXCEPT ![e] = IF q = "max" THEN "min" ELSE "next"]
            /\ UNCHANGED <<task, outcome>>
    /\ UNCHANGED <<mode, wanted, size, todo, sz, stale, shown, had, unread, changes>>

EndTask(e) ==
    /\ task[e] = "running"
    /\ stage[e] = "next"
    /\ todo[e] = {}
    /\ task' = [task EXCEPT ![e] = "done"]
    /\ UNCHANGED <<mode, wanted, size, todo, visiting, stage, sz, queue, lock, stale, checked,
                   shown, outcome, had, unread, changes>>

-----------------------------------------------------------------------------
(* main() *)

\* A mistake that the property below must tell from the code: one future is not waited for.
Bug_Collected ==
    \E d \in Entries : \A e \in Entries \ {d} : task[e] \in {"done", "threw"}

\* Every future was waited for, by get() or by the destructor of the pool.
Collected == \A e \in Entries : task[e] \in {"done", "threw"}

\* The directory itself cannot be listed, or what is compared in a pop cannot be tested: the
\* exception ends the program while the tasks may still run.
ListingFails ==
    /\ changes < MaxChanges
    /\ outcome = "running" \/ \E q \in Queues : outcome = q /\ lock[q] = {Main}
    /\ outcome' = "terminated"
    /\ unread' = unread \cup {Main}
    /\ changes' = changes + 1
    /\ UNCHANGED <<mode, wanted, size, task, todo, visiting, stage, sz, queue, lock, stale,
                   checked, shown, had>>

\* get() rethrows, and nothing catches it.
Collect ==
    /\ outcome = "running"
    /\ Collected
    /\ outcome' = IF \E e \in Entries : task[e] = "threw" THEN "terminated"
                  ELSE IF mode = "sum" THEN "printed" ELSE "max"
    /\ shown' = [shown EXCEPT !["sum"] = {Total(sz, Entries)}]
    /\ UNCHANGED <<mode, wanted, size, task, todo, visiting, stage, sz, queue, lock, stale,
                   checked, had, unread, changes>>

AfterPop(q) == IF q = "max" THEN "min" ELSE "printed"

\* pop_top() and pop_bottom() compare again, if their list is wanted.
BeginPop(q) ==
    /\ outcome = q
    /\ IF wanted[q] <= 0
         THEN outcome' = AfterPop(q) /\ UNCHANGED <<lock, checked>>
         ELSE /\ lock[q] = {}
              /\ lock' = [lock EXCEPT ![q] = {Main}]
              /\ checked' = [checked EXCEPT ![q] = {f \in queue[q] : Exists(f)}]
              /\ UNCHANGED outcome
    /\ UNCHANGED <<mode, wanted, size, task, todo, visiting, stage, sz, queue, stale, shown,
                   had, unread, changes>>

\* The first of them are printed, and format_size() catches what it throws.
EndPop(q) ==
    /\ outcome = q
    /\ lock[q] = {Main}
    /\ lock' = [lock EXCEPT ![q] = {}]
    /\ checked' = [checked EXCEPT ![q] = {}]
    /\ \/ /\ MayThrow(q)
          /\ outcome' = "terminated"
          /\ UNCHANGED <<shown, queue>>
       \/ /\ \E list \in SUBSET queue[q] :
                /\ Cardinality(list) = Sets!Min({wanted[q], Cardinality(queue[q])})
                /\ Settled(q, queue[q]) => \A f \in list, g \in queue[q] \ list : ~Beats(q, g, f)
                /\ shown' = [shown EXCEPT ![q] = list]
          /\ queue' = [queue EXCEPT ![q] = {}]
          /\ outcome' = AfterPop(q)
    /\ UNCHANGED <<mode, wanted, size, task, todo, visiting, stage, sz, stale, had, unread, changes>>

DuNext ==
    /\ outcome \notin {"printed", "terminated", "undefined"}
    /\ \/ \E f \in DuFiles : Change(f)
       \/ \E e \in Entries :
             \/ StartTask(e) \/ AccessFails(e) \/ AddSize(e) \/ EndTask(e)
             \/ \E f \in DuFiles : Visit(e, f)
             \/ \E q \in Queues : BeginPush(e, q) \/ EndPush(e, q)
       \/ ListingFails \/ Collect
       \/ \E q \in Queues : BeginPop(q) \/ EndPop(q)

DuSpec == DuInit /\ [][DuNext]_duVars

-----------------------------------------------------------------------------
(* Properties *)

DuTypeOK ==
    /\ task \in [Entries -> {"queued", "running", "done", "threw"}]
    /\ stage \in [Entries -> {"next", "valid"} \cup Queues]
    /\ \A e \in Entries : /\ visiting[e] \subseteq {f \in DuFiles : DuEntry[f] = e}
                         /\ Cardinality(visiting[e]) <= 1
    /\ \A q \in Queues : Cardinality(lock[q]) <= 1 /\ checked[q] \subseteq DuFiles

\* Although files are written meanwhile, the sum is one of sizes that they had, where a file
\* that vanished may count nothing.
SumOfSizes ==
    mode = "sum" /\ outcome = "printed" =>
      \E g \in [DuFiles -> DuSizes \cup {0}] :
        /\ \A f \in DuFiles : g[f] \in had[f] \/ (g[f] = 0 /\ Gone \in had[f])
        /\ shown["sum"] = {Total(g, DuFiles)}

\* The lists are of the length that was asked for, and while nobody touches the files, which
\* all have a size, no file beats one in a list, whichever worker pushed it and when.
RanksTheBest ==
    mode = "rank" /\ outcome = "printed" /\ changes = 0 /\ (\A f \in DuFiles : HasSize(f)) =>
      \A q \in Queues :
        /\ Cardinality(shown[q]) = Sets!Min({Sets!Max({wanted[q], 0}), Cardinality(DuFiles)})
        /\ \A f \in shown[q], g \in DuFiles \ shown[q] : ~Beats(q, g, f)

\* What makes the file system throw: a file that vanished or has no size, or what cannot be
\* read.
Faulty == unread # {} \/ \E f \in DuFiles : Gone \in had[f] \/ Odd \in had[f]

\* The program dies of an exception only of those, and prints nothing if an access failed.
DiesOnlyOfFaults ==
    /\ outcome = "terminated" => Faulty
    /\ unread # {} => outcome # "printed"

\* ducpp prints sizes that the files had and, if left in peace, the true ranking; it dies
\* only of a file that vanishes between a test and its use, of one that has no size, or of
\* what cannot be read, and then it prints nothing.
DucppCorrect == DuTypeOK /\ SumOfSizes /\ RanksTheBest /\ DiesOnlyOfFaults
=============================================================================
