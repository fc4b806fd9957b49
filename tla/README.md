# A verification of the matching server

The repository is a chat server that pairs strangers.  A client sends
`try_match` with a profile and a filter function in C; the server compiles the
filter, tries the client against the others, and when two filters accept each
other's profile both are sent `matched` and talk until one of them quits.

This directory holds TLA+ models of that server, the TLC runs that check them
and proofs that TLAPS checks.

## The system

| part | state | operations | who calls it |
|---|---|---|---|
| match queue, `match_queue.cpp` | `candidate_queue`, `trying_queue`, `working_job`, `quit_set` | `add`, `detach`, `handle_report`, `handle_match`, `arrange_job` | main loop |
| crash handling, `match_queue.cpp` | `job_record`, `killed_child` | `handle_report_pid`, `handle_child_crash`, `new_child` | main loop |
| workers, `match_queue.cpp` | the job at hand | `worker`, `do_job` | processes of their own |
| message queues, `mq.cpp` | three POSIX queues of at most 10 messages | `mq_send`, `mq_receive` | main process and workers |
| main loop, `main.cpp` | fd sets, maps fd -> id and id -> `Client` | `select`, one pass over the fds in ascending order | - |
| client session, `client.cpp` | `status`, `match_fd`, `try_match_counter`, receive buffer | `try_match_ack`, `quit`, `other_side_quit`, `handle_match`, `send_message`, `socket_recv` | main loop, match queue |
| linked list, `linked_list.hpp` | nodes with `prev` and `next` | `push_back`, `erase`, `search` | match queue |
| json, `json.hpp` | a value; scanner and parser positions | parse, dump, member functions, pointers, patches, CBOR, MessagePack | main loop, sessions; most of it by nobody here |
| filter libraries, `load_library_util.cpp` | files named by id and counter | compile, `dlopen`, run | main process compiles, workers load |

The server is one thread: a handler runs to its end before the next one.  What
is hard is everything that happens *between* two handlers.

* A trial takes time.  Its two users can quit, disconnect and come back before
  the report is read, and the report says only two ids and a verdict.
* Up to `WORKER_NUMBER` trials run at once and are reported in any order, and
  still nobody may be matched with somebody it was not tried against, or be
  tried out of turn.
* `matchingWith` is a pointer into another list; every removal must send on
  exactly the users behind the removed node.
* A filter can bring its worker down.  The main process has to find out which
  job was lost from two queues and a signal that arrive in any order, while
  SIGCHLD is not queued.
* A client's status exists twice, in its program and in the server, and
  commands and replies cross; the other side of a conversation is known by an
  fd, which the kernel uses again.
* `working_job` is an unsigned counter that bounds what is in `from_main`; the
  main process would block for ever on a full queue.

What makes each part correct:

* match queue: nobody is lost or in two places; pointers point to live nodes;
  a user marked PROCESSING really has a job out; a free worker never waits
  beside a user that could be tried; the matches are those of a server that
  serves one user at a time.
* workers and queues: every job is reported once, and taken for the job it is
  about; main never blocks on a queue, and a worker only for main to read.
* crash handling: dead children are reaped and replaced, their jobs are
  reported as refused, once.
* sessions: conversations are between two, and each side is told when it ends;
  a client and the server agree on the client's status once nothing is on its
  way; a line is a command, however `recv` cuts it.
* linked list: linked both ways, no node lost or used after it was freed.
* json: what is written is read back, what is not json is refused, a patch makes
  of one value the other, values are ordered.

`PROJECT.json` lists the hazards at their lines with the properties that cover
them.

## The modules

| module | what it models |
|---|---|
| `MatchQueue` | class `MatchQueue` and the commands that reach it: state and handlers |
| `Matching` | `MatchQueue` composed with workers that report each job once, in any order |
| `FirstCompatible` | abstract specification: users wait in order and pairs that are each other's first choice are matched |
| `LinkedList` | the list template: nodes at addresses, `push_back`, `erase`, `search` |
| `HeapMatching` | class `MatchQueue` again, with its pointers and loops over `LinkedList`s; implements `Matching` |
| `WorkerPool` | workers, message queues, select loop, crashes, with any match queue |
| `MatchServer` | `Matching` composed with `WorkerPool`: implements both |
| `Session` | connections, fds, framing, commands and replies, and the client programs |
| `JsonValue` | json values, their comparison and member functions |
| `JsonBinary` | writers and readers of CBOR and MessagePack |
| `JsonPointer` | pointers, flatten and unflatten, patch and diff |
| `JsonDocument` | a program that calls all of these on a document, in any order |
| `JsonLexer`, `JsonParser`, `JsonDump` | the scanner, the parser with its callback, `dump` |
| `JsonText` | every text of a few pieces, parsed and written again |
| `MatchingProofs`, `MatchingSafeProofs`, `MatchingServesProofs` | proofs about `Matching`, each building on the one before |
| `HeapMatchingProofs` | proofs about `HeapMatching` and its `LinkedList`s |
| `HeapRefinementProofs` | the proof that `HeapMatching` implements `Matching` |
| `WorkerPoolProofs` | proofs about `WorkerPool` |
| `MatchServerProofs` | proofs that `MatchServer` implements `WorkerPool` and, while no child dies, `Matching` |
| `SessionProofs` | proofs about `Session` |
| `MCMatching`, `MCHeapMatching`, `MCWorkerPool`, `MCMatchServer`, `MCSession`, `MCJsonDocument`, `MCJsonText` | instances for TLC |

How they build on each other:

    FirstCompatible  <-implements-  Matching  <-implements-  HeapMatching (LinkedList)
                                       ^
                                       | implements, while no child dies
    WorkerPool       <-implements-  MatchServer

So what is shown of `WorkerPool` with *any* match queue holds of the server's
own, and what is shown of `Matching` holds of the code's pointers and, short
of crashes, of the real queues.  All four arrows are theorems (the two of the
first line in the tests regime).

### Match queue

* Every handler is one action and includes the `arrange_job` it ends in:
  `ArrangeJob(c, t, working, js)` takes the lists as the handler left them.
* In `MatchQueue` a list is a sequence.  A node of `candidate_queue` is named
  by the request it holds, an id and its `try_match_counter`: a client enters
  the list at most once per request, so the name is as good as the pointer,
  and a dangling pointer is a `matchingWith` that is not in the list.
* A handler that reads a null or freed node sets `process` to `"undefined"`
  and the model stops there: anything may follow.
* `detach` and `detach_with_matcher` share `DropCandidate`, which removes a
  candidate, promotes the first user behind it if it was the tail, and sends
  the rest on; they differ in where they look for the first user.
* `HeapMatching` has none of these shortcuts: it walks the lists, reads and
  writes fields of nodes, frees them and uses their addresses again, and takes
  the counter of a job from the client as `arrange_job` does.  The run `heap`
  shows that `MatchQueue` may take them.
* `jobs` are the jobs sent and not yet reported.  In `Matching` it is where the
  reports come from; in `MatchServer` it is the history that the real queues
  are compared with.
* A filter is abstracted to the relation `likes`; its verdict does not change
  while a request lasts.

### Workers and main loop

* A pass of the main loop is `Select`, which fixes the fds that are ready, and
  one action per fd in the order of their numbers: signal, job reports, pid
  reports, clients.  A SIGCHLD is a flag; reading it and each `waitpid` are
  steps of their own, since children die in between.
* An action of `WorkerPool` leaves `working_job` and `from_main` open.  Its own
  specification lets `Arrange` fill free slots with any jobs; `MatchServer`
  conjoins it with the handler of `MatchQueue` instead.
* `job_record` and `killed_child` are the map and the set of the code.

### Sessions

* A command is two units, its text and the newline; `Recv` takes any piece of
  what was sent, joins it with the buffer and puts whole lines into
  `cmd_queue`.  While `serving` is not empty the main loop is busy with that
  queue, as the `for` loop in `main.cpp` is.
* Names are fds and ids as in the code: `match_fd`, then `fd_to_id`, lead to the
  other side.  `accept` takes the lowest free fd, as the kernel does.
* The client programs are part of the module: they keep to the protocol as far
  as they can see (`view`), and what they see is late.  A client may close its
  connection at any time, with commands or replies still on their way.
* Which clients are matched is left open: any two that wait.  `QueuedOnce` of
  `Matching` is what justifies it.

### json

`json.hpp` is vendored, but the server's protocol rests on it: `parse` and
`dump` for every command.  A value is a record with its type; strings are
sequences of bytes; an object is a function from keys, and `Keys` gives the
order of `std::map`.  A call returns what it leaves and what it throws.  The
widths are parameters: with `RADIX = 4` a "byte" of a length has four values and
with `UintMax = 31` a number overflows after two digits, so that all boundaries
are within reach.  A float is a decimal mantissa and exponent; its arithmetic
is outside the models.

A definition marked "Mutant" is not part of a model: it is a changed copy of
the definition that follows, used to see that a property notices it.

### What the clients may do

The code has comments that some cases "do not happen in the tests"
(`match_queue.cpp:209-210`, `:265-266`).  They are two switches of `MatchQueue`:

* `CandidatesStay`: no client leaves while somebody is being tried against it;
* `QuittersStayOut`: no client asks again while its id is in `quit_set`.

With both TRUE (the *tests* regime) the queues keep all they promise.  With
both FALSE (the *free* regime) a smaller set of properties still holds, and the
violation runs show what breaks.  In either regime clients ask for a match only
when they are idle.  The code does not test that; `AsksWhenIdle` of `Session`
shows that it need not, for clients that keep to the protocol.

## The runs

| run | regime and bounds | checks |
|---|---|---|
| `matching_free` | free; 3 clients, 2 requests each, 2 workers | types, `JobsAccounted`, `WorkConserving`, `QueuedOnce`, `PartnersAgree` |
| `matching_tests` | tests; 4 clients, 2 requests each, 2 workers | `NeverReadsDeadNode`, `PointersInOrder`, `MarkedMeansTried`, `CandidatesIncompatible`, `MatchedAcceptEachOther`; `Matching` implements `FirstCompatible` (`ServesFirstCompatible`) |
| `heap` | tests; 4 clients, 1 request each, 2 workers, 4 addresses | `ListsWellFormed`; `HeapMatching` implements `Matching`; nobody stays in `trying_queue` (`TryingEnds`) |
| `server` | free; 3 clients, 2 workers, 1 crash | `MatchServer` implements `WorkerPool`, and `Matching` as long as no child died |
| `pool` | any match queue; 2 workers, 2 crashes, queues of 4 messages | types, `InFlightCounted`, `PidReportsFit`, `PidQueueDrains`, `PoolKeepsItsSize`, `CrashesAreReaped`, `SlotsComeBack` |
| `session` | 3 clients, one asks twice and talks | types, `ConversationsAgree`, `ServerSurvives`, `AsksWhenIdle`, `ViewsAgree` |
| `json_document` | documents of at most 4 values | types, round trips of CBOR and MessagePack, truncation, patch of diff, unflatten of flatten, order |
| `json_text` | texts of 5 pieces of four alphabets | `ParsesExactlyJson`, `CallbackFilters`, `DumpParses`, `DumpIsOneLine`, `BufferIsFilled` |
| `matching_comes_back` | a client that quit asks again | violates `DroppedReportsNeedNothing` |
| `matching_wrong_pair` | a candidate leaves in a trial | violates `MatchedAcceptEachOther` |
| `pool_killed_child` | 3 workers, 1 crash | violates `KilledChildrenAwaited` |
| `session_message` | 3 clients, one message each | violates `MessagesToOtherSide` |

Why the bounds are enough.

* Queues.  The interesting situations need a candidate that is the tail and
  one that is not, a user being tried, and one waiting behind it: 4 clients
  have all of them, 3 have all but two at a time.  Two workers give trials in
  parallel and a limit that is reached.  Two requests let a client come back.
  Tastes are mutual because one refusal is as good as two, and a client keeps
  its taste from one request to the next (`Steady`), or everybody likes
  everybody in one of the requests (`Fickle`), which keeps the number of
  initial states small.  `UINT_MAX = 15` is any number above `WORKER_NUMBER`.
* Heap.  4 addresses for at most 4 nodes of each list; `New` takes the lowest
  free one, which is the one freed last more often than not.
* Server.  With 3 clients there are at most two trials at a time, so the limit
  of 2 workers never holds one back here; `matching_free` and `pool` are where
  it does.
* Pool.  The match queue is any, so all loads of 2 workers occur, with two
  children dead at a time.  With `MQ_MAXMSG = 4` the queue of pid reports still
  has room for everybody after one death, and a worker waits for room after the
  second one; with the code's 10 messages it would take more deaths than the
  run has.  The first instance with the late job report of
  `pool_killed_child` has 3 workers, where one crash is enough.
* Sessions.  A message that reaches the wrong client, and a `match_fd` that
  has changed hands, take three connections: two that talk and one that gets
  the fd.  The first client asks twice, so its second conversation may be with
  another one.
* json.  Boundaries are at small numbers (see above); 4 values give an array
  in an object in an array and two members beside each other, 5 pieces an
  array in an array, a surrogate pair in quotation marks, or a number with a
  fraction and an exponent.  The other document is a number, an array or an
  object, so `diff` meets every pair of types; the third value of `OrderIsTotal`
  is a number of each type.  Integers fit a double exactly here; in the program
  they do up to 2^53, and beyond that two of them can equal the same float,
  which no order survives.

Deadlock is not checked: the clients make a bounded number of requests, so the
system really comes to rest; the document's calls end at the bound, the texts
at five pieces.

### Fairness

`HeapFairSpec` has weak fairness of the reports: a worker runs its filters to
the end and the main loop comes back to the queue.  (It is written out as "no
job is out, or a report is handled, again and again".)  `FairSpec` of
`WorkerPool` has weak fairness of the main loop's own steps and of each worker,
which are processes the kernel schedules; serving a client is not among them
and crashes need not happen.  That filters end is an assumption: the code has no
timeout, and a filter that loops keeps its worker for ever.  `SlotsComeBack` says in
its own premise that the clients send no new jobs for ever.  `PidQueueDrains` is
about the queue and not about one worker: that none of several senders that
wait for room is overtaken for ever is up to the kernel (Linux gives the room to
the one that has waited longest) and nothing in the code; weak fairness does not
give it.

### What the runs show

The queues do what they should in the tests regime, in every interleaving: the
parallel pipeline is indistinguishable from serving the users one at a time in
the order they asked, and so is the code's version of it with pointers.  In the
free regime the bookkeeping of jobs, the queues' membership and the
conversations stay right.  The pool counts its slots right and keeps its size,
whatever crashes.  Clients that keep to the protocol always agree with the
server in the end.  json is faithful to its promises within the bounds.  What
does not hold:

1. A candidate that leaves while somebody is tried against it.  `detach` sends
   the user on but leaves it PROCESSING.  An acceptance then matches it with a
   candidate it was not tried against (`matching_wrong_pair`).  A refusal is
   dropped, because the candidate is in `quit_set`, and the user is stuck (the
   same `DroppedReportsNeedNothing` as in 2, with `CandidatesStay = FALSE`).
2. A client that quits and comes back.  `quit_set` keeps its id although no
   job is out, and the first refusal that names it after that is dropped, of
   whomever it is: that of another user tried against it as a candidate
   (`matching_comes_back`; match_queue.cpp:283-287), or its own when it is tried
   itself (`:277-281`).  The user whose refusal it was stays PROCESSING.
3. Job reports that are read before the pid report of the same job.
   `job_record` then holds a job that is finished.  If the child dies in its
   next job before that pid report is read, `handle_child_crash` finds the
   finished job on record and reports that one as refused, for the second time
   (two workers and one crash are enough; `ServerImplementsMatching` below stops
   at the first crash for this reason).  `handle_report` looks for a user that may have left,
   and reads a null node; the slot is free again, but the user that was tried
   stays PROCESSING.  With three workers the
   opposite happens, too: the late job report erases the record of the child's
   next job, and if the child dies in it, it waits in `killed_child` for a
   report that was read before (`pool_killed_child`).  Its slot and its user are
   lost.  `InFlightCounted` is an inequality for this reason.
4. Messages after the end of a conversation go to whoever has the fd
   (`session_message`).
5. Pid reports after crashes.  A pass of the main loop reads one job report and
   one pid report, so the two queues keep step; but a job that ends in a crash
   has a pid report and no job report, and under full load the main loop does
   not make that up.  Once six children have died (4 workers, 10 messages) a
   worker may have to wait for room before each job, until main reads;
   `PidReportsFit` has the number, and `PidQueueDrains` that the wait ends.

Of json, met while modelling, with no run of their own:

* `unflatten` makes an array of an object whose first key is `"0"`; the
  documentation (`json.hpp:12410-12413`) exempts empty structures only.
  `FlattenInverted` leaves such objects out.
* A patch that adds below a number or a string reaches `assert(false)`
  (`:12566-12568`); one that removes below it does nothing (`:12595-12600`).
* A patch's `copy` into an array replaces the element (`:12694`).  Which side of
  `result[ptr] = result.at(from_ptr)` is evaluated first is up to the compiler in
  C++11 (the Makefile's standard), and tells when the target is made by the
  lookup: `ApplyPatch` takes either.
* `operator[]` with a pointer makes the steps it can before it throws.
* An unsigned number above the largest signed one wraps when it meets a signed
  one (`:5945`), so -1 equals the largest unsigned number, which is greater than
  the unsigned 0; `OrderIsTotal` leaves such a mix out.
* When a callback rejects the start of a structure, `depth` stays one too high
  for what follows (`:11405`, `:11484`), where the documentation has it the depth
  of the value.  The callbacks of `json_text` do not look at it.
* A NUL byte ends the text.  `-0` is the integer 0.  A number that overflows
  becomes a float, or null if it overflows that as well (`:11306-11318`).
  `JsonText` has the first three in the reference it compares with.

## The proofs

### `MatchingProofs`

For every number of clients, requests and workers, any taste and either regime:

* `TypeCorrect`: `Spec => []TypeOK`.  Its substance is `DropCandidateFrom`:
  wherever `detach` and `detach_with_matcher` move a user to `node->next`,
  there is such a node, because a user behind the tail has just been promoted.
* `JobsAreAccounted`: `Spec => []JobsAccounted`, that is, `working_job` is the
  number of outstanding jobs and at most `WORKER_NUMBER`;
* `PartnersAlwaysAgree`: `Spec => []PartnersAgree`;
* `EachQueuedOnce`: `Spec => []QueuedOnce`;
* `WorkIsConserved`: `Spec => []WorkConserving`.

They rest on `ConstantsAssumption` only.  The inductive invariant of the first
two is `IInv`, their conjunction.  Neither is inductive alone: the type of
`working_job` needs the count, because the subtraction wraps at zero, and the
count needs the types to know that a handler takes one job out of `jobs` and
adds as many as it counts.  There is a lemma per handler, which rests on
`ArrangeJobType`, since every handler ends in `arrange_job`; that in turn rests
on `StartOrderType`, which bounds the trials that are started by the free
workers.  The searches of the lists are handled by `MinOfNats`.

What a handler does to the count is `CountKept`, the difference between
`working_job` and `jobs`, and what it needs is `Ranged`, the types and the limit.
Neither says that the two are equal, so the lemmas can be used of a server whose
children die, where a report may be about a job that is not out.

The inductive invariant of the others, `PartnersIInv`, is `IInv` with
`PartnersAgree` and `QueuesHold`.  The latter says of the two lists, with `Holds(c, t, M)`, what
`QueuedOnce` counts: their ids are those of the clients that are MATCHING, and
none is there twice.  In this form each move has a lemma (a newcomer, a user or
a candidate that leaves, a user that becomes a candidate), and a handler is a
sequence of moves.  `PartnersAgree` needs it: a match must find both sides
MATCHING, or it would take one out of a conversation and leave its partner
behind.  `WorkConserving` is not in the invariant: `ArrangeJobConserves` shows
that `arrange_job` establishes it from any lists.

### `MatchingSafeProofs`

For all constants and tastes, in the tests regime, which is the assumption
`SteadyClients == CandidatesStay = TRUE /\ QuittersStayOut = TRUE` of each
theorem (the code's own comments make it, see "What the clients may do"; the
violation runs show that it is needed):

* `NoDeadNodeRead`: `Spec => []NeverReadsDeadNode`;
* `PointersStayInOrder`: `Spec => []PointersInOrder`;
* `MarksMeanTrials`: `Spec => []MarkedMeansTried`;
* `MatchesAreMutual`: `Spec => []MatchedAcceptEachOther`;
* `CandidatesRefusedEachOther`: `Spec => []CandidatesIncompatible`.

They are proved together, since each handler needs all of them.  The inductive
invariant `SafeIInv` says that there is a function `pos` from the users in line
to positions in `candidate_queue`, with

* `Lined`: the pointer of user `i` is to the candidate at `pos[i]`, no user is
  ahead of one in front of it, and a user that is tried is strictly behind it;
* `Passed`: the candidates before `pos[i]` have refused user `i`, and each
  candidate has refused those that were candidates before it;
* `TriedBy`: the outstanding jobs are those of the marked users, one each, and
  of users that have left and are in `quit_set`;

and that nobody in `quit_set` waits.  `Lined` is why the user that
`detach_with_matcher` turns into a candidate when the tail leaves was first in
line, and so was refused by all the others: what makes `CandidatesIncompatible`
survive.  `TriedBy` is why a verdict is about the pair the handler finds, and
why a stale report is recognised.  A report that reads a dead node would need a
user with a pointer outside the list, which `Lined` excludes.  There is a lemma
for each change of the line (`LinedNewcomer`, `LinedLess`, `LinedCandidate`,
`LinedFurther`, `LinedDrop`), `ArrangeJobSafe` for the end of every handler,
and one per handler.

### `MatchingServesProofs`

In the tests regime again, for all other constants:

* `ImplementsFirstCompatible`: `Spec => ServesFirstCompatible`, so `Matching`
  implements `FirstCompatible`.

Besides `SteadyClients` it assumes that `Tastes` is about requests that can be
made, `Tastes \subseteq SUBSET (User \X User)`, which is how the abstract
specification has it.  The inductive invariant `ServesIInv` is `SafeIInv` with
`Fresh`: no request in line or in a pair has a counter that its client has not
reached.  The abstract `Join` is of a user that never waited, and this is why
each `try_match` is one.

`Line` is what the abstract specification calls `waiting`: the candidates and,
behind them, the users in line for them.  The argument is what each step does to
it:

* `arrange_job` leaves it as it is (`ArrangeJobOrder`), although it turns users
  into candidates: the first in line moves to the end of the candidates, which
  is the same place (`OrderPromote`);
* a refusal leaves it as it is, because only the first in line can be refused by
  the last candidate (`MoveOnOrder`, from `Lined`), and so does a stale report;
* a candidate or user that leaves takes one element out, although
  `detach_with_matcher` and `detach` may turn another user into a candidate on
  the way (`DropCandidateOrder`, `DetachOrder`);
* a pair takes out two (`PairOrder`), the user and a candidate that accepts it,
  and `Passed` says that it is the first choice of both: the candidates before
  it have refused the user, and it has itself refused everybody between the two.

### `HeapMatchingProofs`

For any number of clients, requests, workers and addresses, any taste, and
whatever the clients do (both switches in either position):

* `ListsStayWellFormed`: `HeapSpec => []ListsWellFormed`.

It rests on `HeapAssumption`: there are at least as many addresses as clients,
that is, `new` does not fail.

The proof is about the code that splices the lists, so it goes through every
pointer that is written.

* *Lists.*  `Chain(list, s)` says that the nodes of a list are those of the
  sequence `s` of addresses.  `PushBackChain` and `EraseChain` prove that
  `push_back` appends to that sequence and `erase` takes one element out,
  whichever it is; `WalkFollows`, that whoever follows `next` from the head
  meets the nodes in this order; `FindId`, `FindValue` and `FindBehind`, that
  a search finds what is there.
* *Loops.*  `arrange_job` and the loop of `detach` write to nodes while they
  walk.  By induction on the rounds (`ArrangeKeeps`, `SendKeeps`), they stay on
  the list they started on and change no link and no id.
* *Handlers.*  `IInv` adds what the lists alone do not say: the nodes are of
  different clients, and all of clients whose status is MATCHING.  This is what
  guarantees every `push_back` an address that no other node has (`Room`), and it
  needs `ClientsOK`: the partner whose status a quit sets to IDLE is in a
  conversation and so in no list.  `DropNodeLists` and `DetachWithMatcherLists`
  follow the two `detach`es through their cases, with the promoted user (whose
  node is freed while the handler still holds pointers next to it) or without.

The theorem says nothing about `matchingWith`: a pointer to a candidate may
dangle when clients leave at will, which is why `NeverReadsDeadNode` is a
property of the tests' regime only.

### `HeapRefinementProofs`

In the tests regime, for all other constants and lists of any length:

* `HeapImplementsMatching`: `HeapSpec => ImplementsMatching`, so `HeapMatching`
  implements `Matching`;
* `HeapIsSafe`: `HeapSpec => []HeapSafe`, what that says of the lists: no handler
  reads a null or freed node, no `matchingWith` is to a freed node, and what a
  walk finds has the other invariants of `MatchingSafeProofs`.

With the first the theorems of the three modules about `Matching` are theorems about
the code's lists and pointers: there `candidate_queue` is what a walk along
`next` finds, and a `matchingWith` is the request of the node it points to.

* *Which pointers.*  `Chain(list, s)` of `HeapMatchingProofs` gives each list its
  sequence of addresses, and `CandOf` and `TryOf` what `Matching` makes of it.
  `Live` says that no `matchingWith` dangles.  The addresses themselves are
  gone: a freed one may be given to the next node at once, and nothing shows.
* *Lists.*  There is one lemma for each thing done to the lists, on both sides at
  once: a node is pushed (`ViewNewCandidate`, `ViewNewTrying`), freed
  (`ViewEraseTrying`, `ViewEraseCandidate`), moved from one list to the other
  (`ViewPromote`) or sent on (`ViewSendOn`); and one for each search
  (`SearchId`, `SearchCandidate`, `SearchBehind`).  A candidate may be freed
  only when nobody points to it, and this is where `Live` has to be earned: in
  `DropNodeIs` and `DetachWithMatcherIs` the users behind it have been sent on
  before.
* *Loops.*  `Matching` sends on all users behind a candidate at once and starts
  trials in the order `StartOrder`.  The code has two loops.  `SendOnRuns` is an
  induction on the rounds of `detach`'s, which stops at the first user that
  points elsewhere; it reaches all that `Matching` sends on because users with
  the same pointer are next to each other (`SafeRuns` of `MatchingSafeProofs`,
  from `Lined`).  `ArrangeRuns` is an induction on the rounds of `arrange_job`:
  after each round the jobs sent so far are a beginning of `StartOrder`.
* *Handlers.*  A handler of `HeapMatching` is one of `Matching`'s on what the
  lists show: `AddSeen`, `DetachSeen`, `HandleMatchSeen`, `MoveOnSeen`,
  `StaleSeen`.

The invariant `Sound` is that of `HeapMatchingProofs` and, of what the lists
show, `SafeIInv`.  The second is needed although it is about `Matching` only:
`Live` follows from it, because a dangling pointer would show as the request of
nobody, which `Lined` excludes.  It is also why the theorem is about the tests
regime, its assumption `SteadyClients`.  In the free regime a pointer may
outlive its node, and TLC finds a step that is not one of `Matching`'s: the
address no longer says whose request it was of, while `Matching` still has the
name of the candidate that left.  When the address is given to a new client's
node, the code finds that one.

`AbsProofs` is the same instance of `Matching` as `Abstract`, with its theorems;
`SameSpec` says so, since the prover does not see it.

### `WorkerPoolProofs`

For every number of workers, pids and jobs, with any match queue:

* `PoolTypeCorrect`: `Spec => []PoolTypeOK`;
* `SlotsAreCounted`: `Spec => []InFlightCounted`;
* `QueuesNeverFull`: `from_main` and `from_worker_job` never hold more than
  `MQ_MAXMSG` messages, so nobody blocks on them.

They rest on `PoolAssumption`, in which `WORKER_NUMBER <= MQ_MAXMSG` is what
`config.hpp` and `mq.cpp` have.  The inductive invariant `IInv` adds three
things to the two:

* `BusyHasJob`: a child that is busy has its job in `assigned`, or the report it
  sends would not be of its type;
* `InOrder(read_fds)`: what is left of a pass is in the order of the fds and
  no fd comes twice;
* `StillReadable`: an fd that `select` found readable still is when its turn
  comes, since nobody else reads from it, so a report is never read from an
  empty queue, which is why each report frees a slot that it had.

`InFlightCounted` is a sum of five numbers, of which an action moves one to
another; `CountParts` and `CountedNow` say so once, and the lemma of each action
names its move.

From the same assumptions, on the size of the pool and of the queue of pid
reports:

* `PoolSizeKept`: `Spec => []PoolKeepsItsSize`;
* `PidReportsAlwaysFit`: `Spec => []PidReportsFit`: no worker has to wait with its
  pid report while at most `MQ_MAXMSG - WORKER_NUMBER - 1` children have died.

The first needs `BornFirst`, since `OneForAnother` forks the first pid that was
not used, and `PidsLeft`, that there is such a pid for every dead child, which
is the bound in the guard of `Crash`.

The second is how long a worker is not blocked by its pid report.  A worker announces
each job on one queue and reports its end on another, and a pass of the main
loop reads at most one message of each.  `PidLag` says that the unread pid
reports are at most the unread job reports, the trials that run and the dead
children, up to `Due`, which depends on where the pass is: a pass that has read
its job report and is about to read a pid report is ahead by one, and one that
found no pid report, but a job report, is behind by one.  The jobs that run or
are reported are at most `WORKER_NUMBER` by `InFlightCounted`, and one less
besides the worker that is about to send.  Without the bound on the dead the
theorem is false: the run `pool` reaches a full queue with its second death.

### `MatchServerProofs`

* `ServerImplementsPool`: `ServerSpec => ImplementsPool`, that is, the match
  queue of the code is one of those that `WorkerPool` allows, for any number of
  clients, requests, workers and crashes, any taste and either regime.

So the five theorems about `WorkerPool` hold of the server, whatever its
handlers do.  It rests on `ConstantsAssumption` and on `ServerAssumption`, which
is what `WorkerPool` assumes of the pids and queues.

Pool and handlers rely on each other.  `handle_report` subtracts from the
unsigned `working_job`, so it needs one that is not zero when it is called: this
is `ReportsHaveSlots`, which follows from the pool's `InFlightCounted`.  The
pool needs handlers that send no more jobs than they take slots; `ArrangeSends`
says so of `arrange_job`, and one lemma per handler says that it ends in there
or sends nothing.  The inductive invariant `ServerIInv` is therefore the pool's
own, `PoolProofs!IInv`, with `Requests`: whoever waits and whatever is out is
from a request that was made, which makes every message a job.

Of the users, again for all constants, any taste, either regime and any crashes:

* `ServerKeepsPartners`: `ServerSpec => []PartnersAgree`;
* `ServerQueuesOnce`: `ServerSpec => []QueuedOnce`;
* `ServerConservesWork`: `ServerSpec => []WorkConserving`.

This is not a consequence of the theorems about `Matching`: when a child has
died a job may be reported twice, and `JobsAccounted` is false then (see 3 in
"What does not hold").  `PeopleIInv` is `ServerIInv` with `Ranged`,
`QueuesHold` and `PartnersAgree`, and the lemmas of the handlers are those of
`MatchingProofs`, which assume of a report only that it names clients.
`PidTurn` of `WorkerPoolProofs` and the types of `job_record` give that.

* `ServerImplementsMatching`: `ServerSpec => ImplementsMatching`, as long as no
  child has died each step of the server is one of `Matching` or none;
* `ServerIsSafe`: `ServerSpec => []ServerSafe`, so until then it has the five
  invariants of `MatchingSafeProofs`, in the tests regime.

The first assumes `SteadyTastes \/ SteadyClients`.  A report names two ids and no
`try_match_counter`, so the report of a client's last request can be taken for
one of its present request with the same candidate.  That makes no difference if
the verdict of the filters is the same for both (`SteadyTastes`), and it does
not happen in the tests regime, where a client does not come back before its
report was read.  With neither the theorem is false: with `Fickle` tastes and
both switches FALSE TLC finds a report that is not the verdict on either job
that `Matching` could take it for.

The inductive invariant `ServedIInv` holds while nobody is dead:

* `EachIsOut`: for any two ids, the messages in `from_main`, the children that
  are busy and the messages in `from_worker_job` that name them are, together,
  at most as many as the jobs that are out and name them.  So the job of each
  report is out; each action moves one from one place to the next
  (`ReceiveServes`, `SendReportServes`, `HandlerServes`);
* `VerdictsRight`: whatever is queued, run or reported has the verdict of every
  job that is out and has its ids (`Settled`).  `JobsAgree` says that these agree
  with each other: by the hypothesis, or, in the tests regime, because `TriedBy`
  of `MatchingSafeProofs` leaves one such job only (`TriedAgree`);
* `killed_child` is a set of dead children, so a pid report is never taken for
  the end of a job.

### `SessionProofs`

For any number of clients, requests and messages, however the commands are cut
by `recv` and whatever crosses on its way, from `SessionAssumption` only:

* `SessionTypeCorrect`: `Spec => []SessionTypeOK`;
* `ServerAlwaysSurvives`: `Spec => []ServerSurvives`, no line ends the server;
* `ConversationsAlwaysAgree`: `Spec => []ConversationsAgree`;
* `AsksOnlyWhenIdle`: `Spec => []AsksWhenIdle`;
* `ViewsFinallyAgree`: `Spec => []ViewsAgree`.

The inductive invariant `IInv` has three concerns.

* *Names.*  `Registered` says that `fd_to_id` and `socket_fd` lead to each
  other, so that fds tell clients apart.  `Partners` is `ConversationsAgree` in
  terms of `match_fd`; it needs `Registered`, for a client that leaves takes its
  fd from the map and the next one gets it.  That there is a fd for the next one
  (`FdIsFree`) follows by counting.
* *Lines.*  `Framed` says that the buffer and what is still to come of a
  client are one stream in which commands and newlines alternate, and that the
  buffer is at most a command without its newline.  `LinesOf` gives what
  `getline` makes of any piece of such a stream, so `Served` knows `cmd_queue` to
  hold commands only and `NoBadLine` follows.
* *Views.*  `Protocol` relates four things: what a client takes its status to
  be, what the server has it as, the commands that the server has not worked on
  and the replies that the client has not read.  Neither `AsksWhenIdle` nor
  `ViewsAgree` is inductive: each holds at one end of the way of a message, and
  `Protocol` says how it comes there.  The request for a match is the crucial
  one: while it is pending the server has the client idle and has no ending
  reply on its way to it, because the client asked after it had read the last.

There is a lemma for each step of the protocol (`ProtocolAsks`,
`ProtocolReads` ...), which knows nothing of queues and buffers, and one for each
action, which finds the step in it.  `Lines` is defined by recursion over the
pieces.  What it yields is not computed but guessed, and shown to satisfy the
recursion: where the two differed first, they would have differed before.

### What is only model-checked

The properties of json, whose definitions are recursive, and liveness, which the
prover cannot do.  (The violation runs need no proof.)

## Not modelled

* Filter libraries: files, gcc, `dlopen`.  Two things there are worth a look: a
  file left from an earlier run of the server is loaded if a compilation fails
  (`load_library_util.cpp:47`), since ids start at 0 again; and `run_filter`
  closes the library when it has no `filter_function`, before `do_job` closes it
  (`match_queue.cpp:25`).
* Failures of system calls: `fork`, `mq_open`, `send`.  A `send` to a
  connection that the client has reset raises SIGPIPE; the model lets it go
  nowhere.
* `select` is modelled twice, for the pool in `WorkerPool` and as "any handler
  of a client next" in `Session`; the order in which two ready clients are
  served is left open there.
* Pids that are used again (`match_queue.cpp:305` assumes the same).
* User data, which nothing but the filters looks at.
* json: iterators, conversions, type traits, hashing, the refilling of the
  scanner's buffer from a stream, and the arithmetic of floats.  They are C++
  machinery without a state or a protocol of their own.

## Plan

1. `MatchServer` composed with `Session`, for a match that is made while one
   side's quit is on its way.
