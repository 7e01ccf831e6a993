--------------------------------- MODULE Assist ---------------------------------
(***************************************************************************)
(* The assist queries of one server process: a call plans under the        *)
(* session's lock, asks a judge or a text model without it, and records    *)
(* suggestions under the lock again.  In between other calls, the user's   *)
(* commands, model.open and a restart get in.                              *)
(*                                                                         *)
(* Abstractions.  The states are persisted ones whose files agree with     *)
(* memory (module Session); their file operations succeed, but a kill may  *)
(* come between that of the state file and that of the audit line of a     *)
(* suggestion.  A judge and a text model are configured.  What the judge   *)
(* is told and the words it returns are left out, but for the tokens.      *)
(***************************************************************************)
EXTENDS Writes, Analyses

CONSTANTS
  Calls,        \* the calls a server may have under way
  States,       \* ids of the persisted states
  InitialStates, \* the document of each state at the start
  Locked,       \* the states that are locked
  JudgeTokens,  \* tokens a judge may answer, known to the scale or not
  Requests,     \* <<kind, record, relation, cells or None>> of the judge's calls
  Edits,        \* <<relation, cell, observation>> a user records
  Retirable,    \* the elements a user deprecates
  Joined(_, _, _, _), \* the text jev-<relation>-<from>-<to>-<token>
  MaxCells,     \* cells of one call: maxCells of the request
  MaxAsks, MaxEdits, MaxOpens, MaxRestarts   \* bounds on a behaviour

\* The members of a document, their weights and the values of its levels.
HasNumbers(doc) ==
  /\ DOMAIN doc.dimensions \subseteq DimensionIds
  /\ \A d \in DOMAIN doc.dimensions :
       LET dim == doc.dimensions[d]
       IN  /\ DOMAIN dim = {"weightScale", "members"} /\ DOMAIN dim.members \subseteq MemberIds
           /\ \A m \in DOMAIN dim.members :
                /\ DOMAIN dim.members[m] = {"weight", "token", "source", "status", "successor"}
                /\ dim.members[m].weight \in Int \cup {None}
  /\ \A s \in DOMAIN doc.scales : \A i \in DOMAIN doc.scales[s] : doc.scales[s][i].value \in Int

\* The states' files load, and no judge has been asked; what a user records has
\* no reply; the cells a request names are a list.
ASSUME AssistAssumption ==
  /\ None \notin Nat \cup States
  /\ IsFiniteSet(MemberIds) /\ DimensionOrder \in Seq(DimensionIds)
  /\ DOMAIN InitialStates = States
  /\ \A m \in States :
       LET doc == InitialStates[m]
       IN  /\ IsDocument(doc) /\ HasNumbers(doc) /\ Loads(doc)
           /\ \A r \in DOMAIN doc.relations : \A p \in DOMAIN doc.relations[r].cells :
                \A o \in Range(doc.relations[r].cells[p]) : o.reply = None
  /\ \A edit \in Edits : edit[3].reply = None
  /\ MaxCells \in Nat
  /\ \A request \in Requests :
       /\ request[1] \in {"suggest", "uncertainty"}
       /\ request[4] = None \/ request[4] \in Seq(Range(request[4]))

VARIABLES
  stored,     \* the document of each state
  logged,     \* the request ids in each state's audit log
  open,       \* the state that is open, or None
  cache,      \* request id -> accepted: the process's request cache
  calls,      \* the calls
  lost,       \* history: the suggestions of each state whose audit line a kill cut off
  asks, edits, opens, restarts   \* counters, bounded

counters == <<asks, edits, opens, restarts>>
vars == <<stored, logged, open, cache, calls, lost, counters>>

\* ok: what was answered.  That an answer is partial shows in nothing that follows.
NoCall ==
  [pc |-> "idle", kind |-> None, record |-> FALSE, state |-> None, relation |-> None,
   tokens |-> {}, left |-> <<>>, proposals |-> <<>>, recorded |-> 0, ok |-> FALSE]

Ready(c) == calls[c].pc \in {"idle", "answered"}

\* The session's mutex: held while a call records, and within single steps.
LockFree == \A c \in Calls : calls[c].pc \notin {"recording", "logging"}

Answered(call, ok) == [call EXCEPT !.pc = "answered", !.ok = ok]

\* An answer that nothing was recorded for leaves no trace.
Ended(ok) == Answered(NoCall, ok)

-----------------------------------------------------------------------------
(* Planning *)

\* active_members and derive_candidates: a gap with every member in use on the
\* other axis that has no cell of the relation, the heaviest gap first.
Candidates(full, r) ==
  LET doc == Effective(full)
      rel == doc.relations[r]
      free(d, axis) == {m \in MembersOf(doc, d) :
                          /\ Members(doc, d)[m].status = "active"
                          /\ \A p \in DOMAIN rel.cells : p[axis] # m}
      pairs(gap) == IF gap[1] = rel.from THEN {gap[2]} \X free(rel.to, 2)
                    ELSE IF gap[1] = rel.to THEN free(rel.from, 1) \X {gap[2]}
                    ELSE {}
      add(list, gap) == list \o InOrder(pairs(gap) \ ToSet(list))
  IN  FoldLeft(add, <<>>, GapsNext(full))

\* build_plan: the cells to ask about and the tokens to choose from.
MayPlan(r) ==
  /\ open # None
  /\ r \in DOMAIN stored[open].relations
  /\ LET rel == stored[open].relations[r]
     IN  /\ Declared(stored[open], rel.from) /\ Declared(stored[open], rel.to)
         /\ rel.scale \in DOMAIN stored[open].scales

PlanCells(r, given) ==
  LET cells == IF given = None THEN Candidates(stored[open], r) ELSE given
  IN  SubSeq(cells, 1, Min({MaxCells, Len(cells)}))

Plan(c, kind, record, r, given) ==
  /\ Ready(c) /\ LockFree /\ asks < MaxAsks
  /\ asks' = asks + 1
  /\ calls' = [calls EXCEPT ![c] =
       IF ~ MayPlan(r) THEN Ended(FALSE)
       ELSE [NoCall EXCEPT !.pc = "asking", !.kind = kind, !.record = record,
                           !.state = open, !.relation = r,
                           !.tokens = Tokens(stored[open], stored[open].relations[r].scale),
                           !.left = PlanCells(r, given)]]
  /\ UNCHANGED <<stored, logged, open, cache, lost, edits, opens, restarts>>

-----------------------------------------------------------------------------
(* Asking, one cell at a time and without the lock *)

\* The rest of the cells are not asked about.
Stop(call) == [call EXCEPT !.left = <<>>]

Step(c, next) ==
  /\ calls' = [calls EXCEPT ![c] = next]
  /\ UNCHANGED <<stored, logged, open, cache, lost, counters>>

Asking(c) == calls[c].pc = "asking" /\ calls[c].left # <<>>

\* A question needs an option.
NoQuestion(c) == Asking(c) /\ calls[c].tokens = {} /\ Step(c, Stop(calls[c]))

\* The judge chooses a token; nothing compares it with the options.  Two calls
\* never get the same probabilities: `asks' stands for them.
Reply(c, token) ==
  /\ Asking(c) /\ calls[c].tokens # {}
  /\ Step(c, [calls[c] EXCEPT !.left = Tail(@),
                              !.proposals = Append(@, [from |-> Head(calls[c].left)[1],
                                                       to |-> Head(calls[c].left)[2],
                                                       token |-> token, reply |-> asks])])

\* A reply that is no choice ends a suggestion and is passed over in a ranking.
OddReply(c) ==
  /\ Asking(c) /\ calls[c].tokens # {}
  /\ Step(c, IF calls[c].kind = "uncertainty" THEN [calls[c] EXCEPT !.left = Tail(@)]
             ELSE Stop(calls[c]))

\* A timeout, a refusal or a connection that breaks.
NoReply(c) == Asking(c) /\ calls[c].tokens # {} /\ Step(c, Stop(calls[c]))

-----------------------------------------------------------------------------
(* Recording: all commands of a call under one hold of the lock *)

\* Mutant: every call has request ids of its own.
RequestIdOfCall(r, proposal) ==
  <<Joined(r, proposal.from, proposal.to, proposal.token), proposal.reply>>

\* observe_command.  Ids may hold hyphens themselves, so that what is joined
\* differently may read the same.
RequestId(r, proposal) == Joined(r, proposal.from, proposal.to, proposal.token)

\* Mutant: the suggestion counts as confirmed.
JudgedAsActive(proposal) ==
  [token |-> proposal.token, proposed |-> FALSE, provenance |-> "inferred",
   sourced |-> FALSE, measured |-> None, evidence |-> 1, reply |-> proposal.reply]

Judged(proposal) ==
  [token |-> proposal.token, proposed |-> TRUE, provenance |-> "inferred",
   sourced |-> FALSE, measured |-> None, evidence |-> 1, reply |-> proposal.reply]

\* The lock is taken; the commands follow one by one while it is held.
Lock(c) ==
  /\ calls[c].pc = "asking" /\ calls[c].left = <<>> /\ LockFree
  /\ calls[c].kind = "suggest" /\ calls[c].record /\ calls[c].proposals # <<>>
  /\ Step(c, [calls[c] EXCEPT !.pc = "recording"])

\* The session's answer to the next command: an error ends the recording and is
\* the answer of the call.
Following(call, ok) ==
  IF ~ ok THEN Answered(call, FALSE)
  ELSE IF call.recorded + 1 = Len(call.proposals) THEN Answered([call EXCEPT !.recorded = @ + 1], TRUE)
  ELSE [call EXCEPT !.pc = "recording", !.recorded = @ + 1]

Remember(c, id, ok) ==
  /\ cache' = With(cache, id, ok)
  /\ calls' = [calls EXCEPT ![c] = Following(@, ok)]
  /\ UNCHANGED <<open, lost, counters>>

Recording(c) == calls[c].pc = "recording"
Current(c) == calls[c].proposals[calls[c].recorded + 1]
CurrentId(c) == RequestId(calls[c].relation, Current(c))

\* Session::command: a request seen by this process gets the same answer.
AnswerCached(c) ==
  /\ Recording(c) /\ CurrentId(c) \in DOMAIN cache
  /\ Remember(c, CurrentId(c), cache[CurrentId(c)])
  /\ UNCHANGED <<stored, logged>>

\* A request in the audit log of the open state was carried out by an earlier
\* process.
IsLogged(id) == id \in logged[open]

Replay(c) ==
  /\ Recording(c) /\ CurrentId(c) \notin DOMAIN cache /\ IsLogged(CurrentId(c))
  /\ Remember(c, CurrentId(c), TRUE)
  /\ UNCHANGED <<stored, logged>>

\* Mutant: the observation is not checked.
AcceptsUnchecked(r, proposal) == open \notin Locked

\* The state may be another one than at planning, and have changed since.
Accepts(r, proposal) ==
  /\ open \notin Locked
  /\ MayObserve(stored[open], r, proposal.from, proposal.to, Judged(proposal))
  /\ Loads(Observed(stored[open], r, proposal.from, proposal.to, Judged(proposal)))

Fresh(c) ==
  Recording(c) /\ CurrentId(c) \notin DOMAIN cache /\ ~ IsLogged(CurrentId(c))

Refuse(c) ==
  /\ Fresh(c) /\ ~ Accepts(calls[c].relation, Current(c))
  /\ Remember(c, CurrentId(c), FALSE)
  /\ UNCHANGED <<stored, logged>>

\* The state file is put.  The observation's evidence is new, so it never equals
\* one there.
Record(c) ==
  /\ Fresh(c) /\ Accepts(calls[c].relation, Current(c))
  /\ stored' = [stored EXCEPT ![open] =
       Observed(@, calls[c].relation, Current(c).from, Current(c).to, Judged(Current(c)))]
  /\ calls' = [calls EXCEPT ![c].pc = "logging"]
  /\ UNCHANGED <<logged, open, cache, lost, counters>>

\* Then its line is appended to the audit log, and the command answered.
Log(c) ==
  /\ calls[c].pc = "logging"
  /\ logged' = [logged EXCEPT ![open] = @ \cup {CurrentId(c)}]
  /\ Remember(c, CurrentId(c), TRUE)
  /\ UNCHANGED stored

\* Mutant: an empty answer is not given.
AnswerSome(c) ==
  /\ calls[c].pc = "asking" /\ calls[c].left = <<>> /\ calls[c].proposals # <<>>
  /\ calls[c].kind = "uncertainty" \/ ~ calls[c].record
  /\ Step(c, Ended(TRUE))

Answer(c) ==
  /\ calls[c].pc = "asking" /\ calls[c].left = <<>>
  /\ calls[c].kind = "uncertainty" \/ ~ calls[c].record \/ calls[c].proposals = <<>>
  /\ Step(c, Ended(TRUE))

-----------------------------------------------------------------------------
(* assist.members, assist.narrative and the report with a narrative *)

\* The inputs are taken under the lock; a report is made first and its
\* narrative's inputs under the lock again.  "text" stands for the first two.
Compose(c, kind) ==
  /\ Ready(c) /\ LockFree /\ asks < MaxAsks
  /\ asks' = asks + 1
  /\ calls' = [calls EXCEPT ![c] =
       IF open = None THEN Ended(FALSE)
       ELSE [NoCall EXCEPT !.pc = IF kind = "report" THEN "reported" ELSE "texting",
                           !.kind = kind]]
  /\ UNCHANGED <<stored, logged, open, cache, lost, edits, opens, restarts>>

TakeInputs(c) ==
  calls[c].pc = "reported" /\ LockFree /\ Step(c, [calls[c] EXCEPT !.pc = "texting"])

\* The text model answers or does not; a report is answered either way.
TextEnds(c, answers) ==
  calls[c].pc = "texting" /\ Step(c, Ended(answers \/ calls[c].kind = "report"))

-----------------------------------------------------------------------------
(* The user's commands, model.open and a restart *)

Store(next) ==
  /\ edits < MaxEdits /\ Loads(next)
  /\ stored' = [stored EXCEPT ![open] = next]
  /\ edits' = edits + 1
  /\ UNCHANGED <<logged, open, cache, calls, lost, asks, opens, restarts>>

Writable == LockFree /\ open # None /\ open \notin Locked

Confirm(edit) ==
  /\ Writable
  /\ MayObserve(stored[open], edit[1], edit[2][1], edit[2][2], edit[3])
  /\ Store(Observed(stored[open], edit[1], edit[2][1], edit[2][2], edit[3]))

Retire(target) ==
  /\ Writable
  /\ MayDeprecate(stored[open], target, None)
  /\ Store(Deprecated(stored[open], target, None))

OpenState(m) ==
  /\ LockFree /\ opens < MaxOpens
  /\ open' = m
  /\ opens' = opens + 1
  /\ UNCHANGED <<stored, logged, cache, calls, lost, asks, edits, restarts>>

\* The suggestion in the file of a state whose line is still to come, as
\* <<relation, cell, place>>.
InHand(m) ==
  {LET p == <<Current(c).from, Current(c).to>>
   IN  <<calls[c].relation, p, Len(Cell(stored[m], calls[c].relation, p))>> :
     c \in {d \in Calls : calls[d].pc = "logging" /\ open = m}}

\* The process is killed and started again; its calls are lost.
Restart ==
  /\ restarts < MaxRestarts
  /\ open' = None /\ cache' = << >>
  /\ calls' = [c \in Calls |-> NoCall]
  /\ lost' = [m \in States |-> lost[m] \cup InHand(m)]
  /\ restarts' = restarts + 1
  /\ UNCHANGED <<stored, logged, asks, edits, opens>>

-----------------------------------------------------------------------------
Init ==
  /\ stored = InitialStates /\ logged = [m \in States |-> {}]
  /\ open = None /\ cache = << >>
  /\ calls = [c \in Calls |-> NoCall]
  /\ lost = [m \in States |-> {}]
  /\ asks = 0 /\ edits = 0 /\ opens = 0 /\ restarts = 0

\* What a call does once it is planned.  The judge and the text model answer
\* or time out.
Proceed(c) ==
  \/ NoQuestion(c)
  \/ \E token \in JudgeTokens : Reply(c, token)
  \/ OddReply(c)
  \/ NoReply(c)
  \/ Lock(c) \/ AnswerCached(c) \/ Replay(c) \/ Refuse(c) \/ Record(c) \/ Log(c)
  \/ Answer(c)
  \/ TakeInputs(c)
  \/ \E answers \in BOOLEAN : TextEnds(c, answers)

Next ==
  \/ \E c \in Calls, q \in Requests : Plan(c, q[1], q[2], q[3], q[4])
  \/ \E c \in Calls, kind \in {"text", "report"} : Compose(c, kind)
  \/ \E c \in Calls : Proceed(c)
  \/ \E edit \in Edits : Confirm(edit)
  \/ \E target \in Retirable : Retire(target)
  \/ \E m \in States : OpenState(m)
  \/ Restart

Spec == Init /\ [][Next]_vars /\ \A c \in Calls : WF_vars(Proceed(c))

-----------------------------------------------------------------------------
(* Properties *)

Kinds == {None, "suggest", "uncertainty", "text", "report"}

JudgedOn(cell) == {i \in DOMAIN cell : cell[i].reply # None}

\* The suggestions in a document, as <<relation, cell, place>>, and the request
\* each was recorded by.
Suggestions(doc) ==
  UNION {UNION {{<<r, p, i>> : i \in JudgedOn(doc.relations[r].cells[p])} :
                   p \in DOMAIN doc.relations[r].cells} : r \in DOMAIN doc.relations}

RecordedBy(doc, x) ==
  Joined(x[1], x[2][1], x[2][2], doc.relations[x[1]].cells[x[2]][x[3]].token)

\* What is stored always loads, whatever became of the relation, its scale and
\* its members between the plan and the recording; a call asks about no more
\* cells than it may.
TypeOK ==
  /\ open \in States \cup {None}
  /\ \A id \in DOMAIN cache : cache[id] \in BOOLEAN
  /\ \A c \in Calls :
       /\ calls[c].kind \in Kinds
       /\ calls[c].pc \in {"idle", "asking", "recording", "logging", "reported", "texting", "answered"}
       /\ Len(calls[c].left) + Len(calls[c].proposals) <= MaxCells
  /\ \A m \in States : Loads(stored[m])

\* A suggestion with one token for one cell is stored once, however often it is
\* made, in whichever call, before or after a restart, unless a kill came between
\* its state file and its audit line; each kill does that to one suggestion at
\* most.  Of the others, the audit log of a state names exactly those that its
\* document holds, and no two by the same request (README: requestId makes a
\* command idempotent, also across restarts).
OncePerToken ==
  \A m \in States :
    LET suggestions == Suggestions(stored[m]) \ (lost[m] \cup InHand(m))
    IN  /\ logged[m] = {RecordedBy(stored[m], x) : x \in suggestions}
        /\ \A x, y \in suggestions :
             RecordedBy(stored[m], x) = RecordedBy(stored[m], y) => x = y
        /\ Cardinality(lost[m]) <= restarts

\* A step that is no command of the user's changes no analysis of any state: what
\* a judge says is a proposal until somebody confirms it; and a state that is
\* locked is not written at all, even if the call was planned on another one.
RecordingDecidesNothing ==
  [][edits' = edits =>
       \A m \in States :
         /\ Effective(stored'[m]) = Effective(stored[m])
         /\ m \in Locked => stored'[m] = stored[m]]_vars

\* Every call is answered in the end, or lost in a restart: nobody holds the lock
\* while it waits for an answer.
EveryCallEnds == \A c \in Calls : ~ Ready(c) ~> Ready(c)

\* "record: true stores them as proposed observations" (README): when the answer
\* is ok, the document it was planned on holds every suggestion in it.
AnsweredIsStored ==
  \A c \in Calls :
    LET call == calls[c]
    IN  call.pc = "answered" /\ call.ok /\ call.kind = "suggest" /\ call.record =>
          \A i \in DOMAIN call.proposals :
            LET proposal == call.proposals[i]
                cell == Cell(stored[call.state], call.relation, <<proposal.from, proposal.to>>)
            IN  \E j \in JudgedOn(cell) : cell[j].token = proposal.token
=============================================================================
