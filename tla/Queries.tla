-------------------------------- MODULE Queries --------------------------------
(***************************************************************************)
(* The paged reads of crossmatrix.query (slice, trace and stale) and what  *)
(* they select.  A page is cut out of a list that is made anew for every   *)
(* request, at an offset the client gives back as its cursor.              *)
(*                                                                         *)
(* Abstractions.  The order of a list, by id in the code, is a function of *)
(* its elements.  A source reference is looked up by its file; those of    *)
(* observations and of evidence are not followed.                          *)
(***************************************************************************)
EXTENDS Analyses

CONSTANTS
  Files,         \* the sources members refer to
  OutsideFiles,  \* those outside the project directory, never read
  Contents,      \* the hash of what is in each file, None where it is missing
  Limits         \* the limits a request may hold, or None where it holds none

\* A number that is not negative; 0 is not refused.
ASSUME LimitsAssumption == Limits \subseteq Nat \cup {None}

-----------------------------------------------------------------------------
(* Paging *)

\* opt_limit: the limit asked for, up to a maximum.
Limit(asked, default, max) == IF asked = None THEN default ELSE Min({asked, max})

Page(list, offset, limit) == SubSeq(list, offset + 1, Min({offset + limit, Len(list)}))

\* Mutant: the last element counts as the end.
NextCursorShort(offset, limit, total) ==
  IF offset + limit + 1 < total THEN offset + limit ELSE None

NextCursor(offset, limit, total) ==
  IF offset + limit < total THEN offset + limit ELSE None

-----------------------------------------------------------------------------
(* Selectors *)

\* uri_index: the members of a source.
MembersOfSource(doc, file) ==
  {m \in MemberIds : \E d \in DOMAIN doc.dimensions :
     m \in MembersOf(doc, d) /\ Members(doc, d)[m].source # None
       /\ Members(doc, d)[m].source.file = file}

\* resolve_selector and resolve_trace_members: a member by its id, else the
\* members of a source; {} is refused as an unknown member.
Resolve(doc, selector) ==
  IF IsMember(doc, selector) THEN {selector} ELSE MembersOfSource(doc, selector)

\* with_model: over the open model or over the one rolled up from it.
Viewed(doc, rollup) == IF rollup THEN RolledUp(doc) ELSE doc

SliceList(doc, r, from, to) ==
  InOrder({p \in Slice(doc, r, None, None) :
    /\ from = None \/ p[1] \in Resolve(doc, from)
    /\ to = None \/ p[2] \in Resolve(doc, to)})

\* The hops of every member selected, of one direction and relation or of any.
TraceList(doc, selector, relation, direction) ==
  InOrder(UNION {{[of |-> m, hop |-> h] :
      h \in {x \in Trace(doc, m) : /\ relation = None \/ x.relation = relation
                                   /\ direction = None \/ x.direction = direction}} :
    m \in Resolve(doc, selector)})

-----------------------------------------------------------------------------
(* Stale sources *)

\* check_source_ref_staleness: a hash with no file, a missing file or another
\* content.  `findings' asks it of every member, in use or not.
StaleReferences(doc) ==
  {m \in MemberIds : \E d \in DOMAIN doc.dimensions :
     /\ m \in MembersOf(doc, d)
     /\ LET source == Members(doc, d)[m].source
        IN  /\ source # None /\ source.hash # None
            /\ source.file # None => Contents[source.file] # source.hash}

Findings(doc) == [stale |-> StaleReferences(doc), tensions |-> Tensions(doc)]

\* stale: what is known of a source now, from the hashes in the request or, if
\* it asks for that, from the file; "unknown" and "skipped" are not compared.
CurrentHash(source, hashes, readFiles) ==
  IF source = None \/ source.file = None THEN "unknown"
  ELSE IF source.file \in DOMAIN hashes THEN hashes[source.file]
  ELSE IF ~ readFiles THEN "unknown"
  ELSE IF source.file \in OutsideFiles THEN "skipped"
  ELSE Contents[source.file]

IsChanged(source, current) ==
  /\ source # None /\ source.hash # None
  /\ current \notin {"unknown", "skipped"}
  /\ current # source.hash

ChangedList(doc, hashes, readFiles) ==
  InOrder({x \in (DOMAIN doc.dimensions) \X MemberIds :
    /\ x[2] \in MembersOf(doc, x[1])
    /\ LET member == Members(doc, x[1])[x[2]]
       IN  /\ member.status = "active"
           /\ IsChanged(member.source, CurrentHash(member.source, hashes, readFiles))})

\* The cells of relations in use that touch a member of the page.
AffectedCells(doc, page) ==
  LET members == {page[i][2] : i \in DOMAIN page}
  IN  {x \in CellsInUse(doc) : x[2][1] \in members \/ x[2][2] \in members}

\* One answer of stale: at most cellLimit of the affected cells.
StalePage(full, hashes, readFiles, offset, limit, cellLimit) ==
  LET doc == Effective(full)
      list == ChangedList(doc, hashes, readFiles)
      page == Page(list, offset, limit)
      cells == InOrder(AffectedCells(doc, page))
  IN  [changed |-> page,
       affected |-> ToSet(SubSeq(cells, 1, Min({cellLimit, Len(cells)}))),
       truncated |-> Len(cells) > cellLimit,
       next |-> NextCursor(offset, limit, Len(list))]
=============================================================================
