----------------------------- MODULE Directory -----------------------------
(***************************************************************************)
(* `mcp-beaver directory`: the pages of the registry are read into a list  *)
(* of servers, these are swept (module Sweep has how), and Write of        *)
(* internal/directory/directory.go lands the record, one guardfile per     *)
(* server that answered, and two pages, in that order, over whatever an    *)
(* earlier run left in the output directory.  With --from the record comes *)
(* from that directory instead.  A run can fail or be killed at any point, *)
(* also inside os.WriteFile, which truncates before it writes.             *)
(*                                                                         *)
(* A surface is what a server's tools declare.  What a guardfile or a page *)
(* says is the record, or the part of it, that it was rendered from.       *)
(***************************************************************************)
EXTENDS Integers, SequencesExt

CONSTANTS
    Names,    \* registry names
    FileOf,   \* GuardfileName
    Said,     \* the answers a server may give: of each of its tools, its `readOnlyHint`
    Scopes,   \* scopes a run may ask for
    Limits,   \* values of --limit; 0 means every one
    MaxPages, \* maxRegistryPages
    MaxRuns   \* bound: runs over one directory

ASSUME FileOfAssumption ==
    /\ DOMAIN FileOf = Names
    /\ \A n \in Names : FileOf[n] \notin {"sweep.json", "index.html", "guardfiles.html"}
ASSUME SaidAssumption ==
    \A said \in Said : \A t \in DOMAIN said : said[t] \in {"true", "false", "null", "missing", "garbled"}
ASSUME ScopesAssumption == Scopes \subseteq {"read-only", "read-write", "all"}
ASSUME BoundsAssumption == Limits \subseteq Nat /\ MaxPages \in Nat \ {0} /\ MaxRuns \in Nat

VARIABLES
    disk,    \* what each path of the output directory holds
    phase,   \* where the run stands
    limit,   \* the run's --limit
    listed,  \* the names kept from the pages read so far
    page,    \* how many pages were read
    rec,     \* the record
    next,    \* which of Writes(rec) comes next
    open,    \* its file is open, and empty
    runs,    \* how many runs there were
    ended    \* whether it has ended, and how

vars == <<disk, phase, limit, listed, page, rec, next, open, runs, ended>>

Files  == {FileOf[n] : n \in Names}
Paths  == {"sweep.json", "index.html", "guardfiles.html"} \cup Files
Absent == [kind |-> "absent"]
Torn   == [kind |-> "torn"]
Blank  == [scope |-> "", servers |-> <<>>]

Init ==
    /\ disk = [p \in Paths |-> Absent]
    /\ phase = "idle"
    /\ limit = 0 /\ listed = <<>> /\ page = 0
    /\ rec = Blank /\ next = 1 /\ open = FALSE
    /\ runs = 0
    /\ ended = "no"

-----------------------------------------------------------------------------
\* readOnlyHints: absent stays absent; JSON null decodes into a bool as false.
Hint(raw) ==
    CASE raw = "true"             -> "yes"
      [] raw \in {"false", "null"} -> "no"
      [] OTHER                    -> "silent"

\* Mutant: the record's hint is a bool, not a pointer with omitempty.
StoredFolded(hint) == IF hint = "yes" THEN "true" ELSE "false"

\* A Tool of the record as JSON.
Stored(hint) ==
    CASE hint = "yes" -> "true" [] hint = "no" -> "false" [] hint = "silent" -> "missing"

\* Select: the tools a scope allows.
Allowed(surface, scope) ==
    {t \in DOMAIN surface : \/ scope = "all"
                            \/ scope = "read-write" /\ surface[t] # "silent"
                            \/ scope = "read-only" /\ surface[t] = "yes"}

\* Coverage.
Coverage(surface) ==
    LET silent == {t \in DOMAIN surface : surface[t] = "silent"}
    IN  CASE silent = DOMAIN surface -> "undeclared" [] silent = {} -> "declared"
          [] OTHER -> "partial"

\* RenderUpstreamGuardfile. `said` is not in the file: the upstream's JSON it goes back to.
Guardfile(server, scope) ==
    [kind |-> "guardfile", of |-> server.name, scope |-> scope, said |-> server.said,
     coverage |-> Coverage(server.surface), allows |-> Allowed(server.surface, scope)]

\* The row of indexView, and the card of guardfilesView, of a server that answered.
Row(server, scope) ==
    [file |-> FileOf[server.name], of |-> server.name, coverage |-> Coverage(server.surface),
     tools |-> DOMAIN server.surface, allows |-> Allowed(server.surface, scope)]

Answered(r)  == {i \in DOMAIN r.servers : r.servers[i].state = "ok"}
Page(r)      == [kind |-> "page",
                 rows |-> {Row(r.servers[i], r.scope) : i \in Answered(r)},
                 refused |-> Cardinality(DOMAIN r.servers \ Answered(r))]
RecordOf(r)  == [kind |-> "record",
                 record |-> [r EXCEPT !.servers = [i \in DOMAIN r.servers |->
                     [r.servers[i] EXCEPT !.surface =
                         [t \in DOMAIN r.servers[i].surface |-> Stored(r.servers[i].surface[t])]]]]]

\* One file to write, or a server to pass over.
Write(path, holds, due) == [path |-> path, holds |-> holds, due |-> due]
RecordWrites(r) == << Write("sweep.json", RecordOf(r), TRUE) >>
GuardfileWrites(r) ==
    [i \in DOMAIN r.servers |->
        Write(FileOf[r.servers[i].name], Guardfile(r.servers[i], r.scope), i \in Answered(r))]
PageWrites(r) == << Write("index.html", Page(r), TRUE), Write("guardfiles.html", Page(r), TRUE) >>

\* Mutant: the pages come before what they point at.
WritesPagesFirst(r) == RecordWrites(r) \o PageWrites(r) \o GuardfileWrites(r)

\* Mutant: a guardfile that is there already is left alone.
WritesMissing(r) ==
    LET missing(w) == disk[w.path] \in {Absent, Torn} \/ disk[w.path] = w.holds
        guardfiles == GuardfileWrites(r)
    IN  RecordWrites(r)
        \o [i \in DOMAIN guardfiles |-> [guardfiles[i] EXCEPT !.due = @ /\ missing(guardfiles[i])]]
        \o PageWrites(r)

\* Write: what lands where, in its order.
Writes(r) == RecordWrites(r) \o GuardfileWrites(r) \o PageWrites(r)

-----------------------------------------------------------------------------
\* A run returns or dies; what it had in memory is gone.
End(how) ==
    /\ phase' = "idle" /\ ended' = how
    /\ limit' = 0 /\ listed' = <<>> /\ page' = 0
    /\ rec' = Blank /\ next' = 1 /\ open' = FALSE

\* The registry fails, a file does, a guardfile does not render or parse back; or the
\* process is killed.
Stop == phase # "idle" /\ End("stopped") /\ UNCHANGED <<disk, runs>>

\* A run that loads its record has no use for a limit.
Begin ==
    /\ phase = "idle" /\ runs < MaxRuns
    /\ runs' = runs + 1
    /\ \/ phase' = "listing" /\ limit' \in Limits
       \/ phase' = "loading" /\ UNCHANGED limit
    /\ ended' = "no"
    /\ UNCHANGED <<disk, listed, page, rec, next, open>>

\* Of the listed items the latest, active ones with a remote are kept, one per name.
Kept(item) ==
    IF item.fit /\ ~Contains(listed, item.name) THEN Append(listed, item.name) ELSE listed

Items == [name : Names, fit : BOOLEAN]

\* Mutant: the count never gets to the cap.
PageWraps == page' = (page + 1) % MaxPages

NextPage == page' = page + 1

\* EnumerateRegistry, a page of one item at a time: it stops at the limit, at the page
\* without a cursor, and, with no error, at the last page it reads.
ReadPage ==
    /\ phase = "listing"
    /\ NextPage
    /\ \E item \in Items, last \in BOOLEAN :
           /\ listed' = Kept(item)
           /\ phase' = IF \/ last
                          \/ limit > 0 /\ Len(listed') >= limit
                          \/ page' = MaxPages
                       THEN "sweeping" ELSE "listing"
    /\ UNCHANGED <<disk, limit, rec, next, open, runs, ended>>

\* Sweep settles every server; FromSweep records what it found.
Recorded(name, answers, said) ==
    IF answers
    THEN [name |-> name, state |-> "ok", said |-> said,
          surface |-> [t \in DOMAIN said |-> Hint(said[t])]]
    ELSE [name |-> name, state |-> "refused", said |-> <<>>, surface |-> <<>>]

SweepAll ==
    /\ phase = "sweeping"
    /\ \E scope \in Scopes, answers \in [DOMAIN listed -> BOOLEAN], said \in [DOMAIN listed -> Said] :
           rec' = [scope |-> scope,
                   servers |-> [i \in DOMAIN listed |-> Recorded(listed[i], answers[i], said[i])]]
    /\ phase' = "writing"
    /\ listed' = <<>> /\ page' = 0
    /\ UNCHANGED <<disk, limit, next, open, runs, ended>>

\* ReadRecord, of any length, and --scope over it when one is given.
Load ==
    /\ phase = "loading"
    /\ disk["sweep.json"].kind = "record"
    /\ LET stored == disk["sweep.json"].record IN
       \E scope \in Scopes \cup {stored.scope} :
           rec' = [scope |-> scope,
                   servers |-> [i \in DOMAIN stored.servers |->
                       [stored.servers[i] EXCEPT !.surface =
                           [t \in DOMAIN stored.servers[i].surface |->
                               Hint(stored.servers[i].surface[t])]]]]
    /\ phase' = "writing"
    /\ UNCHANGED <<disk, limit, listed, page, next, open, runs, ended>>

LoadFails ==
    /\ phase = "loading"
    /\ disk["sweep.json"].kind # "record"
    /\ End("stopped")
    /\ UNCHANGED <<disk, runs>>

\* A server that did not answer has no file.
Skip ==
    /\ phase = "writing" /\ ~Writes(rec)[next].due
    /\ next' = next + 1
    /\ UNCHANGED <<disk, phase, limit, listed, page, rec, open, runs, ended>>

\* os.WriteFile opens the file, which empties it, ...
Truncate ==
    /\ phase = "writing" /\ ~open /\ Writes(rec)[next].due
    /\ disk' = [disk EXCEPT ![Writes(rec)[next].path] = Torn]
    /\ open' = TRUE
    /\ UNCHANGED <<phase, limit, listed, page, rec, next, runs, ended>>

\* ... and writes it.
Fill ==
    /\ phase = "writing" /\ open
    /\ disk' = [disk EXCEPT ![Writes(rec)[next].path] = Writes(rec)[next].holds]
    /\ UNCHANGED runs
    /\ IF next = Len(Writes(rec))
       THEN End("ok")
       ELSE /\ next' = next + 1 /\ open' = FALSE
            /\ UNCHANGED <<phase, limit, listed, page, rec, ended>>

Done == phase = "idle" /\ runs = MaxRuns /\ UNCHANGED vars

Step == Begin \/ ReadPage \/ SweepAll \/ Load \/ LoadFails \/ Skip \/ Truncate \/ Fill
Next == Step \/ Stop \/ Done
Spec == Init /\ [][Next]_vars

-----------------------------------------------------------------------------
\* The run's locals and the files have their types; the names a run keeps are distinct
\* and within its limit.
TypeOK ==
    /\ phase \in {"idle", "listing", "loading", "sweeping", "writing"}
    /\ ended \in {"no", "ok", "stopped"}
    /\ limit \in Limits \cup {0}
    /\ listed \in Seq(Names) /\ IsInjective(listed) /\ (limit > 0 => Len(listed) <= limit)
    /\ page \in 0..MaxPages /\ runs \in 0..MaxRuns /\ open \in BOOLEAN
    /\ \A i \in DOMAIN rec.servers : rec.servers[i].name \in Names
    /\ phase = "writing" => next \in DOMAIN Writes(rec)
    /\ DOMAIN disk = Paths
    /\ \A p \in Paths : disk[p].kind \in {"absent", "torn", "record", "page", "guardfile"}
    /\ disk["sweep.json"].kind \in {"absent", "torn", "record"}
    /\ \A f \in Files : disk[f].kind \in {"absent", "torn", "guardfile"}

\* A row and the guardfile beside it: that server's, from the same answer.
Beside(row, file) ==
    /\ file.kind = "guardfile" /\ file.of = row.of
    /\ file.coverage = row.coverage /\ file.allows = row.allows

\* GuardfileName is not injective, and of two servers with one file name the later one has
\* the file: the one disagreement between a row and a file that Write leaves.
Overwritten(row, rows, file) ==
    \E other \in rows \ {row} : other.file = row.file /\ Beside(other, file)

Agree(row, rows, files) ==
    Beside(row, files[row.file]) \/ Overwritten(row, rows, files[row.file])

Completed == ended = "ok" /\ phase = "idle"

\* docs/directory.md:56-58: "A directory column that disagrees with the guardfile beside it
\* is the one thing this page must not do." It does where two names have one file, and only
\* there (NamesApartHaveTheirFiles).
EveryRowHasItsFile ==
    Completed => \A row \in disk["index.html"].rows : Beside(row, disk[row.file])

\* What does hold: after a run that ended well both pages are there and agree with each
\* other, and the file of every row is that row's guardfile, or that of another row with
\* this file name, whatever earlier runs, killed anywhere, left in the directory.
CompletedIsWhole ==
    Completed =>
        /\ disk["index.html"].kind = "page"
        /\ disk["guardfiles.html"] = disk["index.html"]
        /\ \A row \in disk["index.html"].rows :
               Agree(row, disk["index.html"].rows, disk)

\* An index page never becomes visible before the guardfiles it links to: at the write of
\* the page they are already those of its rows, the overwritten ones excepted.
PageAfterItsFiles ==
    [][disk'["index.html"] # disk["index.html"] /\ disk'["index.html"].kind = "page" =>
           \A row \in disk'["index.html"].rows : Agree(row, disk'["index.html"].rows, disk')]_vars

\* What a guardfile on the disk allows goes back to what the upstream's JSON said of the
\* tool, through the capture, the record and its reload: under every scope but `all` a tool
\* that declared nothing is not allowed, and under read-only only one that said true.
AllowedWasDeclared ==
    \A f \in Files : disk[f].kind = "guardfile" =>
        \A t \in disk[f].allows :
            /\ disk[f].scope # "all" => disk[f].said[t] \in {"true", "false", "null"}
            /\ disk[f].scope = "read-only" => disk[f].said[t] = "true"

\* How far a run has got, and how much of its phase is left: the pages that may still
\* come, or the halves of the writes of its record, which may be of any length.
Rank ==
    CASE phase = "idle" -> 0 [] phase = "writing" -> 1 [] phase = "listing" -> 3 [] OTHER -> 2
Left ==
    CASE phase = "listing" -> MaxPages - page
      [] phase = "writing" -> 2 * (Len(Writes(rec)) - next) + (IF open THEN 0 ELSE 1)
      [] OTHER             -> 0

\* Every step of a run takes it to a later phase or nearer to the end of its phase: whatever
\* cursors the registry hands out, no limit given, and however long the record is that
\* --from reads (maxRegistryPages, registry.go:61).
RunsAreBounded ==
    [][runs' = runs =>
           \/ Rank' < Rank
           \/ Rank' = Rank /\ Left' \in Nat /\ Left' < Left]_vars
=============================================================================
