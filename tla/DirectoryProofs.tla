--------------------------- MODULE DirectoryProofs ---------------------------
(***************************************************************************)
(* Proofs about Directory, for any registry, any answers and scopes, any   *)
(* limits, and any number of runs that fail or are killed anywhere.  What  *)
(* a run has written so far is on the disk, except for the file it has     *)
(* open; a name that two servers share holds the file of one of them.  And *)
(* whatever is on the disk, in memory or in the stored record goes back to *)
(* what an upstream said.  The last part is about the sweep that asks.     *)
(***************************************************************************)
EXTENDS Directory, SequenceTheorems, TLAPS

\* A server of a record in memory, and of a record as stored.
Shaped(server) ==
    /\ server = [name |-> server.name, state |-> server.state,
                 said |-> server.said, surface |-> server.surface]
    /\ server.name \in Names
HeardAs(said)  == [t \in DOMAIN said |-> Hint(said[t])]
StoredAs(said) == [t \in DOMAIN said |-> Stored(Hint(said[t]))]
HeardOK(server) ==
    Shaped(server) /\ (server.state = "ok" => server.said \in Said /\ server.surface = HeardAs(server.said))
StoredOK(server) ==
    Shaped(server) /\ (server.state = "ok" => server.said \in Said /\ server.surface = StoredAs(server.said))

\* A record in memory, and one on the disk.
RecordShaped(r) ==
    /\ r = [scope |-> r.scope, servers |-> r.servers] /\ r.scope \in Scopes
    /\ Len(r.servers) \in Nat /\ DOMAIN r.servers = 1 .. Len(r.servers)
    /\ \A i, j \in DOMAIN r.servers : r.servers[i].name = r.servers[j].name => i = j
RecordOK(r) == RecordShaped(r) /\ \A i \in DOMAIN r.servers : HeardOK(r.servers[i])
LoadableOK(r) == RecordShaped(r) /\ \A i \in DOMAIN r.servers : StoredOK(r.servers[i])

\* A guardfile was rendered from what a server said.
GuardfileOK(file) ==
    /\ file.scope \in Scopes /\ file.said \in Said
    /\ file.allows = Allowed(HeardAs(file.said), file.scope)

\* A page has one row to a server, and points at the file of its name.
PageOK(file) ==
    /\ \A row \in file.rows : row.of \in Names /\ row.file = FileOf[row.of]
    /\ \A row, other \in file.rows : row.of = other.of => row = other

\* What a path may hold once it was written.
Fits(path, file) ==
    /\ path = "sweep.json" => file.kind = "record" /\ LoadableOK(file.record)
    /\ path \in {"index.html", "guardfiles.html"} => file.kind = "page" /\ PageOK(file)
    /\ path \in Files => file.kind = "guardfile" /\ GuardfileOK(file)

DiskOK ==
    /\ DOMAIN disk = Paths
    /\ \A p \in Paths : disk[p].kind \in {"absent", "torn"} \/ Fits(p, disk[p])

LocalsOK ==
    /\ phase \in {"idle", "listing", "loading", "sweeping", "writing"}
    /\ ended \in {"no", "ok", "stopped"}
    /\ limit \in Limits \cup {0}
    /\ listed \in Seq(Names) /\ IsInjective(listed) /\ (limit > 0 => Len(listed) <= limit)
    /\ page \in 0..MaxPages /\ runs \in 0..MaxRuns /\ open \in BOOLEAN
    /\ phase \in {"idle", "loading"} => limit = 0 /\ listed = <<>> /\ page = 0
    /\ phase = "listing" => (limit > 0 => Len(listed) < limit) /\ page < MaxPages
    /\ phase # "writing" => rec = Blank /\ next = 1 /\ open = FALSE
    /\ phase = "writing" => /\ RecordOK(rec) /\ next \in DOMAIN Writes(rec)
                            /\ open => Writes(rec)[next].due

\* What was written by now is there, or another file of that name is, or is on its way.
Landed ==
    phase = "writing" =>
        \A j \in 1 .. next - 1 : Writes(rec)[j].due =>
            \/ open /\ Writes(rec)[next].path = Writes(rec)[j].path
            \/ \E k \in 1 .. next - 1 : /\ Writes(rec)[k].due
                                        /\ Writes(rec)[k].path = Writes(rec)[j].path
                                        /\ disk[Writes(rec)[j].path] = Writes(rec)[k].holds

DirectoryInv == DiskOK /\ LocalsOK /\ Landed /\ CompletedIsWhole

-----------------------------------------------------------------------------
\* The writes of a record, by position: the record, a file or nothing per server, two pages.
LEMMA WritesShape ==
    ASSUME NEW r, RecordShaped(r)
    PROVE  LET n == Len(r.servers) IN
           /\ Len(Writes(r)) = n + 3 /\ DOMAIN Writes(r) = 1 .. n + 3
           /\ Writes(r)[1] = Write("sweep.json", RecordOf(r), TRUE)
           /\ \A i \in 1 .. n :
                  Writes(r)[i + 1] = Write(FileOf[r.servers[i].name], Guardfile(r.servers[i], r.scope),
                                           i \in Answered(r))
           /\ Writes(r)[n + 2] = Write("index.html", Page(r), TRUE)
           /\ Writes(r)[n + 3] = Write("guardfiles.html", Page(r), TRUE)
<1> DEFINE n == Len(r.servers)
           files == GuardfileWrites(r)
           S == {Write("sweep.json", RecordOf(r), TRUE), Write("index.html", Page(r), TRUE),
                 Write("guardfiles.html", Page(r), TRUE)} \cup {files[i] : i \in 1 .. n}
<1>1. n \in Nat /\ DOMAIN r.servers = 1 .. n
    BY DEF RecordShaped
<1>2. files \in Seq(S) /\ Len(files) = n
  <2>1. files = [i \in 1 .. n |-> Write(FileOf[r.servers[i].name], Guardfile(r.servers[i], r.scope),
                                        i \in Answered(r))]
      BY <1>1 DEF GuardfileWrites
  <2>2. files \in [1 .. n -> S]
      BY <2>1
  <2> HIDE DEF files, S
  <2> QED
      BY <1>1, <2>2
<1>3. RecordWrites(r) \in Seq(S) /\ Len(RecordWrites(r)) = 1
      /\ RecordWrites(r)[1] = Write("sweep.json", RecordOf(r), TRUE)
    BY DEF RecordWrites
<1>4. PageWrites(r) \in Seq(S) /\ Len(PageWrites(r)) = 2
      /\ PageWrites(r)[1] = Write("index.html", Page(r), TRUE)
      /\ PageWrites(r)[2] = Write("guardfiles.html", Page(r), TRUE)
    BY DEF PageWrites
<1>5. \A i \in 1 .. n : files[i] = Write(FileOf[r.servers[i].name], Guardfile(r.servers[i], r.scope),
                                         i \in Answered(r))
    BY <1>1 DEF GuardfileWrites
<1> DEFINE head == RecordWrites(r) \o files
<1>6. /\ head \in Seq(S) /\ Len(head) = n + 1 /\ head[1] = RecordWrites(r)[1]
      /\ \A i \in 1 .. n : head[i + 1] = files[i]
  <2> HIDE DEF files, S, n
  <2> DEFINE one == RecordWrites(r)
  <2>0. one \in Seq(S) /\ files \in Seq(S)
      BY <1>2, <1>3
  <2>1. /\ head \in Seq(S) /\ Len(head) = Len(one) + Len(files)
        /\ \A i \in 1 .. Len(one) + Len(files) : head[i] = IF i <= Len(one) THEN one[i] ELSE files[i - Len(one)]
      BY <2>0, ConcatProperties
  <2>2. Len(one) = 1 /\ one[1] = Write("sweep.json", RecordOf(r), TRUE) /\ Len(files) = n
      BY <1>2, <1>3
  <2> HIDE DEF head, one
  <2>3. Len(head) = n + 1
      BY <1>1, <2>1, <2>2
  <2>5. head[1] = one[1]
    <3>1. 1 \in 1 .. Len(one) + Len(files) /\ 1 <= Len(one)
        BY <1>1, <2>2
    <3> QED
        BY <2>1, <3>1
  <2>4. ASSUME NEW i \in 1 .. n PROVE head[i + 1] = files[i]
    <3>1. i + 1 \in 1 .. Len(one) + Len(files) /\ ~(i + 1 <= Len(one)) /\ i + 1 - Len(one) = i
        BY <1>1, <2>2
    <3> QED
        BY <2>1, <3>1
  <2> QED
      BY <2>1, <2>3, <2>4, <2>5 DEF one
<1>7. Writes(r) = head \o PageWrites(r)
    BY DEF Writes
<1>8. /\ Writes(r) \in Seq(S) /\ Len(Writes(r)) = n + 3 /\ DOMAIN Writes(r) = 1 .. n + 3
      /\ \A i \in 1 .. n + 3 : Writes(r)[i] = IF i <= n + 1 THEN head[i] ELSE PageWrites(r)[i - (n + 1)]
  <2> HIDE DEF head, S, n
  <2> DEFINE two == PageWrites(r)
             all == head \o two
  <2>1. head \in Seq(S) /\ two \in Seq(S) /\ Len(head) = n + 1 /\ Len(two) = 2
      BY <1>4, <1>6
  <2>2. /\ all \in Seq(S) /\ Len(all) = Len(head) + Len(two)
        /\ \A i \in 1 .. Len(head) + Len(two) : all[i] = IF i <= Len(head) THEN head[i] ELSE two[i - Len(head)]
      BY <2>1, ConcatProperties
  <2>3. DOMAIN all = 1 .. Len(all)
      BY <2>2, LenProperties
  <2>4. Len(head) + Len(two) = n + 3
      BY <1>1, <2>1
  <2> HIDE DEF all, two
  <2>5. /\ all \in Seq(S) /\ Len(all) = n + 3 /\ DOMAIN all = 1 .. n + 3
        /\ \A i \in 1 .. n + 3 : all[i] = IF i <= n + 1 THEN head[i] ELSE two[i - (n + 1)]
      BY <2>1, <2>2, <2>3, <2>4
  <2> QED
      BY <1>7, <2>5 DEF all, two
<1> HIDE DEF head, files, S, n
<1>9. Writes(r)[1] = head[1] /\ (\A i \in 1 .. n : Writes(r)[i + 1] = head[i + 1])
    BY <1>1, <1>8
<1>10. Writes(r)[n + 2] = PageWrites(r)[1] /\ Writes(r)[n + 3] = PageWrites(r)[2]
    BY <1>1, <1>8
<1>11. \A i \in 1 .. n : Writes(r)[i + 1] = Write(FileOf[r.servers[i].name], Guardfile(r.servers[i], r.scope),
                                                  i \in Answered(r))
    BY <1>5, <1>6, <1>9
<1> QED
    BY <1>3, <1>4, <1>6, <1>8, <1>9, <1>10, <1>11 DEF n

\* A guardfile is neither the record nor a page.
LEMMA FilesApart ==
    /\ \A n \in Names : FileOf[n] \in Files
    /\ Files \cap {"sweep.json", "index.html", "guardfiles.html"} = {}
BY FileOfAssumption DEF Files

LEMMA WriteDue == \A path, holds, due : Write(path, holds, due).due = due
BY DEF Write

\* One write of a good record: what is where, and what of.
ServerOf(r, j, i) ==
    /\ i \in DOMAIN r.servers /\ j = i + 1 /\ r.servers[i].name \in Names
    /\ Writes(r)[j].path = FileOf[r.servers[i].name] /\ Writes(r)[j].path \in Files
    /\ Writes(r)[j].holds = Guardfile(r.servers[i], r.scope)
    /\ Writes(r)[j].due <=> i \in Answered(r)

LEMMA WriteCases ==
    ASSUME NEW r, RecordOK(r), NEW j \in DOMAIN Writes(r)
    PROVE  LET n == Len(r.servers) IN
           /\ n \in Nat /\ j \in 1 .. n + 3
           /\ \/ j = 1 /\ Writes(r)[j] = Write("sweep.json", RecordOf(r), TRUE)
              \/ j \in 2 .. n + 1 /\ \E i \in 1 .. n : ServerOf(r, j, i)
              \/ j = n + 2 /\ Writes(r)[j] = Write("index.html", Page(r), TRUE)
              \/ j = n + 3 /\ Writes(r)[j] = Write("guardfiles.html", Page(r), TRUE)
<1> DEFINE n == Len(r.servers)
<1>1. RecordShaped(r) /\ n \in Nat /\ DOMAIN r.servers = 1 .. n
    BY DEF RecordOK, RecordShaped
<1>2. j \in 1 .. n + 3
    BY <1>1, WritesShape
<1>3. CASE j \in 2 .. n + 1
  <2>1. j - 1 \in 1 .. n /\ (j - 1) + 1 = j
      BY <1>1, <1>3
  <2>2. PICK i \in 1 .. n : j = i + 1
      BY <2>1
  <2>3. Writes(r)[j] = Write(FileOf[r.servers[i].name], Guardfile(r.servers[i], r.scope), i \in Answered(r))
      BY <1>1, <2>2, WritesShape
  <2>4. r.servers[i].name \in Names
      BY <1>1 DEF RecordOK, HeardOK, Shaped
  <2>5. ServerOf(r, j, i)
    <3>1. Writes(r)[j].path = FileOf[r.servers[i].name] /\ Writes(r)[j].holds = Guardfile(r.servers[i], r.scope)
        BY <2>3 DEF Write
    <3>2. Writes(r)[j].due = (i \in Answered(r))
      <4> DEFINE due == i \in Answered(r)
                 path == FileOf[r.servers[i].name]
                 holds == Guardfile(r.servers[i], r.scope)
      <4>1. Writes(r)[j] = Write(path, holds, due)
          BY <2>3
      <4>2. Write(path, holds, due).due = due
          BY WriteDue
      <4> HIDE DEF due, path, holds
      <4> QED
          BY <4>1, <4>2 DEF due
    <3> QED
        BY <1>1, <2>2, <2>4, <3>1, <3>2, FilesApart DEF ServerOf
  <2> QED
      BY <1>1, <1>2, <1>3, <2>5
<1>4. CASE j \notin 2 .. n + 1
  <2>1. j \in {1, n + 2, n + 3}
      BY <1>1, <1>2, <1>4
  <2> QED
      BY <1>1, <1>2, <2>1, WritesShape
<1> QED
    BY <1>3, <1>4

\* A hint that is stored and read again is the hint.
LEMMA HintSurvives == \A raw : Hint(Stored(Hint(raw))) = Hint(raw)
BY DEF Hint, Stored

LEMMA RecordSurvives ==
    ASSUME NEW r, RecordOK(r)
    PROVE  RecordOf(r).kind = "record" /\ LoadableOK(RecordOf(r).record)
<1> DEFINE kept(s) == [s EXCEPT !.surface = [t \in DOMAIN s.surface |-> Stored(s.surface[t])]]
           stored == RecordOf(r).record
<1>1. RecordShaped(r)
    BY DEF RecordOK
<1>2. stored = [r EXCEPT !.servers = [i \in DOMAIN r.servers |-> kept(r.servers[i])]]
    BY DEF RecordOf
<1>3. stored = [scope |-> r.scope, servers |-> [i \in 1 .. Len(r.servers) |-> kept(r.servers[i])]]
    BY <1>1, <1>2 DEF RecordShaped
<1> HIDE DEF stored, kept
<1>4. RecordShaped(stored) /\ DOMAIN stored.servers = DOMAIN r.servers
  <2>1. stored.servers \in Seq({kept(r.servers[i]) : i \in 1 .. Len(r.servers)})
      BY <1>1, <1>3 DEF RecordShaped
  <2>2. DOMAIN stored.servers = 1 .. Len(r.servers) /\ Len(r.servers) \in Nat
      BY <1>1, <1>3 DEF RecordShaped
  <2>3. Len(stored.servers) \in Nat /\ DOMAIN stored.servers = 1 .. Len(stored.servers)
      BY <2>1, LenProperties
  <2>4. \A i \in DOMAIN r.servers : stored.servers[i].name = r.servers[i].name
    <3> SUFFICES ASSUME NEW i \in DOMAIN r.servers PROVE stored.servers[i].name = r.servers[i].name
        OBVIOUS
    <3>1. stored.servers[i] = kept(r.servers[i]) /\ HeardOK(r.servers[i])
        BY <1>1, <1>3 DEF RecordOK, RecordShaped
    <3> QED
        BY <3>1 DEF kept, HeardOK, Shaped
  <2>5. \A i, j \in DOMAIN r.servers : r.servers[i].name = r.servers[j].name => i = j
      BY <1>1 DEF RecordShaped
  <2> QED
      BY <1>1, <1>3, <2>2, <2>3, <2>4, <2>5 DEF RecordShaped
<1>5. ASSUME NEW i \in DOMAIN r.servers PROVE StoredOK(stored.servers[i])
  <2> DEFINE s == r.servers[i]
  <2>1. HeardOK(s) /\ stored.servers[i] = kept(s)
      BY <1>1, <1>3 DEF RecordOK, RecordShaped
  <2> HIDE DEF s
  <2>2. kept(s) = [name |-> s.name, state |-> s.state, said |-> s.said,
                   surface |-> [t \in DOMAIN s.surface |-> Stored(s.surface[t])]]
      BY <2>1 DEF kept, HeardOK, Shaped
  <2>3. s.state = "ok" => kept(s).surface = StoredAs(s.said)
      BY <2>1, <2>2 DEF HeardOK, HeardAs, StoredAs
  <2> QED
      BY <2>1, <2>2, <2>3 DEF HeardOK, StoredOK, Shaped
<1> QED
    BY <1>4, <1>5 DEF LoadableOK, RecordOf, stored

LEMMA RecordReloads ==
    ASSUME NEW r, LoadableOK(r), NEW scope \in Scopes
    PROVE  RecordOK([scope |-> scope,
                     servers |-> [i \in DOMAIN r.servers |->
                         [r.servers[i] EXCEPT !.surface =
                             [t \in DOMAIN r.servers[i].surface |-> Hint(r.servers[i].surface[t])]]]])
<1> DEFINE read(s) == [s EXCEPT !.surface = [t \in DOMAIN s.surface |-> Hint(s.surface[t])]]
           servers == [i \in DOMAIN r.servers |-> read(r.servers[i])]
           loaded == [scope |-> scope, servers |-> servers]
<1>1. RecordShaped(r)
    BY DEF LoadableOK
<1>2. servers = [i \in 1 .. Len(r.servers) |-> read(r.servers[i])] /\ DOMAIN servers = DOMAIN r.servers
    BY <1>1 DEF RecordShaped
<1> HIDE DEF read
<1>3. \A i \in DOMAIN r.servers : servers[i] = read(r.servers[i])
    OBVIOUS
<1> HIDE DEF servers
<1>4. RecordShaped(loaded)
  <2>1. servers \in Seq({read(r.servers[i]) : i \in 1 .. Len(r.servers)})
      BY <1>1, <1>2 DEF RecordShaped
  <2>2. Len(servers) \in Nat /\ DOMAIN servers = 1 .. Len(servers)
      BY <2>1, LenProperties
  <2>3. \A i \in DOMAIN r.servers : servers[i].name = r.servers[i].name
    <3> SUFFICES ASSUME NEW i \in DOMAIN r.servers PROVE servers[i].name = r.servers[i].name
        OBVIOUS
    <3>1. servers[i] = read(r.servers[i]) /\ StoredOK(r.servers[i])
        BY <1>3 DEF LoadableOK
    <3> QED
        BY <3>1 DEF read, StoredOK, Shaped
  <2>4. \A i, j \in DOMAIN r.servers : r.servers[i].name = r.servers[j].name => i = j
      BY <1>1 DEF RecordShaped
  <2>5. loaded.scope = scope /\ loaded.servers = servers /\ loaded = [scope |-> loaded.scope, servers |-> loaded.servers]
      OBVIOUS
  <2>6. \A i, j \in DOMAIN servers : servers[i].name = servers[j].name => i = j
    <3>1. DOMAIN servers = DOMAIN r.servers
        BY <1>2
    <3> QED
        BY <2>3, <2>4, <3>1, Zenon
  <2> HIDE DEF loaded
  <2> QED
      BY <2>2, <2>5, <2>6 DEF RecordShaped
<1>5. ASSUME NEW i \in DOMAIN r.servers PROVE HeardOK(servers[i])
  <2> DEFINE s == r.servers[i]
  <2>1. StoredOK(s) /\ servers[i] = read(s)
      BY <1>3 DEF LoadableOK
  <2> HIDE DEF s
  <2>2. read(s) = [name |-> s.name, state |-> s.state, said |-> s.said,
                   surface |-> [t \in DOMAIN s.surface |-> Hint(s.surface[t])]]
      BY <2>1 DEF read, StoredOK, Shaped
  <2>3. s.state = "ok" => read(s).surface = HeardAs(s.said)
      BY <2>1, <2>2, HintSurvives DEF StoredOK, HeardAs, StoredAs
  <2> QED
      BY <2>1, <2>2, <2>3 DEF HeardOK, StoredOK, Shaped
<1>6. RecordOK(loaded)
    BY <1>2, <1>4, <1>5 DEF RecordOK
<1> QED
    BY <1>6 DEF servers, read

\* A page of a good record has its rows in order.
LEMMA PageFits ==
    ASSUME NEW r, RecordOK(r)
    PROVE  Page(r).kind = "page" /\ PageOK(Page(r))
<1>1. Page(r).kind = "page" /\ Page(r).rows = {Row(r.servers[i], r.scope) : i \in Answered(r)}
    BY DEF Page
<1>2. ASSUME NEW i \in Answered(r)
      PROVE  /\ i \in DOMAIN r.servers /\ r.servers[i].name \in Names
             /\ Row(r.servers[i], r.scope).of = r.servers[i].name
             /\ Row(r.servers[i], r.scope).file = FileOf[r.servers[i].name]
    BY DEF Answered, RecordOK, HeardOK, Shaped, Row
<1>3. \A i, j \in DOMAIN r.servers : r.servers[i].name = r.servers[j].name => i = j
    BY DEF RecordOK, RecordShaped
<1>4. ASSUME NEW row \in Page(r).rows, NEW other \in Page(r).rows, row.of = other.of
      PROVE  row = other
  <2>1. PICK i \in Answered(r) : row = Row(r.servers[i], r.scope)
      BY <1>1
  <2>2. PICK j \in Answered(r) : other = Row(r.servers[j], r.scope)
      BY <1>1
  <2>3. i = j
      BY <1>2, <1>3, <1>4, <2>1, <2>2
  <2> QED
      BY <2>1, <2>2, <2>3
<1>5. ASSUME NEW row \in Page(r).rows
      PROVE  row.of \in Names /\ row.file = FileOf[row.of]
  <2>1. PICK i \in Answered(r) : row = Row(r.servers[i], r.scope)
      BY <1>1
  <2> QED
      BY <1>2, <2>1
<1> QED
    BY <1>1, <1>4, <1>5 DEF PageOK

\* What is due at a path fits it.
LEMMA DueFits ==
    ASSUME NEW r, RecordOK(r), NEW j \in DOMAIN Writes(r), Writes(r)[j].due
    PROVE  Writes(r)[j].path \in Paths /\ Fits(Writes(r)[j].path, Writes(r)[j].holds)
<1> DEFINE w == Writes(r)[j]
<1>1. CASE w = Write("sweep.json", RecordOf(r), TRUE)
    BY <1>1, FilesApart, RecordSurvives DEF Write, Fits, Paths
<1>2. CASE w = Write("index.html", Page(r), TRUE) \/ w = Write("guardfiles.html", Page(r), TRUE)
  <2>1. w.path \in {"index.html", "guardfiles.html"} /\ w.holds = Page(r)
      BY <1>2 DEF Write
  <2>2. Page(r).kind = "page" /\ PageOK(Page(r))
      BY PageFits
  <2> QED
      BY <2>1, <2>2, FilesApart DEF Fits, Paths
<1>3. ASSUME NEW i, ServerOf(r, j, i) PROVE w.path \in Paths /\ Fits(w.path, w.holds)
  <2> DEFINE server == r.servers[i]
  <2>1. server.state = "ok" /\ HeardOK(server) /\ r.scope \in Scopes
      BY <1>3 DEF ServerOf, Answered, RecordOK, RecordShaped
  <2>2. w.path \in Files /\ w.holds = Guardfile(server, r.scope)
      BY <1>3 DEF ServerOf
  <2>3. server.said \in Said /\ server.surface = HeardAs(server.said)
      BY <2>1 DEF HeardOK
  <2>4. w.holds.kind = "guardfile" /\ GuardfileOK(w.holds)
      BY <2>1, <2>2, <2>3 DEF GuardfileOK, Guardfile
  <2> QED
      BY <2>2, <2>4, FilesApart DEF Fits, Paths
<1> QED
    BY <1>1, <1>2, <1>3, WriteCases

\* Every server that answered has the guardfile of a server that answered at its path.
GuardfilesOn(files, r) ==
    \A i \in Answered(r) : \E k \in Answered(r) :
        /\ FileOf[r.servers[k].name] = FileOf[r.servers[i].name]
        /\ files[FileOf[r.servers[i].name]] = Guardfile(r.servers[k], r.scope)

LEMMA RowsAgree ==
    ASSUME NEW r, NEW files, GuardfilesOn(files, r)
    PROVE  \A row \in Page(r).rows : Agree(row, Page(r).rows, files)
<1> SUFFICES ASSUME NEW row \in Page(r).rows PROVE Agree(row, Page(r).rows, files)
    OBVIOUS
<1>1. Page(r).rows = {Row(r.servers[i], r.scope) : i \in Answered(r)}
    BY DEF Page
<1>2. PICK i \in Answered(r) : row = Row(r.servers[i], r.scope)
    BY <1>1
<1>3. PICK k \in Answered(r) : /\ FileOf[r.servers[k].name] = FileOf[r.servers[i].name]
                               /\ files[FileOf[r.servers[i].name]] = Guardfile(r.servers[k], r.scope)
    BY DEF GuardfilesOn
<1> DEFINE other == Row(r.servers[k], r.scope)
           file == Guardfile(r.servers[k], r.scope)
<1>4. other \in Page(r).rows
    BY <1>1
<1>5. row.file = FileOf[r.servers[i].name] /\ other.file = FileOf[r.servers[k].name]
    BY <1>2 DEF Row
<1>6. file.kind = "guardfile" /\ other.of = file.of /\ other.coverage = file.coverage /\ other.allows = file.allows
    BY DEF Row, Guardfile
<1>7. row.file = other.file /\ Beside(other, files[row.file])
    BY <1>3, <1>5, <1>6 DEF Beside
<1> HIDE DEF other
<1> QED
    BY <1>4, <1>7 DEF Agree, Overwritten

\* When the pages come, the guardfiles are there, and before the second page the first.
LEMMA PagesComeLast ==
    ASSUME RecordOK(rec), phase = "writing", Landed,
           next \in DOMAIN Writes(rec), next >= Len(rec.servers) + 2
    PROVE  /\ GuardfilesOn(disk, rec)
           /\ next = Len(rec.servers) + 3 => disk["index.html"] = Page(rec)
<1> DEFINE n == Len(rec.servers)
<1>1. n \in Nat /\ RecordShaped(rec) /\ DOMAIN Writes(rec) = 1 .. n + 3 /\ DOMAIN rec.servers = 1 .. n
    BY WritesShape DEF RecordOK, RecordShaped
<1>2. next \in {n + 2, n + 3}
    BY <1>1
<1>3. /\ Writes(rec)[n + 2] = Write("index.html", Page(rec), TRUE)
      /\ Writes(rec)[n + 3] = Write("guardfiles.html", Page(rec), TRUE)
      /\ Writes(rec)[next].path \in {"index.html", "guardfiles.html"}
  <2>1. /\ Writes(rec)[n + 2] = Write("index.html", Page(rec), TRUE)
        /\ Writes(rec)[n + 3] = Write("guardfiles.html", Page(rec), TRUE)
      BY <1>1, WritesShape
  <2> QED
      BY <1>2, <2>1 DEF Write
<1>4. ASSUME NEW i \in Answered(rec)
      PROVE  \E k \in Answered(rec) :
                 /\ FileOf[rec.servers[k].name] = FileOf[rec.servers[i].name]
                 /\ disk[FileOf[rec.servers[i].name]] = Guardfile(rec.servers[k], rec.scope)
  <2>1. i \in 1 .. n
      BY <1>1 DEF Answered
  <2>2. i + 1 \in DOMAIN Writes(rec) /\ i + 1 \in 1 .. next - 1 /\ i + 1 \notin {1, n + 2, n + 3}
      BY <1>1, <1>2, <2>1
  <2>3. PICK h \in 1 .. n : ServerOf(rec, i + 1, h)
      BY <2>2, WriteCases
  <2>4. h = i
      BY <2>1, <2>3 DEF ServerOf
  <2>5. /\ Writes(rec)[i + 1].path = FileOf[rec.servers[i].name] /\ Writes(rec)[i + 1].path \in Files
        /\ Writes(rec)[i + 1].due
      BY <2>3, <2>4 DEF ServerOf
  <2>6. Writes(rec)[next].path # Writes(rec)[i + 1].path
      BY <1>3, <2>5, FilesApart
  <2>7. PICK k \in 1 .. next - 1 : /\ Writes(rec)[k].due
                                   /\ Writes(rec)[k].path = Writes(rec)[i + 1].path
                                   /\ disk[Writes(rec)[i + 1].path] = Writes(rec)[k].holds
      BY <2>2, <2>5, <2>6 DEF Landed
  <2>8. k \in DOMAIN Writes(rec) /\ Writes(rec)[k].path \in Files
      BY <1>1, <1>2, <2>5, <2>7
  <2>9. PICK m \in 1 .. n : ServerOf(rec, k, m)
    <3>1. /\ Writes(rec)[k] # Write("sweep.json", RecordOf(rec), TRUE)
          /\ Writes(rec)[k] # Write("index.html", Page(rec), TRUE)
          /\ Writes(rec)[k] # Write("guardfiles.html", Page(rec), TRUE)
        BY <2>8, FilesApart DEF Write
    <3> QED
        BY <2>8, <3>1, WriteCases
  <2> QED
      BY <2>5, <2>7, <2>9 DEF ServerOf
<1>5. ASSUME next = n + 3 PROVE disk["index.html"] = Page(rec)
  <2>1. n + 2 \in 1 .. next - 1 /\ Writes(rec)[n + 2] = Write("index.html", Page(rec), TRUE)
      BY <1>1, <1>3, <1>5
  <2>2. Writes(rec)[next].path = "guardfiles.html"
      BY <1>3, <1>5 DEF Write
  <2>3. Writes(rec)[n + 2].path = "index.html" /\ Writes(rec)[n + 2].due
      BY <2>1 DEF Write
  <2>4. PICK k \in 1 .. next - 1 : /\ Writes(rec)[k].path = "index.html"
                                   /\ disk["index.html"] = Writes(rec)[k].holds
      BY <2>1, <2>2, <2>3 DEF Landed
  <2>5. k \in DOMAIN Writes(rec)
      BY <1>1, <1>5
  <2>6. Writes(rec)[k] = Write("index.html", Page(rec), TRUE)
      BY <2>4, <2>5, WriteCases, FilesApart DEF Write, ServerOf
  <2> QED
      BY <2>4, <2>6 DEF Write
<1> QED
    BY <1>4, <1>5 DEF GuardfilesOn

-----------------------------------------------------------------------------
LEMMA InitOK == Init => DirectoryInv
<1> SUFFICES ASSUME Init PROVE DirectoryInv
    OBVIOUS
<1>1. DiskOK
    BY DEF Init, DiskOK, Absent
<1>2. LocalsOK
  <2>1. listed \in Seq(Names) /\ Len(listed) = 0 /\ IsInjective(listed)
      BY EmptySeq DEF Init, IsInjective
  <2>2. /\ limit = 0 /\ limit \in Limits \cup {0} /\ ~(limit > 0)
        /\ page \in 0 .. MaxPages /\ runs \in 0 .. MaxRuns
      BY <2>1, BoundsAssumption DEF Init
  <2>3. /\ phase = "idle" /\ ended = "no" /\ listed = <<>> /\ page = 0
        /\ rec = Blank /\ next = 1 /\ open = FALSE
      BY DEF Init
  <2> QED
      BY <2>1, <2>2, <2>3 DEF LocalsOK
<1> QED
    BY <1>1, <1>2 DEF Init, Landed, DirectoryInv, CompletedIsWhole, Completed

\* A run that is over, and one that reads or loads, has nothing that it has to have written.
LEMMA EndOK ==
    ASSUME DirectoryInv, NEW how \in {"ok", "stopped"}, End(how), UNCHANGED runs
    PROVE  LocalsOK' /\ Landed'
<1>1. listed' \in Seq(Names) /\ Len(listed') = 0 /\ IsInjective(listed')
    BY EmptySeq DEF End, IsInjective
<1>2. LocalsOK'
  <2>1. /\ limit' = 0 /\ limit' \in Limits \cup {0} /\ ~(limit' > 0)
        /\ page' \in 0 .. MaxPages /\ runs' \in 0 .. MaxRuns
      BY <1>1, BoundsAssumption DEF DirectoryInv, LocalsOK, End
  <2>2. /\ phase' = "idle" /\ ended' \in {"ok", "stopped"} /\ listed' = <<>> /\ page' = 0
        /\ rec' = Blank /\ next' = 1 /\ open' = FALSE
      BY DEF End
  <2> QED
      BY <1>1, <2>1, <2>2 DEF LocalsOK
<1> QED
    BY <1>2 DEF Landed, End

LEMMA StopOK ==
    ASSUME DirectoryInv, Stop \/ LoadFails
    PROVE  DirectoryInv'
<1>1. End("stopped") /\ UNCHANGED <<disk, runs>>
    BY DEF Stop, LoadFails
<1>2. LocalsOK' /\ Landed'
    BY <1>1, EndOK
<1>3. DiskOK'
    BY <1>1 DEF DirectoryInv, DiskOK
<1> QED
    BY <1>1, <1>2, <1>3 DEF DirectoryInv, CompletedIsWhole, Completed, End

LEMMA BeginOK ==
    ASSUME DirectoryInv, Begin
    PROVE  DirectoryInv'
<1>1. DiskOK'
    BY DEF DirectoryInv, DiskOK, Begin
<1>2. LocalsOK'
  <2>1. listed' = <<>> /\ page' = 0 /\ Len(listed') = 0 /\ runs' \in 0 .. MaxRuns
      BY BoundsAssumption DEF DirectoryInv, LocalsOK, Begin
  <2>2. limit' \in Limits \cup {0} /\ limit' \in Nat /\ (phase' = "loading" => limit' = 0)
    <3>1. limit = 0
        BY DEF DirectoryInv, LocalsOK, Begin
    <3>2. \/ phase' = "listing" /\ limit' \in Limits
          \/ phase' = "loading" /\ limit' = limit
        BY DEF Begin
    <3>3. Limits \subseteq Nat /\ 0 \in Nat
        BY BoundsAssumption
    <3>4. CASE phase' = "listing" /\ limit' \in Limits
        BY <3>3, <3>4
    <3>5. CASE phase' = "loading" /\ limit' = limit
        BY <3>1, <3>3, <3>5
    <3> QED
        BY <3>2, <3>4, <3>5
  <2>3. listed' \in Seq(Names) /\ IsInjective(listed') /\ page' \in 0 .. MaxPages /\ page' < MaxPages
      BY <2>1, BoundsAssumption DEF DirectoryInv, LocalsOK, Begin
  <2>4. /\ phase' \in {"listing", "loading"} /\ ended' = "no"
        /\ rec' = Blank /\ next' = 1 /\ open' = FALSE
      BY DEF DirectoryInv, LocalsOK, Begin
  <2>5. (limit' > 0 => Len(listed') <= limit') /\ (limit' > 0 => Len(listed') < limit')
      BY <2>1, <2>2
  <2> QED
      BY <2>1, <2>2, <2>3, <2>4, <2>5 DEF LocalsOK
<1> QED
    BY <1>1, <1>2 DEF DirectoryInv, Begin, Landed, CompletedIsWhole, Completed

\* A page keeps a name once, and listing goes on only below both limits.
LEMMA ReadPageOK ==
    ASSUME DirectoryInv, ReadPage
    PROVE  DirectoryInv'
<1>1. DiskOK'
    BY DEF DirectoryInv, DiskOK, ReadPage
<1>2. PICK item \in Items, last \in BOOLEAN :
          /\ listed' = Kept(item)
          /\ phase' = IF last \/ (limit > 0 /\ Len(listed') >= limit) \/ page' = MaxPages
                      THEN "sweeping" ELSE "listing"
    BY DEF ReadPage
<1>3. /\ listed \in Seq(Names) /\ IsInjective(listed) /\ (limit > 0 => Len(listed) < limit)
      /\ page \in 0 .. MaxPages /\ page < MaxPages /\ limit \in Nat /\ limit' = limit
    BY BoundsAssumption DEF DirectoryInv, LocalsOK, ReadPage
<1>4. listed' \in Seq(Names) /\ IsInjective(listed') /\ (limit > 0 => Len(listed') <= limit)
  <2>1. CASE item.fit /\ ~Contains(listed, item.name)
    <3>1. item.name \in Names /\ listed' = Append(listed, item.name)
        BY <1>2, <2>1 DEF Items, Kept
    <3>2. /\ listed' \in Seq(Names) /\ Len(listed') = Len(listed) + 1 /\ DOMAIN listed' = 1 .. Len(listed) + 1
          /\ \A i \in 1 .. Len(listed) : listed'[i] = listed[i]
          /\ listed'[Len(listed) + 1] = item.name
        BY <1>3, <3>1, AppendProperties
    <3>3. \A i \in 1 .. Len(listed) : listed[i] # item.name
        BY <2>1 DEF Contains
    <3>4. Len(listed) \in Nat /\ DOMAIN listed = 1 .. Len(listed)
        BY <1>3, LenProperties
    <3>5. IsInjective(listed')
        BY <1>3, <3>2, <3>3, <3>4 DEF IsInjective
    <3> QED
        BY <1>3, <3>2, <3>4, <3>5, BoundsAssumption
  <2>2. CASE ~(item.fit /\ ~Contains(listed, item.name))
    <3>1. listed' = listed /\ Len(listed) \in Nat
        BY <1>2, <1>3, <2>2, LenProperties DEF Kept
    <3> QED
        BY <1>3, <3>1
  <2> QED
      BY <2>1, <2>2
<1>5. page' \in 0 .. MaxPages
    BY <1>3, BoundsAssumption DEF ReadPage, NextPage
<1>6. phase' = "listing" => (limit > 0 => Len(listed') < limit) /\ page' < MaxPages
  <2>1. Len(listed') \in Nat
      BY <1>4, LenProperties
  <2> QED
      BY <1>2, <1>3, <1>4, <1>5, <2>1, BoundsAssumption
<1>7. phase' \in {"sweeping", "listing"}
    BY <1>2
<1>8. LocalsOK'
    BY <1>3, <1>4, <1>5, <1>6, <1>7 DEF DirectoryInv, LocalsOK, ReadPage
<1> QED
    BY <1>1, <1>7, <1>8 DEF DirectoryInv, Landed, CompletedIsWhole, Completed

\* A run that starts to write has written nothing.
LEMMA StartOK ==
    ASSUME DirectoryInv, phase \in {"sweeping", "loading"}, phase' = "writing", RecordOK(rec'),
           listed' = <<>>, page' = 0, UNCHANGED <<disk, limit, next, open, runs, ended>>
    PROVE  DirectoryInv'
<1>1. DiskOK'
    BY DEF DirectoryInv, DiskOK
<1>2. next' = 1 /\ open' = FALSE /\ next' \in DOMAIN Writes(rec')
  <2>1. RecordShaped(rec')
      BY DEF RecordOK
  <2>2. DOMAIN Writes(rec') = 1 .. Len(rec'.servers) + 3 /\ Len(rec'.servers) \in Nat
      BY <2>1, WritesShape DEF RecordShaped
  <2> QED
      BY <2>2 DEF DirectoryInv, LocalsOK
<1>3. LocalsOK'
  <2>1. listed' \in Seq(Names) /\ Len(listed') = 0 /\ IsInjective(listed') /\ page' \in 0 .. MaxPages
      BY EmptySeq, BoundsAssumption DEF IsInjective
  <2>2. limit \in Limits \cup {0} /\ limit \in Nat
      BY BoundsAssumption DEF DirectoryInv, LocalsOK
  <2> QED
      BY <1>2, <2>1, <2>2 DEF DirectoryInv, LocalsOK
<1>4. Landed'
    BY <1>2 DEF Landed
<1> QED
    BY <1>1, <1>3, <1>4 DEF DirectoryInv, CompletedIsWhole, Completed

\* A function on 1 .. n is a sequence of length n.
LEMMA FunctionIsSeq ==
    ASSUME NEW S, NEW n \in Nat, NEW f \in [1 .. n -> S]
    PROVE  f \in Seq(S)
BY SeqDef

\* How long a sequence is follows from its domain.
LEMMA SameLength ==
    ASSUME NEW m \in Nat, NEW n \in Nat, 1 .. m = 1 .. n
    PROVE  m = n
<1>1. (m \in 1 .. n \/ m = 0) /\ (n \in 1 .. m \/ n = 0)
    OBVIOUS
<1> QED
    BY <1>1

LEMMA SweepAllOK ==
    ASSUME DirectoryInv, SweepAll
    PROVE  DirectoryInv'
<1>1. PICK scope \in Scopes, answers \in [DOMAIN listed -> BOOLEAN], said \in [DOMAIN listed -> Said] :
          rec' = [scope |-> scope,
                  servers |-> [i \in DOMAIN listed |-> Recorded(listed[i], answers[i], said[i])]]
    BY DEF SweepAll
<1> DEFINE recorded(i) == Recorded(listed[i], answers[i], said[i])
           n == Len(listed)
<1>2. listed \in Seq(Names) /\ n \in Nat /\ DOMAIN listed = 1 .. n /\ \A i \in 1 .. n : listed[i] \in Names
    BY LenProperties, ElementOfSeq DEF DirectoryInv, LocalsOK
<1>3. rec'.scope = scope /\ rec'.servers = [i \in 1 .. n |-> recorded(i)] /\ rec' = [scope |-> rec'.scope, servers |-> rec'.servers]
    BY <1>1, <1>2
<1>4. \A i \in 1 .. n : HeardOK(recorded(i))
  <2> SUFFICES ASSUME NEW i \in 1 .. n PROVE HeardOK(recorded(i))
      OBVIOUS
  <2>1. listed[i] \in Names /\ said[i] \in Said
      BY <1>2
  <2>2. CASE answers[i]
    <3>1. recorded(i) = [name |-> listed[i], state |-> "ok", said |-> said[i], surface |-> HeardAs(said[i])]
        BY <2>2 DEF Recorded, HeardAs
    <3> QED
        BY <2>1, <3>1 DEF HeardOK, Shaped
  <2>3. CASE ~answers[i]
      BY <2>1, <2>3 DEF Recorded, HeardOK, Shaped
  <2> QED
      BY <2>2, <2>3
<1> HIDE DEF recorded, n
<1>5. rec'.servers \in Seq({recorded(i) : i \in 1 .. n}) /\ Len(rec'.servers) = n /\ DOMAIN rec'.servers = 1 .. n
  <2>1. rec'.servers \in [1 .. n -> {recorded(i) : i \in 1 .. n}]
      BY <1>3
  <2>2. rec'.servers \in Seq({recorded(i) : i \in 1 .. n})
      BY <1>2, <2>1, FunctionIsSeq
  <2>3. DOMAIN rec'.servers = 1 .. n
      BY <2>1
  <2>4. Len(rec'.servers) \in Nat /\ DOMAIN rec'.servers = 1 .. Len(rec'.servers)
      BY <2>2, LenProperties
  <2> QED
      BY <1>2, <2>2, <2>3, <2>4, SameLength
<1>6. \A i, j \in 1 .. n : rec'.servers[i].name = rec'.servers[j].name => i = j
  <2>1. \A i \in 1 .. n : rec'.servers[i].name = listed[i]
      BY <1>3 DEF recorded, Recorded
  <2>2. \A i, j \in 1 .. n : listed[i] = listed[j] => i = j
      BY <1>2 DEF DirectoryInv, LocalsOK, IsInjective
  <2> QED
      BY <2>1, <2>2
<1>7. RecordOK(rec')
    BY <1>2, <1>3, <1>4, <1>5, <1>6 DEF RecordOK, RecordShaped
<1> QED
    BY <1>7, StartOK DEF SweepAll

LEMMA LoadOK ==
    ASSUME DirectoryInv, Load
    PROVE  DirectoryInv'
<1> DEFINE stored == disk["sweep.json"].record
<1>1. PICK scope \in Scopes \cup {stored.scope} :
          rec' = [scope |-> scope,
                  servers |-> [i \in DOMAIN stored.servers |->
                      [stored.servers[i] EXCEPT !.surface =
                          [t \in DOMAIN stored.servers[i].surface |->
                              Hint(stored.servers[i].surface[t])]]]]
    BY DEF Load
<1>2. LoadableOK(stored)
    BY DEF Load, DirectoryInv, DiskOK, Fits, Paths
<1>3. scope \in Scopes
    BY <1>2 DEF LoadableOK, RecordShaped
<1>4. RecordOK(rec')
    BY <1>1, <1>2, <1>3, RecordReloads
<1>5. listed' = <<>> /\ page' = 0
    BY DEF Load, DirectoryInv, LocalsOK
<1> QED
    BY <1>4, <1>5, StartOK DEF Load

\* What holds at every write.
LEMMA Writing ==
    ASSUME DirectoryInv, phase = "writing"
    PROVE  /\ RecordOK(rec) /\ Len(rec.servers) \in Nat /\ next \in DOMAIN Writes(rec)
           /\ DOMAIN Writes(rec) = 1 .. Len(rec.servers) + 3 /\ Len(Writes(rec)) = Len(rec.servers) + 3
           /\ next \in Nat /\ (open => Writes(rec)[next].due)
<1>1. RecordOK(rec) /\ next \in DOMAIN Writes(rec) /\ (open => Writes(rec)[next].due)
    BY DEF DirectoryInv, LocalsOK
<1>2. /\ RecordShaped(rec) /\ Len(rec.servers) \in Nat
    BY <1>1 DEF RecordOK, RecordShaped
<1>3. DOMAIN Writes(rec) = 1 .. Len(rec.servers) + 3 /\ Len(Writes(rec)) = Len(rec.servers) + 3
    BY <1>2, WritesShape
<1> QED
    BY <1>1, <1>2, <1>3

LEMMA SkipOK ==
    ASSUME DirectoryInv, Skip
    PROVE  DirectoryInv'
<1> DEFINE n == Len(rec.servers)
<1>1. /\ phase = "writing" /\ ~Writes(rec)[next].due /\ next' = next + 1
      /\ UNCHANGED <<disk, phase, limit, listed, page, rec, open, runs, ended>>
    BY DEF Skip
<1>2. /\ RecordOK(rec) /\ n \in Nat /\ DOMAIN Writes(rec) = 1 .. n + 3
      /\ next \in 1 .. n + 3 /\ next \in Nat /\ ~open
    BY <1>1, Writing
<1>3. next \notin {n + 2, n + 3}
  <2>1. RecordShaped(rec)
      BY <1>2 DEF RecordOK
  <2>2. Writes(rec)[n + 2].due /\ Writes(rec)[n + 3].due
    <3>1. /\ Writes(rec)[n + 2] = Write("index.html", Page(rec), TRUE)
          /\ Writes(rec)[n + 3] = Write("guardfiles.html", Page(rec), TRUE)
        BY <2>1, WritesShape
    <3> QED
        BY <3>1 DEF Write
  <2> QED
      BY <1>1, <2>2
<1>4. DiskOK' /\ CompletedIsWhole'
    BY <1>1 DEF DirectoryInv, DiskOK, CompletedIsWhole, Completed
<1>5. next' \in DOMAIN Writes(rec)
    BY <1>1, <1>2, <1>3
<1>6. LocalsOK'
    BY <1>1, <1>2, <1>5 DEF DirectoryInv, LocalsOK
<1>7. ASSUME NEW j \in 1 .. next' - 1, Writes(rec)[j].due
      PROVE  \E k \in 1 .. next' - 1 : /\ Writes(rec)[k].due
                                       /\ Writes(rec)[k].path = Writes(rec)[j].path
                                       /\ disk'[Writes(rec)[j].path] = Writes(rec)[k].holds
  <2>1. j \in 1 .. next - 1
    <3>1. j \in 1 .. next /\ j # next
        BY <1>1, <1>2, <1>7
    <3> QED
        BY <1>2, <3>1
  <2>2. PICK k \in 1 .. next - 1 : /\ Writes(rec)[k].due
                                   /\ Writes(rec)[k].path = Writes(rec)[j].path
                                   /\ disk[Writes(rec)[j].path] = Writes(rec)[k].holds
      BY <1>1, <1>2, <1>7, <2>1 DEF DirectoryInv, Landed
  <2>3. k \in 1 .. next' - 1
      BY <1>1, <1>2
  <2> QED
      BY <1>1, <2>2, <2>3
<1>8. Landed'
    BY <1>1, <1>7 DEF Landed
<1> QED
    BY <1>4, <1>6, <1>8 DEF DirectoryInv

LEMMA TruncateOK ==
    ASSUME DirectoryInv, Truncate
    PROVE  DirectoryInv'
<1> DEFINE w == Writes(rec)[next]
<1>1. /\ phase = "writing" /\ ~open /\ w.due /\ open' = TRUE /\ disk' = [disk EXCEPT ![w.path] = Torn]
      /\ UNCHANGED <<phase, limit, listed, page, rec, next, runs, ended>>
    BY DEF Truncate
<1>2. RecordOK(rec) /\ next \in DOMAIN Writes(rec) /\ next \in Nat
    BY <1>1, Writing
<1> HIDE DEF w
<1>3. DiskOK'
  <2>1. Torn.kind = "torn"
      BY DEF Torn
  <2>2. DOMAIN disk = Paths /\ DOMAIN disk' = Paths
      BY <1>1 DEF DirectoryInv, DiskOK
  <2>3. \A p \in Paths : disk'[p] = IF p = w.path THEN Torn ELSE disk[p]
      BY <1>1, <2>2
  <2> QED
      BY <2>1, <2>2, <2>3 DEF DirectoryInv, DiskOK
<1>4. LocalsOK'
    BY <1>1, <1>2 DEF DirectoryInv, LocalsOK, w
<1>5. Landed'
  <2> SUFFICES ASSUME NEW j \in 1 .. next - 1, Writes(rec)[j].due, w.path # Writes(rec)[j].path
               PROVE  \E k \in 1 .. next - 1 : /\ Writes(rec)[k].due
                                               /\ Writes(rec)[k].path = Writes(rec)[j].path
                                               /\ disk'[Writes(rec)[j].path] = Writes(rec)[k].holds
      BY <1>1 DEF Landed, w
  <2>1. PICK k \in 1 .. next - 1 : /\ Writes(rec)[k].due
                                   /\ Writes(rec)[k].path = Writes(rec)[j].path
                                   /\ disk[Writes(rec)[j].path] = Writes(rec)[k].holds
      BY <1>1 DEF DirectoryInv, Landed
  <2>2. j \in DOMAIN Writes(rec)
      BY <1>1, <1>2, Writing
  <2>3. Writes(rec)[j].path \in DOMAIN disk
      BY <1>2, <2>2, DueFits DEF DirectoryInv, DiskOK
  <2>4. disk'[Writes(rec)[j].path] = disk[Writes(rec)[j].path]
      BY <1>1, <2>3
  <2> QED
      BY <2>1, <2>4
<1> QED
    BY <1>1, <1>3, <1>4, <1>5 DEF DirectoryInv, CompletedIsWhole, Completed

\* What a write lands, and the pages that are in force with it.
LEMMA Filling ==
    ASSUME DirectoryInv, Fill
    PROVE  LET w == Writes(rec)[next] IN
           /\ RecordOK(rec) /\ next \in DOMAIN Writes(rec) /\ w.due
           /\ w.path \in Paths /\ Fits(w.path, w.holds)
           /\ DOMAIN disk = Paths /\ disk' = [disk EXCEPT ![w.path] = w.holds]
<1>1. phase = "writing" /\ open
    BY DEF Fill
<1>2. RecordOK(rec) /\ next \in DOMAIN Writes(rec) /\ Writes(rec)[next].due
    BY <1>1, Writing
<1>3. Writes(rec)[next].path \in Paths /\ Fits(Writes(rec)[next].path, Writes(rec)[next].holds)
    BY <1>2, DueFits
<1>4. DOMAIN disk = Paths
    BY DEF DirectoryInv, DiskOK
<1> QED
    BY <1>2, <1>3, <1>4 DEF Fill

\* From the write of the first page on the guardfiles are all there.
LEMMA FilledPages ==
    ASSUME DirectoryInv, Fill, next >= Len(rec.servers) + 2
    PROVE  /\ GuardfilesOn(disk', rec) /\ disk'["index.html"] = Page(rec)
           /\ next = Len(rec.servers) + 3 => disk'["guardfiles.html"] = Page(rec)
<1> DEFINE n == Len(rec.servers)
           w == Writes(rec)[next]
<1>1. /\ RecordOK(rec) /\ RecordShaped(rec) /\ next \in {n + 2, n + 3} /\ n \in Nat /\ next \in DOMAIN Writes(rec)
      /\ phase = "writing"
    BY Writing DEF RecordOK, Fill
<1>2. GuardfilesOn(disk, rec) /\ (next = n + 3 => disk["index.html"] = Page(rec))
    BY <1>1, PagesComeLast DEF DirectoryInv
<1>3. w.path \in {"index.html", "guardfiles.html"} /\ w.holds = Page(rec) /\ (w.path = "index.html" <=> next = n + 2)
  <2>1. /\ Writes(rec)[n + 2] = Write("index.html", Page(rec), TRUE)
        /\ Writes(rec)[n + 3] = Write("guardfiles.html", Page(rec), TRUE)
      BY <1>1, WritesShape
  <2>2. CASE next = n + 2
      BY <2>1, <2>2 DEF Write
  <2>3. CASE next = n + 3
      BY <1>1, <2>1, <2>3 DEF Write
  <2> QED
      BY <1>1, <2>2, <2>3
<1>4. DOMAIN disk = Paths /\ disk' = [disk EXCEPT ![w.path] = w.holds]
    BY Filling
<1> HIDE DEF w
<1>5. GuardfilesOn(disk', rec)
  <2>1. \A i \in Answered(rec) : FileOf[rec.servers[i].name] \in Files
      BY <1>1, FilesApart DEF Answered, RecordOK, HeardOK, Shaped
  <2>2. \A f \in Files : disk'[f] = disk[f]
      BY <1>3, <1>4, FilesApart DEF Paths
  <2> QED
      BY <1>2, <2>1, <2>2 DEF GuardfilesOn
<1>6. \A p \in Paths : disk'[p] = IF p = w.path THEN Page(rec) ELSE disk[p]
    BY <1>3, <1>4
<1> QED
    BY <1>1, <1>2, <1>3, <1>5, <1>6 DEF Paths

LEMMA FillOK ==
    ASSUME DirectoryInv, Fill
    PROVE  DirectoryInv'
<1> DEFINE w == Writes(rec)[next]
           n == Len(rec.servers)
<1>1. /\ RecordOK(rec) /\ next \in DOMAIN Writes(rec) /\ w.due /\ w.path \in Paths /\ Fits(w.path, w.holds)
      /\ DOMAIN disk = Paths /\ disk' = [disk EXCEPT ![w.path] = w.holds]
    BY Filling
<1>2. phase = "writing" /\ open /\ UNCHANGED runs
    BY DEF Fill
<1>3. n \in Nat /\ next \in 1 .. n + 3 /\ DOMAIN Writes(rec) = 1 .. n + 3 /\ Len(Writes(rec)) = n + 3
    BY <1>2, Writing
<1> HIDE DEF w
<1>4. DiskOK'
  <2>1. DOMAIN disk' = Paths /\ \A p \in Paths : disk'[p] = IF p = w.path THEN w.holds ELSE disk[p]
      BY <1>1
  <2> QED
      BY <1>1, <2>1 DEF DirectoryInv, DiskOK
<1>5. CASE next = Len(Writes(rec))
  <2>1. End("ok")
      BY <1>5 DEF Fill
  <2>2. LocalsOK' /\ Landed'
      BY <1>2, <2>1, EndOK
  <2>3. /\ GuardfilesOn(disk', rec) /\ disk'["index.html"] = Page(rec)
        /\ disk'["guardfiles.html"] = Page(rec)
      BY <1>3, <1>5, FilledPages
  <2>4. CompletedIsWhole'
    <3>1. \A row \in Page(rec).rows : Agree(row, Page(rec).rows, disk')
        BY <2>3, RowsAgree
    <3>2. Page(rec).kind = "page"
        BY DEF Page
    <3> QED
        BY <2>3, <3>1, <3>2 DEF CompletedIsWhole, Completed
  <2> QED
      BY <1>4, <2>2, <2>4 DEF DirectoryInv
<1>6. CASE next # Len(Writes(rec))
  <2>1. next' = next + 1 /\ open' = FALSE /\ UNCHANGED <<phase, limit, listed, page, rec, ended>>
      BY <1>6 DEF Fill
  <2>2. next' \in DOMAIN Writes(rec)
      BY <1>3, <1>6, <2>1
  <2>3. LocalsOK'
      BY <1>1, <1>2, <2>1, <2>2 DEF DirectoryInv, LocalsOK
  <2>4. ASSUME NEW j \in 1 .. next' - 1, Writes(rec)[j].due
        PROVE  \E k \in 1 .. next' - 1 : /\ Writes(rec)[k].due
                                         /\ Writes(rec)[k].path = Writes(rec)[j].path
                                         /\ disk'[Writes(rec)[j].path] = Writes(rec)[k].holds
    <3>1. CASE Writes(rec)[j].path = w.path
      <4>1. next \in 1 .. next' - 1
          BY <1>3, <2>1
      <4>2. disk'[w.path] = w.holds
          BY <1>1
      <4> QED
          BY <1>1, <3>1, <4>1, <4>2 DEF w
    <3>2. CASE Writes(rec)[j].path # w.path
      <4>1. j \in 1 .. next - 1
        <5>1. j # next
            BY <3>2 DEF w
        <5> QED
            BY <1>3, <2>1, <5>1
      <4>2. PICK k \in 1 .. next - 1 : /\ Writes(rec)[k].due
                                       /\ Writes(rec)[k].path = Writes(rec)[j].path
                                       /\ disk[Writes(rec)[j].path] = Writes(rec)[k].holds
          BY <1>2, <2>4, <3>2, <4>1 DEF DirectoryInv, Landed, w
      <4>3. k \in 1 .. next' - 1 /\ j \in DOMAIN Writes(rec)
          BY <1>3, <2>1, <4>1
      <4>4. Writes(rec)[j].path \in Paths
          BY <1>1, <2>4, <4>3, DueFits
      <4>5. disk'[Writes(rec)[j].path] = disk[Writes(rec)[j].path]
          BY <1>1, <3>2, <4>4
      <4> QED
          BY <4>2, <4>3, <4>5
    <3> QED
        BY <3>1, <3>2
  <2>5. Landed'
      BY <2>1, <2>4 DEF Landed
  <2>6. CompletedIsWhole'
      BY <1>2, <2>1 DEF CompletedIsWhole, Completed
  <2> QED
      BY <1>4, <2>3, <2>5, <2>6 DEF DirectoryInv
<1> QED
    BY <1>5, <1>6

LEMMA StepOK == DirectoryInv /\ [Next]_vars => DirectoryInv'
<1> SUFFICES ASSUME DirectoryInv, [Next]_vars PROVE DirectoryInv'
    OBVIOUS
<1>1. CASE UNCHANGED vars
    BY <1>1 DEF DirectoryInv, DiskOK, LocalsOK, Landed, CompletedIsWhole, Completed, vars
<1> QED
    BY <1>1, StopOK, BeginOK, ReadPageOK, SweepAllOK, LoadOK, SkipOK, TruncateOK, FillOK
    DEF Next, Step, Done

LEMMA Holds == Spec => []DirectoryInv
    BY InitOK, StepOK, PTL DEF Spec

\* The names EnumerateRegistry keeps are distinct and within --limit, and a path of the
\* output directory only ever holds its own kind of file, or one that was cut short.
THEOREM TypeCorrect == Spec => []TypeOK
<1>1. ASSUME DirectoryInv PROVE TypeOK
  <2>1. \A i \in DOMAIN rec.servers : rec.servers[i].name \in Names
    <3>1. CASE phase = "writing"
        BY <1>1, <3>1 DEF DirectoryInv, LocalsOK, RecordOK, HeardOK, Shaped
    <3>2. CASE phase # "writing"
      <4>1. rec = Blank
          BY <1>1, <3>2 DEF DirectoryInv, LocalsOK
      <4>2. rec.servers = <<>>
          BY <4>1, Zenon DEF Blank
      <4>3. DOMAIN rec.servers = {}
          BY <4>2
      <4> QED
          BY <4>3
    <3> QED
        BY <3>1, <3>2
  <2>2. \A p \in Paths : disk[p].kind \in {"absent", "torn", "record", "page", "guardfile"}
      BY <1>1 DEF DirectoryInv, DiskOK, Fits, Paths
  <2>3. /\ disk["sweep.json"].kind \in {"absent", "torn", "record"}
        /\ \A f \in Files : disk[f].kind \in {"absent", "torn", "guardfile"}
      BY <1>1 DEF DirectoryInv, DiskOK, Fits, Paths
  <2> QED
      BY <1>1, <2>1, <2>2, <2>3 DEF DirectoryInv, DiskOK, LocalsOK, TypeOK
<1> QED
    BY <1>1, Holds, PTL

\* After a Write that returned no error the two pages are of one record, whatever was in
\* the directory and wherever the runs before it were killed; and the file of every row is
\* its guardfile, unless another row of the page has that file name and that file.
THEOREM CompletedAgrees == Spec => []CompletedIsWhole
<1>1. DirectoryInv => CompletedIsWhole
    BY DEF DirectoryInv
<1> QED
    BY <1>1, Holds, PTL

\* What docs/directory.md says of the page without exception, that no row disagrees with the
\* guardfile beside it, is so of every registry whose names GuardfileName keeps apart.
THEOREM NamesApartHaveTheirFiles ==
    ASSUME \A m, n \in Names : FileOf[m] = FileOf[n] => m = n
    PROVE  Spec => []EveryRowHasItsFile
<1>1. ASSUME DirectoryInv PROVE EveryRowHasItsFile
  <2> SUFFICES ASSUME Completed, NEW row \in disk["index.html"].rows
               PROVE  Beside(row, disk[row.file])
      BY DEF EveryRowHasItsFile
  <2>1. /\ disk["index.html"].kind = "page"
        /\ Agree(row, disk["index.html"].rows, disk)
      BY <1>1 DEF DirectoryInv, CompletedIsWhole
  <2>2. PageOK(disk["index.html"])
      BY <1>1, <2>1 DEF DirectoryInv, DiskOK, Fits, Paths
  <2>3. ASSUME NEW other \in disk["index.html"].rows, other.file = row.file PROVE other = row
      BY <2>2, <2>3 DEF PageOK
  <2> QED
      BY <2>1, <2>3 DEF Agree, Overwritten
<1> QED
    BY <1>1, Holds, PTL

\* No guardfile on the disk lets a tool through that its upstream did not declare, however
\* often the record was stored and read again with --from.
THEOREM AllowedDeclared == Spec => []AllowedWasDeclared
<1>1. ASSUME DirectoryInv PROVE AllowedWasDeclared
  <2> SUFFICES ASSUME NEW f \in Files, disk[f].kind = "guardfile", NEW t \in disk[f].allows
               PROVE  /\ disk[f].scope # "all" => disk[f].said[t] \in {"true", "false", "null"}
                      /\ disk[f].scope = "read-only" => disk[f].said[t] = "true"
      BY DEF AllowedWasDeclared
  <2>1. GuardfileOK(disk[f])
      BY <1>1 DEF DirectoryInv, DiskOK, Fits, Paths
  <2>2. t \in Allowed(HeardAs(disk[f].said), disk[f].scope) /\ disk[f].scope \in Scopes /\ disk[f].said \in Said
      BY <2>1 DEF GuardfileOK
  <2>3. t \in DOMAIN disk[f].said /\ HeardAs(disk[f].said)[t] = Hint(disk[f].said[t])
      BY <2>2 DEF Allowed, HeardAs
  <2>4. /\ disk[f].scope \in {"read-only", "read-write", "all"}
        /\ disk[f].said[t] \in {"true", "false", "null", "missing", "garbled"}
      BY <2>2, <2>3, ScopesAssumption, SaidAssumption
  <2> QED
      BY <2>2, <2>3, <2>4 DEF Allowed, Hint
<1> QED
    BY <1>1, Holds, PTL

\* Write puts the guardfiles on the disk before the page that links to them.
THEOREM PagesComeAfterFiles == Spec => PageAfterItsFiles
<1> DEFINE Linked == disk'["index.html"] # disk["index.html"] /\ disk'["index.html"].kind = "page" =>
                         \A row \in disk'["index.html"].rows : Agree(row, disk'["index.html"].rows, disk')
<1>1. ASSUME DirectoryInv, [Next]_vars PROVE [Linked]_vars
  <2> SUFFICES ASSUME disk'["index.html"] # disk["index.html"], disk'["index.html"].kind = "page"
               PROVE  \A row \in disk'["index.html"].rows : Agree(row, disk'["index.html"].rows, disk')
      OBVIOUS
  <2>1. Truncate \/ Fill
      BY <1>1 DEF Next, Step, Done, Stop, Begin, ReadPage, SweepAll, Load, LoadFails, Skip, vars
  <2>2. ~Truncate
    <3> SUFFICES ASSUME Truncate PROVE FALSE
        OBVIOUS
    <3>1. disk'["index.html"] = Torn \/ disk'["index.html"] = disk["index.html"]
        BY DEF Truncate
    <3> QED
        BY <3>1 DEF Torn
  <2>3. Fill
      BY <2>1, <2>2
  <2>4. /\ RecordOK(rec) /\ next \in DOMAIN Writes(rec)
        /\ DOMAIN disk = Paths /\ disk' = [disk EXCEPT ![Writes(rec)[next].path] = Writes(rec)[next].holds]
      BY <1>1, <2>3, Filling
  <2>5. Writes(rec)[next].path = "index.html"
      BY <2>4
  <2>6. next = Len(rec.servers) + 2
      BY <2>4, <2>5, WriteCases, FilesApart DEF Write, ServerOf
  <2>7. Len(rec.servers) \in Nat
      BY <2>4 DEF RecordOK, RecordShaped
  <2>8. GuardfilesOn(disk', rec) /\ disk'["index.html"] = Page(rec)
      BY <1>1, <2>3, <2>6, <2>7, FilledPages
  <2> QED
      BY <2>8, RowsAgree
<1> QED
    BY <1>1, Holds, PTL DEF Spec, PageAfterItsFiles

-----------------------------------------------------------------------------
\* A run reads no more pages than the cap, sweeps or loads once, and touches each file at
\* most twice, with no limit given and however long the record an earlier run left in the
\* directory: each step ends its phase or comes nearer to the end of it.
THEOREM RunsTerminate == Spec => RunsAreBounded
<1> DEFINE Nearer ==
               runs' = runs =>
                   \/ Rank' < Rank
                   \/ Rank' = Rank /\ Left' \in Nat /\ Left' < Left
<1>1. ASSUME DirectoryInv, [Next]_vars PROVE [Nearer]_vars
  <2> SUFFICES ASSUME vars' # vars, runs' = runs
               PROVE  \/ Rank' < Rank
                      \/ Rank' = Rank /\ Left' \in Nat /\ Left' < Left
      OBVIOUS
  <2>1. CASE Stop \/ LoadFails \/ (Fill /\ phase' # "writing")
    <3>1. phase # "idle" /\ phase' = "idle"
        BY <2>1 DEF Stop, LoadFails, Fill, End
    <3> QED
        BY <3>1 DEF Rank
  <2>2. CASE ReadPage
    <3>1. /\ phase = "listing" /\ page' = page + 1 /\ phase' \in {"listing", "sweeping"}
          /\ page \in Nat /\ MaxPages \in Nat /\ page < MaxPages
        BY <1>1, <2>2, BoundsAssumption DEF ReadPage, NextPage, DirectoryInv, LocalsOK
    <3> QED
        BY <3>1 DEF Rank, Left
  <2>3. CASE SweepAll \/ Load
    <3>1. phase \in {"sweeping", "loading"} /\ phase' = "writing"
        BY <2>3 DEF SweepAll, Load
    <3> QED
        BY <3>1 DEF Rank
  <2>4. CASE Skip \/ Truncate \/ (Fill /\ phase' = "writing")
    <3>1. /\ phase = "writing" /\ phase' = "writing" /\ rec' = rec
          /\ \/ next' = next + 1 /\ open' = open
             \/ next' = next /\ ~open /\ open'
             \/ next' = next + 1 /\ open /\ ~open'
        BY <2>4 DEF Skip, Truncate, Fill, End
    <3>2. next \in Nat /\ Len(Writes(rec)) \in Nat /\ next <= Len(Writes(rec)) /\ open \in BOOLEAN
        BY <1>1, <3>1, Writing DEF DirectoryInv, LocalsOK
    <3>3. DirectoryInv' /\ Writes(rec)' = Writes(rec)
      <4>1. DirectoryInv'
          BY <1>1, StepOK
      <4> QED
          BY <3>1, <4>1 DEF Writes, RecordWrites, GuardfileWrites, PageWrites, Write, RecordOf, Guardfile,
                            Page, Row, Answered
    <3>4. next' \in DOMAIN Writes(rec)
        BY <3>1, <3>3 DEF DirectoryInv, LocalsOK
    <3>5. DOMAIN Writes(rec) = 1 .. Len(Writes(rec))
        BY <1>1, <3>1, Writing
    <3>6. next' \in Nat /\ next' <= Len(Writes(rec))
        BY <3>2, <3>4, <3>5
    <3> DEFINE all == Len(Writes(rec))
    <3>7. /\ open => Left = 2 * (all - next) + 0
          /\ ~open => Left = 2 * (all - next) + 1
          /\ open' => Left' = 2 * (all - next') + 0
          /\ ~open' => Left' = 2 * (all - next') + 1
        BY <3>1, <3>3 DEF Left
    <3> HIDE DEF all
    <3>8. all \in Nat /\ next \in Nat /\ next' \in Nat /\ next <= all /\ next' <= all
        BY <3>2, <3>6 DEF all
    <3>9. \/ next' = next + 1 /\ Left \in {2 * (all - next), 2 * (all - next) + 1}
                            /\ Left' = Left - 2
          \/ next' = next + 1 /\ Left = 2 * (all - next) /\ Left' = 2 * (all - next') + 1
          \/ next' = next /\ Left = 2 * (all - next) + 1 /\ Left' = 2 * (all - next)
        BY <3>1, <3>7, <3>8
    <3>10. Left' \in Nat /\ Left' < Left
        BY <3>8, <3>9
    <3> QED
        BY <3>1, <3>10 DEF Rank
  <2>5. ~Begin
    <3>1. runs \in Nat
        BY <1>1, BoundsAssumption DEF DirectoryInv, LocalsOK
    <3> QED
        BY <3>1 DEF Begin
  <2> QED
      BY <1>1, <2>1, <2>2, <2>3, <2>4, <2>5 DEF Next, Step, Done
<1> QED
    BY <1>1, Holds, PTL DEF Spec, RunsAreBounded

-----------------------------------------------------------------------------
(***************************************************************************)
(* The sweep whose answers the record holds, for any number of servers and *)
(* slots: its types, that a server recorded as answering is recorded with  *)
(* what it answered, and that a settled record is never touched again.     *)
(***************************************************************************)
CONSTANTS Servers, Workers, Tools, Codes
VARIABLES worker, pull, heard, failure, status, expired, interrupted, err, out

Pulls == INSTANCE Sweep

\* What a pull that has its listing has heard.
Conclusive(answers) ==
    answers # <<>> /\ (Pulls!Last(answers) = {} => Len(answers) = 2)

\* What a pull has heard by the stage it has reached.
PullOK(s) ==
    /\ pull[s] \in {"none", "connect", "list1"} => heard[s] = <<>> /\ failure[s] = "none"
    /\ pull[s] = "list2" => heard[s] = <<{}>> /\ failure[s] = "none"
    /\ pull[s] \in {"close", "deliver", "done"} /\ failure[s] = "none" => Conclusive(heard[s])

\* What the goroutine of a server knows of its pull, and has recorded.
OutOK(s) ==
    /\ worker[s] = "queued" <=> pull[s] = "none"
    /\ worker[s] \in {"queued", "probing", "judge"} => out[s] = Pulls!Nothing
    /\ out[s].state = "ok" =>
           /\ worker[s] \in {"report", "done"}
           /\ pull[s] = "done" /\ failure[s] = "none"
           /\ out[s].tools = Pulls!Last(heard[s])

SweepInv == Pulls!TypeOK /\ \A s \in Servers : PullOK(s) /\ OutOK(s)

WorkerStages == {"queued", "probing", "judge", "judgeAgain", "report", "done"}

-----------------------------------------------------------------------------
\* One more answer to tools/list, and what the pull then knows.
LEMMA HearOne ==
    ASSUME NEW answers \in {<<>>, <<{}>>}, NEW surface \in Pulls!Surfaces
    PROVE  /\ Append(answers, surface) \in Pulls!Answers
           /\ Append(answers, surface) # <<>>
           /\ Pulls!Last(Append(answers, surface)) = surface
           /\ answers = <<{}>> => Len(Append(answers, surface)) = 2
           /\ answers = <<>> => Append(answers, surface) = <<surface>>
<1>0. {} \in Pulls!Surfaces  BY DEF Pulls!Surfaces
<1>1. CASE answers = <<>>
  <2>1. Append(<<>>, surface) = <<surface>> /\ <<surface>> # <<{}, surface>>  OBVIOUS
  <2>2. <<surface>> \in Seq(Pulls!Surfaces) /\ Len(<<surface>>) = 1  OBVIOUS
  <2>3. <<>> # <<{}>> /\ <<surface>>[1] = surface  OBVIOUS
  <2> QED  BY <1>1, <2>1, <2>2, <2>3 DEF Pulls!Answers, Pulls!Last
<1>2. CASE answers = <<{}>>
  <2> DEFINE one == <<{}>>
  <2>1. one \in Seq(Pulls!Surfaces) /\ Len(one) = 1 /\ one # <<>>  BY <1>0
  <2> HIDE DEF one
  <2>2. /\ Append(one, surface) \in Seq(Pulls!Surfaces) /\ Len(Append(one, surface)) = 2
        /\ Append(one, surface)[2] = surface /\ Append(one, surface) # <<>>
    <3>1. /\ Append(one, surface) \in Seq(Pulls!Surfaces) /\ Append(one, surface) # <<>>
          /\ Len(Append(one, surface)) = Len(one) + 1
          /\ Append(one, surface)[Len(one) + 1] = surface
      BY <2>1, AppendProperties, ZenonT(60)
    <3>2. Len(one) + 1 = 2  BY <2>1
    <3> QED  BY <3>1, <3>2
  <2>3. answers = one  BY <1>2 DEF one
  <2> QED  BY <2>1, <2>2, <2>3 DEF Pulls!Answers, Pulls!Last
<1> QED  BY <1>1, <1>2

LEMMA SweepStarts == Pulls!Init => SweepInv
<1> SUFFICES ASSUME Pulls!Init PROVE SweepInv  OBVIOUS
<1>1. <<>> \in Pulls!Answers  BY DEF Pulls!Answers
<1>2. Pulls!Nothing \in [state : Pulls!States, code : Codes \cup {0}, tools : Pulls!Surfaces]
    BY DEF Pulls!Nothing, Pulls!States, Pulls!Surfaces
<1>3. Pulls!Nothing.state = "none"  BY DEF Pulls!Nothing
<1>4. Pulls!TypeOK  BY <1>1, <1>2 DEF Pulls!Init, Pulls!TypeOK, Pulls!Running, Pulls!Failures
<1>5. \A s \in Servers : PullOK(s) /\ OutOK(s)
  BY <1>3 DEF Pulls!Init, PullOK, OutOK
<1> QED  BY <1>4, <1>5 DEF SweepInv

-----------------------------------------------------------------------------
\* A step about server s leaves the others' part of the invariant alone.
LEMMA OtherPullsKeep ==
    ASSUME SweepInv, NEW s \in Servers,
           Pulls!TypeOK', PullOK(s)', OutOK(s)',
           \A r \in Servers \ {s} :
               /\ worker'[r] = worker[r] /\ pull'[r] = pull[r] /\ heard'[r] = heard[r]
               /\ failure'[r] = failure[r] /\ out'[r] = out[r]
    PROVE  SweepInv'
<1> SUFFICES ASSUME NEW r \in Servers \ {s} PROVE PullOK(r)' /\ OutOK(r)'
  BY DEF SweepInv
<1>1. PullOK(r) /\ OutOK(r)  BY DEF SweepInv
<1> QED  BY <1>1 DEF PullOK, OutOK

LEMMA PullStepKeeps == ASSUME SweepInv, NEW s \in Servers, Pulls!PullStep(s) PROVE SweepInv'
<1> USE DEF SweepInv
<1>0. /\ Pulls!TypeOK /\ PullOK(s) /\ OutOK(s)
      /\ UNCHANGED <<Pulls!workerVars, expired, interrupted>>
  BY DEF Pulls!PullStep, Pulls!Connected, Pulls!Listed, Pulls!Refused, Pulls!Broken,
     Pulls!SideRefused, Pulls!CloseSession, Pulls!Deliver
<1>1. CASE Pulls!Connected(s)
  <2>1. Pulls!TypeOK'
      BY <1>0, <1>1 DEF Pulls!TypeOK, Pulls!Connected, Pulls!PullTo, Pulls!workerVars,
         Pulls!Running
  <2>2. PullOK(s)' /\ OutOK(s)'
    BY <1>0, <1>1 DEF Pulls!TypeOK, Pulls!Connected, Pulls!PullTo, Pulls!workerVars, PullOK,
       OutOK
  <2> QED
      BY <2>1, <2>2, <1>0, <1>1, OtherPullsKeep DEF Pulls!TypeOK, Pulls!Connected,
         Pulls!PullTo, Pulls!workerVars
<1>2. CASE Pulls!Listed(s)
  <2>1. PICK surface \in Pulls!Surfaces :
            /\ heard' = [heard EXCEPT ![s] = Append(@, surface)]
            /\ Pulls!PullTo(s, IF surface = {} /\ pull[s] = "list1" THEN "list2" ELSE "close")
    BY <1>2 DEF Pulls!Listed
  <2>2. /\ pull[s] = "list1" => heard[s] = <<>>
        /\ pull[s] = "list2" => heard[s] = <<{}>>
        /\ pull[s] \in {"list1", "list2"}
    BY <1>0, <1>2 DEF Pulls!Listed, PullOK
  <2>3. /\ Append(heard[s], surface) \in Pulls!Answers
        /\ Append(heard[s], surface) # <<>>
        /\ Pulls!Last(Append(heard[s], surface)) = surface
        /\ pull[s] = "list2" => Len(Append(heard[s], surface)) = 2
        /\ pull[s] = "list1" => Append(heard[s], surface) = <<surface>>
    BY <2>2, HearOne
  <2>4. Pulls!TypeOK'
    BY <1>0, <1>2, <2>1, <2>3 DEF Pulls!TypeOK, Pulls!Listed, Pulls!PullTo, Pulls!workerVars,
       Pulls!Running
  <2>5. /\ heard'[s] = Append(heard[s], surface)
        /\ pull'[s] = IF surface = {} /\ pull[s] = "list1" THEN "list2" ELSE "close"
        /\ UNCHANGED failure
    BY <1>0, <1>2, <2>1 DEF Pulls!TypeOK, Pulls!Listed, Pulls!PullTo
  <2>6. PullOK(s)'
    BY <1>0, <2>2, <2>3, <2>5 DEF PullOK, Conclusive
  <2>7. OutOK(s)'
    BY <1>0, <2>2, <2>5 DEF OutOK, Pulls!workerVars
  <2> QED
      BY <2>4, <2>6, <2>7, <1>0, <1>2, <2>1, OtherPullsKeep DEF Pulls!TypeOK, Pulls!Listed,
         Pulls!PullTo, Pulls!workerVars
<1>3. CASE Pulls!Refused(s) \/ Pulls!Broken(s)
  <2>1. PICK how \in {"words", "deadline"} : Pulls!PullFails(s, how)
    BY <1>3 DEF Pulls!Refused, Pulls!Broken
  <2>2. /\ pull[s] \in {"connect", "list1", "list2"}
        /\ UNCHANGED heard /\ status' \in [Servers -> Codes \cup {0}]
    BY <1>0, <1>3 DEF Pulls!Refused, Pulls!Broken, Pulls!TypeOK
  <2>3. Pulls!TypeOK'
    BY <1>0, <2>1, <2>2 DEF Pulls!TypeOK, Pulls!PullFails, Pulls!PullTo, Pulls!workerVars,
       Pulls!Running, Pulls!Failures
  <2>4. failure'[s] # "none" /\ pull'[s] \in {"deliver", "close"}
    BY <1>0, <2>1 DEF Pulls!TypeOK, Pulls!PullFails, Pulls!PullTo
  <2>5. PullOK(s)' /\ OutOK(s)'
    BY <1>0, <2>2, <2>4 DEF PullOK, OutOK, Pulls!workerVars
  <2> QED
      BY <2>1, <2>2, <2>3, <2>5, <1>0, OtherPullsKeep DEF Pulls!TypeOK, Pulls!PullFails,
         Pulls!PullTo, Pulls!workerVars
<1>4. CASE Pulls!SideRefused(s)
  <2>1. Pulls!TypeOK'  BY <1>0, <1>4 DEF Pulls!TypeOK, Pulls!SideRefused, Pulls!workerVars
  <2> QED  BY <2>1, <1>0, <1>4 DEF Pulls!SideRefused, Pulls!workerVars, PullOK, OutOK
<1>5. CASE Pulls!CloseSession(s) \/ Pulls!Deliver(s)
  <2>1. /\ pull[s] \in {"close", "deliver"} /\ UNCHANGED <<heard, failure, status>>
        /\ \E stage \in {"deliver", "done"} : Pulls!PullTo(s, stage)
    BY <1>5 DEF Pulls!CloseSession, Pulls!Deliver
  <2>2. Pulls!TypeOK'
      BY <1>0, <2>1 DEF Pulls!TypeOK, Pulls!PullTo, Pulls!workerVars, Pulls!Running
  <2>3. PullOK(s)' /\ OutOK(s)'
    BY <1>0, <2>1 DEF Pulls!TypeOK, Pulls!PullTo, PullOK, OutOK, Pulls!workerVars
  <2> QED
      BY <2>1, <2>2, <2>3, <1>0, OtherPullsKeep DEF Pulls!TypeOK, Pulls!PullTo, Pulls!workerVars
<1> QED  BY <1>1, <1>2, <1>3, <1>4, <1>5 DEF Pulls!PullStep

-----------------------------------------------------------------------------
LEMMA WorkerStepKeeps == ASSUME SweepInv, NEW s \in Servers, Pulls!WorkerStep(s) PROVE SweepInv'
<1> USE DEF SweepInv
<1>0. /\ Pulls!TypeOK /\ PullOK(s) /\ OutOK(s)
      /\ UNCHANGED <<heard, failure, status, expired, interrupted>>
  BY DEF Pulls!WorkerStep, Pulls!Acquire, Pulls!Receive, Pulls!GiveUp, Pulls!Judge,
     Pulls!JudgeAgain, Pulls!Report, Pulls!pullVars
<1>1. CASE Pulls!Acquire(s)
  <2>1. Pulls!TypeOK'
      BY <1>0, <1>1 DEF Pulls!TypeOK, Pulls!Acquire, Pulls!PullTo, Pulls!WorkerTo, Pulls!Running
  <2>2. PullOK(s)' /\ OutOK(s)'
    BY <1>0, <1>1 DEF Pulls!TypeOK, Pulls!Acquire, Pulls!PullTo, Pulls!WorkerTo, PullOK, OutOK,
       Pulls!Nothing
  <2> QED
      BY <2>1, <2>2, <1>0, <1>1, OtherPullsKeep DEF Pulls!TypeOK, Pulls!Acquire, Pulls!PullTo,
         Pulls!WorkerTo
<1>2. CASE Pulls!Receive(s)
  <2>0. worker[s] = "probing" /\ pull[s] = "done" /\ UNCHANGED pull
    BY <1>2 DEF Pulls!Receive, Pulls!pullVars
  <2>1. CASE failure[s] = "none"
    <3>1. Conclusive(heard[s])  BY <1>0, <2>0, <2>1 DEF PullOK
    <3>2. Pulls!Last(heard[s]) \in Pulls!Surfaces
      BY <1>0, <3>1 DEF Pulls!TypeOK, Conclusive, Pulls!Last, Pulls!Answers
    <3>3. /\ out' = [out EXCEPT ![s] = [state |-> "ok", code |-> 0, tools |-> Pulls!Last(heard[s])]]
          /\ worker' = [worker EXCEPT ![s] = "report"] /\ UNCHANGED err
      BY <1>2, <2>1 DEF Pulls!Receive, Pulls!WorkerTo
    <3>4. Pulls!TypeOK'  BY <1>0, <2>0, <3>2, <3>3 DEF Pulls!TypeOK, Pulls!States
    <3>5. PullOK(s)' /\ OutOK(s)'
      BY <1>0, <2>0, <2>1, <3>3 DEF Pulls!TypeOK, PullOK, OutOK
    <3> QED  BY <1>0, <2>0, <3>3, <3>4, <3>5, OtherPullsKeep DEF Pulls!TypeOK
  <2>2. CASE failure[s] # "none"
    <3>1. /\ err' = [err EXCEPT ![s] = failure[s]]
          /\ worker' = [worker EXCEPT ![s] = "judge"] /\ UNCHANGED out
      BY <1>2, <2>2 DEF Pulls!Receive, Pulls!WorkerTo
    <3>2. Pulls!TypeOK'  BY <1>0, <2>0, <3>1 DEF Pulls!TypeOK
    <3>3. PullOK(s)' /\ OutOK(s)'
      BY <1>0, <2>0, <3>1 DEF Pulls!TypeOK, PullOK, OutOK, Pulls!Nothing
    <3> QED  BY <1>0, <2>0, <3>1, <3>2, <3>3, OtherPullsKeep DEF Pulls!TypeOK
  <2> QED  BY <2>1, <2>2
<1>3. CASE Pulls!GiveUp(s)
  <2>1. /\ worker[s] = "probing" /\ UNCHANGED <<pull, out>>
        /\ err' = [err EXCEPT ![s] = "deadline"]
        /\ worker' = [worker EXCEPT ![s] = "judge"]
    BY <1>3 DEF Pulls!GiveUp, Pulls!WorkerTo, Pulls!pullVars
  <2>2. Pulls!TypeOK'  BY <1>0, <2>1 DEF Pulls!TypeOK, Pulls!Failures
  <2>3. PullOK(s)' /\ OutOK(s)'
    BY <1>0, <2>1 DEF Pulls!TypeOK, PullOK, OutOK, Pulls!Nothing
  <2> QED  BY <1>0, <2>1, <2>2, <2>3, OtherPullsKeep DEF Pulls!TypeOK
<1>4. CASE Pulls!Judge(s) \/ Pulls!JudgeAgain(s)
  <2> DEFINE Refusal == \E state \in {"HTTP", "words", "timeout"}, code \in Codes \cup {0} :
                            Pulls!Record(s, state, code)
  <2>1. /\ worker[s] \in {"judge", "judgeAgain"} /\ UNCHANGED <<pull, err>>
        /\ UNCHANGED out \/ Refusal
        /\ \/ worker' = [worker EXCEPT ![s] = "judgeAgain"] /\ Refusal
           \/ worker' = [worker EXCEPT ![s] = "report"]
    BY <1>0, <1>4 DEF Pulls!Judge, Pulls!JudgeAgain, Pulls!WorkerTo, Pulls!pullVars, Pulls!TypeOK
  <2>2. {} \in Pulls!Surfaces  BY DEF Pulls!Surfaces
  <2>3. Pulls!TypeOK'
    <3> DEFINE Rows == [state : Pulls!States, code : Codes \cup {0}, tools : Pulls!Surfaces]
    <3>1. out' \in [Servers -> Rows]
      <4>1. ASSUME NEW state \in {"HTTP", "words", "timeout"}, NEW code \in Codes \cup {0},
                   Pulls!Record(s, state, code)
            PROVE  out' \in [Servers -> Rows]
        BY <1>0, <2>2, <4>1 DEF Pulls!TypeOK, Pulls!Record, Pulls!States
      <4> QED  BY <1>0, <2>1, <4>1 DEF Pulls!TypeOK
    <3>2. worker' \in [Servers -> WorkerStages] /\ UNCHANGED <<pull, err>>
      BY <1>0, <2>1 DEF Pulls!TypeOK, WorkerStages
    <3> QED  BY <1>0, <3>1, <3>2 DEF Pulls!TypeOK, WorkerStages
  <2>4. out[s].state # "ok"  BY <1>0, <2>1 DEF OutOK
  <2>5. out'[s].state # "ok"  BY <1>0, <2>1, <2>4 DEF Pulls!TypeOK, Pulls!Record
  <2>6. PullOK(s)' /\ OutOK(s)'
    BY <1>0, <2>1, <2>5 DEF Pulls!TypeOK, PullOK, OutOK
  <2> QED  BY <1>0, <2>1, <2>3, <2>6, OtherPullsKeep DEF Pulls!TypeOK, Pulls!Record
<1>5. CASE Pulls!Report(s)
  <2>1. /\ worker[s] = "report" /\ UNCHANGED <<pull, err, out>>
        /\ worker' = [worker EXCEPT ![s] = "done"]
    BY <1>5 DEF Pulls!Report, Pulls!WorkerTo, Pulls!pullVars
  <2>2. Pulls!TypeOK'  BY <1>0, <2>1 DEF Pulls!TypeOK
  <2>3. PullOK(s)' /\ OutOK(s)'
    BY <1>0, <2>1 DEF Pulls!TypeOK, PullOK, OutOK
  <2> QED  BY <1>0, <2>1, <2>2, <2>3, OtherPullsKeep DEF Pulls!TypeOK
<1> QED  BY <1>1, <1>2, <1>3, <1>4, <1>5 DEF Pulls!WorkerStep

LEMMA SweepStep == SweepInv /\ [Pulls!Next]_(Pulls!vars) => SweepInv'
<1> SUFFICES ASSUME SweepInv, [Pulls!Next]_(Pulls!vars) PROVE SweepInv'  OBVIOUS
<1>1. ASSUME NEW s \in Servers, Pulls!PullStep(s) PROVE SweepInv'  BY <1>1, PullStepKeeps
<1>2. ASSUME NEW s \in Servers, Pulls!WorkerStep(s) PROVE SweepInv'  BY <1>2, WorkerStepKeeps
<1>3. CASE UNCHANGED <<Pulls!pullVars, Pulls!workerVars>> /\ (Pulls!Interrupt \/ UNCHANGED Pulls!vars
                                                 \/ \E s \in Servers : Pulls!Expire(s))
  <2>1. Pulls!TypeOK'
    BY <1>3 DEF SweepInv, Pulls!TypeOK, Pulls!pullVars, Pulls!workerVars, Pulls!Interrupt,
       Pulls!Expire, Pulls!vars
  <2> QED  BY <2>1, <1>3 DEF SweepInv, PullOK, OutOK, Pulls!pullVars, Pulls!workerVars
<1> QED  BY <1>1, <1>2, <1>3 DEF Pulls!Next, Pulls!Interrupt, Pulls!Expire, Pulls!vars

LEMMA SweepInvariant == Pulls!Spec => []SweepInv
<1> QED  BY SweepStarts, SweepStep, PTL DEF Pulls!Spec

\* Every variable keeps its type.
THEOREM PullsTypeCorrect == Pulls!Spec => []Pulls!TypeOK
<1>1. SweepInv => Pulls!TypeOK  BY DEF SweepInv
<1> QED  BY <1>1, SweepInvariant, PTL

\* A server recorded as answering is recorded with the last listing it gave, and as
\* serving nothing only after a second empty answer.
THEOREM OkWasHeard == Pulls!Spec => []Pulls!OkIsWhatWasHeard
<1>1. SweepInv => Pulls!OkIsWhatWasHeard
  BY DEF SweepInv, OutOK, PullOK, Conclusive, Pulls!OkIsWhatWasHeard
<1> QED  BY <1>1, SweepInvariant, PTL

\* Nothing a pull does later changes a settled record.
THEOREM RecordsAreFinal == Pulls!Spec => Pulls!SettledIsFinal
<1>1. ASSUME SweepInv, [Pulls!Next]_(Pulls!vars), NEW s \in Servers, worker[s] \in {"report", "done"}
      PROVE  out'[s] = out[s]
  <2>1. ASSUME NEW r \in Servers, Pulls!WorkerStep(r) PROVE out'[s] = out[s]
    BY <1>1, <2>1 DEF SweepInv, Pulls!TypeOK, Pulls!WorkerStep, Pulls!Acquire, Pulls!Receive,
       Pulls!GiveUp, Pulls!Judge,
                      Pulls!JudgeAgain, Pulls!Report, Pulls!Record
  <2>2. ASSUME NEW r \in Servers, Pulls!PullStep(r) PROVE out'[s] = out[s]
    BY <2>2 DEF Pulls!PullStep, Pulls!Connected, Pulls!Listed, Pulls!Refused, Pulls!Broken,
       Pulls!SideRefused, Pulls!CloseSession,
                Pulls!Deliver, Pulls!workerVars
  <2> QED
      BY <1>1, <2>1, <2>2 DEF Pulls!Next, Pulls!Interrupt, Pulls!Expire, Pulls!vars,
         Pulls!workerVars
<1>2. SweepInv /\ [Pulls!Next]_(Pulls!vars)
      => [\A s \in Servers : worker[s] \in {"report", "done"} => out'[s] = out[s]]_(Pulls!vars)
  BY <1>1
<1> QED  BY <1>2, SweepInvariant, PTL DEF Pulls!Spec, Pulls!SettledIsFinal

-----------------------------------------------------------------------------
\* What a judgement rests on: a deadline error means that the time was up or the command
\* was stopped, any other that the pull has ended; a first judgement of "HTTP" means that
\* a status was answered, and one in words that none was unless the pull was left behind.
JudgedOK(s) ==
    /\ failure[s] = "deadline" => expired[s]
    /\ err[s] = "deadline" => expired[s] \/ interrupted
    /\ worker[s] = "judgeAgain" =>
           \/ out[s].state = "HTTP" /\ status[s] # 0
           \/ /\ out[s] = [state |-> "words", code |-> 0, tools |-> {}]
              /\ (status[s] = 0 \/ err[s] = "deadline")
    /\ worker[s] \in {"judge", "judgeAgain"} /\ err[s] # "deadline" => pull[s] = "done"

\* What Sweep assumes of error statuses: 0 is none.
CodesAreErrors == Codes \subseteq Nat \ {0}

SurveyInv == CodesAreErrors /\ SweepInv /\ \A s \in Servers : JudgedOK(s)

LEMMA SurveyStarts == CodesAreErrors /\ Pulls!Init => SurveyInv
<1> QED  BY SweepStarts DEF SurveyInv, JudgedOK, Pulls!Init

LEMMA PullStepJudged ==
    ASSUME SurveyInv, NEW s \in Servers, Pulls!PullStep(s) PROVE \A r \in Servers : JudgedOK(r)'
<1>1. UNCHANGED <<Pulls!workerVars, expired, interrupted>> /\ pull[s] # "done"
  BY DEF Pulls!PullStep, Pulls!Connected, Pulls!Listed, Pulls!Refused, Pulls!Broken,
     Pulls!SideRefused, Pulls!CloseSession, Pulls!Deliver, Pulls!Running
<1>4. ASSUME NEW r \in Servers \ {s} PROVE pull'[r] = pull[r]
  BY DEF SurveyInv, SweepInv, Pulls!PullStep, Pulls!Connected, Pulls!Listed, Pulls!Refused,
     Pulls!Broken, Pulls!SideRefused, Pulls!CloseSession, Pulls!Deliver, Pulls!PullFails,
     Pulls!PullTo, Pulls!TypeOK
<1>2. \/ UNCHANGED status
      \/ \E c \in Codes : status' = [status EXCEPT ![s] = c]
  BY DEF Pulls!PullStep, Pulls!Connected, Pulls!Listed, Pulls!Refused, Pulls!Broken,
     Pulls!SideRefused, Pulls!CloseSession, Pulls!Deliver
<1>3. \/ UNCHANGED failure
      \/ failure' = [failure EXCEPT ![s] = "words"]
      \/ failure' = [failure EXCEPT ![s] = "deadline"] /\ expired[s]
  BY DEF Pulls!PullStep, Pulls!Connected, Pulls!Listed, Pulls!Refused, Pulls!Broken,
     Pulls!SideRefused, Pulls!CloseSession, Pulls!Deliver, Pulls!PullFails
<1> QED
  BY <1>1, <1>2, <1>3, <1>4 DEF SurveyInv, SweepInv, CodesAreErrors, JudgedOK, Pulls!TypeOK,
     Pulls!workerVars

\* The first reading: the status if there was one, words otherwise.
LEMMA FirstReading ==
    ASSUME SurveyInv, NEW s \in Servers, Pulls!Judge(s)
    PROVE  /\ worker[s] = "judge" /\ worker'[s] = "judgeAgain" /\ UNCHANGED <<pull, err, status>>
           /\ status[s] \in Nat
           /\ status[s] # 0 => out'[s] = [state |-> "HTTP", code |-> status[s], tools |-> {}]
           /\ status[s] = 0 => out'[s] = [state |-> "words", code |-> 0, tools |-> {}]
<1>1. Pulls!TypeOK  BY DEF SurveyInv, SweepInv
<1>2. /\ worker[s] = "judge" /\ worker'[s] = "judgeAgain" /\ UNCHANGED <<pull, err, status>>
  BY <1>1 DEF Pulls!Judge, Pulls!WorkerTo, Pulls!TypeOK, Pulls!pullVars
<1>3. status[s] \in Nat
  <2>1. status[s] \in Codes \/ status[s] = 0  BY <1>1 DEF Pulls!TypeOK
  <2>2. \A code \in Codes : code \in Nat  BY DEF SurveyInv, CodesAreErrors
  <2> QED  BY <2>1, <2>2
<1>4. CASE status[s] = 0
  <2>1. ~(status[s] > 0)  BY <1>4
  <2>2. Pulls!Record(s, "words", 0)  BY <2>1 DEF Pulls!Judge
  <2> QED  BY <1>1, <1>2, <1>3, <1>4, <2>2 DEF Pulls!Record, Pulls!TypeOK
<1>5. CASE status[s] # 0
  <2>1. status[s] > 0  BY <1>3, <1>5
  <2>2. Pulls!Record(s, "HTTP", status[s])  BY <2>1 DEF Pulls!Judge
  <2> QED  BY <1>1, <1>2, <1>3, <1>5, <2>2 DEF Pulls!Record, Pulls!TypeOK
<1> QED  BY <1>4, <1>5

LEMMA WorkerStepJudged ==
    ASSUME SurveyInv, NEW s \in Servers, Pulls!WorkerStep(s) PROVE \A r \in Servers : JudgedOK(r)'
<1>0. Pulls!TypeOK /\ JudgedOK(s)  BY DEF SurveyInv, SweepInv
<1>1. UNCHANGED <<failure, status, expired, interrupted>>
  BY DEF Pulls!WorkerStep, Pulls!Acquire, Pulls!Receive, Pulls!GiveUp, Pulls!Judge,
     Pulls!JudgeAgain, Pulls!Report, Pulls!pullVars
<1>2. ASSUME NEW r \in Servers \ {s}
      PROVE  worker'[r] = worker[r] /\ err'[r] = err[r] /\ out'[r] = out[r] /\ pull'[r] = pull[r]
  BY <1>0 DEF Pulls!WorkerStep, Pulls!Acquire, Pulls!Receive, Pulls!GiveUp, Pulls!Judge,
     Pulls!JudgeAgain, Pulls!Report, Pulls!WorkerTo, Pulls!Record, Pulls!TypeOK, Pulls!PullTo,
     Pulls!pullVars
<1>3. JudgedOK(s)'
  <2>1. CASE Pulls!Acquire(s) \/ Pulls!Receive(s) \/ Pulls!GiveUp(s) \/ Pulls!Report(s)
    BY <1>0, <1>1, <2>1 DEF JudgedOK, Pulls!Acquire, Pulls!Receive, Pulls!GiveUp, Pulls!Report,
       Pulls!WorkerTo, Pulls!TypeOK, Pulls!pullVars, Pulls!Failures
  <2>2. CASE Pulls!Judge(s)
    <3>1. /\ worker[s] = "judge" /\ worker'[s] = "judgeAgain" /\ UNCHANGED <<pull, err>>
          /\ status[s] # 0 => out'[s] = [state |-> "HTTP", code |-> status[s], tools |-> {}]
          /\ status[s] = 0 => out'[s] = [state |-> "words", code |-> 0, tools |-> {}]
      BY <2>2, FirstReading
    <3>2. \/ out'[s].state = "HTTP" /\ status[s] # 0
          \/ out'[s] = [state |-> "words", code |-> 0, tools |-> {}] /\ status[s] = 0
      BY <3>1
    <3> QED  BY <1>0, <1>1, <3>1, <3>2 DEF JudgedOK
  <2>3. CASE Pulls!JudgeAgain(s)
    BY <1>0, <1>1, <2>3 DEF JudgedOK, Pulls!JudgeAgain, Pulls!WorkerTo, Pulls!Record, Pulls!TypeOK
  <2> QED  BY <2>1, <2>2, <2>3 DEF Pulls!WorkerStep
<1> QED  BY <1>1, <1>2, <1>3 DEF SurveyInv, JudgedOK

LEMMA SurveyStep == SurveyInv /\ [Pulls!Next]_(Pulls!vars) => SurveyInv'
<1> SUFFICES ASSUME SurveyInv, [Pulls!Next]_(Pulls!vars) PROVE \A r \in Servers : JudgedOK(r)'
  BY SweepStep DEF SurveyInv, CodesAreErrors
<1>1. CASE UNCHANGED <<Pulls!pullVars, Pulls!workerVars>> /\ (Pulls!Interrupt \/ UNCHANGED Pulls!vars
                                                 \/ \E s \in Servers : Pulls!Expire(s))
  BY <1>1 DEF SurveyInv, SweepInv, JudgedOK, Pulls!TypeOK, Pulls!pullVars, Pulls!workerVars,
     Pulls!Interrupt, Pulls!Expire, Pulls!vars
<1> QED
  BY <1>1, PullStepJudged, WorkerStepJudged DEF Pulls!Next, Pulls!Interrupt, Pulls!Expire, Pulls!vars

LEMMA SurveyInvariant == CodesAreErrors /\ Pulls!Spec => []SurveyInv
<1> QED  BY SurveyStarts, SurveyStep, PTL DEF Pulls!Spec

-----------------------------------------------------------------------------
\* The promise. A step of the sweep writes at most one row, hears one thing, or is none of
\* Survey's concern; two rows are not the promise's, and are named.
Deviation(s) == Pulls!StoppedEarly(s) \/ Pulls!Overtaken(s)

LEMMA OtherRows ==
    ASSUME NEW s \in Servers, NEW r \in Servers \ {s}, worker'[r] = worker[r], out'[r] = out[r]
    PROVE  Pulls!Settled'[r] = Pulls!Settled[r]
<1> QED  BY DEF Pulls!Settled

LEMMA StartsSurvey == Pulls!Init => Pulls!Promise!Init
<1> QED  BY DEF Pulls!Init, Pulls!Promise!Init, Pulls!Settled, Pulls!Nothing, Pulls!Promise!Blank

LEMMA PullsTalk ==
    ASSUME SurveyInv, NEW s \in Servers, Pulls!PullStep(s)
    PROVE  Pulls!Promise!Next \/ UNCHANGED Pulls!Promise!surveyed
<1>0. Pulls!TypeOK /\ PullOK(s) /\ OutOK(s)  BY DEF SurveyInv, SweepInv
<1>1. UNCHANGED <<worker, out, expired, interrupted, Pulls!Settled>>
  BY DEF Pulls!PullStep, Pulls!Connected, Pulls!Listed, Pulls!Refused, Pulls!Broken,
     Pulls!SideRefused, Pulls!CloseSession, Pulls!Deliver, Pulls!workerVars, Pulls!Settled
<1>2. pull[s] \notin {"none", "deliver", "done"} => Pulls!Promise!Talks(s)
  BY <1>0 DEF OutOK, Pulls!Promise!Talks, Pulls!Settled, Pulls!Nothing
<1>3. CASE Pulls!Connected(s) \/ Pulls!Broken(s) \/ Pulls!CloseSession(s) \/ Pulls!Deliver(s)
  BY <1>1, <1>3 DEF Pulls!Connected, Pulls!Broken, Pulls!CloseSession, Pulls!Deliver,
     Pulls!Promise!surveyed
<1>4. CASE Pulls!Listed(s)
  <2>1. heard[s] \in {<<>>, <<{}>>} /\ pull[s] \in {"list1", "list2"} /\ UNCHANGED status
    BY <1>0, <1>4 DEF PullOK, Pulls!Listed
  <2>2. \E surface \in Pulls!Surfaces : heard' = [heard EXCEPT ![s] = Append(@, surface)]
    BY <1>4 DEF Pulls!Listed
  <2>3. Pulls!Promise!List(s)
    BY <1>1, <1>2, <2>1, <2>2 DEF Pulls!Promise!List
  <2> QED  BY <2>3 DEF Pulls!Promise!Next
<1>5. CASE Pulls!Refused(s) \/ Pulls!SideRefused(s)
  <2>1. /\ pull[s] \notin {"none", "deliver", "done"} /\ UNCHANGED heard
        /\ \E code \in Codes : status' = [status EXCEPT ![s] = code]
    BY <1>0, <1>5 DEF Pulls!Refused, Pulls!SideRefused, Pulls!Running
  <2>2. Pulls!Promise!Refuse(s)  BY <1>1, <1>2, <2>1 DEF Pulls!Promise!Refuse
  <2> QED  BY <2>2 DEF Pulls!Promise!Next
<1> QED  BY <1>3, <1>4, <1>5 DEF Pulls!PullStep

\* A goroutine writes its server's row once it has made up its mind, and nothing else does.
LEMMA GoroutinesWrite ==
    ASSUME SurveyInv, NEW s \in Servers, Pulls!WorkerStep(s)
    PROVE  Pulls!Promise!Next \/ Deviation(s) \/ UNCHANGED Pulls!Promise!surveyed
<1>0. Pulls!TypeOK /\ PullOK(s) /\ OutOK(s) /\ JudgedOK(s)  BY DEF SurveyInv, SweepInv
<1>1. UNCHANGED <<heard, status, expired, interrupted>>
  BY DEF Pulls!WorkerStep, Pulls!Acquire, Pulls!Receive, Pulls!GiveUp, Pulls!Judge,
     Pulls!JudgeAgain, Pulls!Report, Pulls!pullVars
<1>2. \A r \in Servers \ {s} : Pulls!Settled'[r] = Pulls!Settled[r]
  <2>1. ASSUME NEW r \in Servers \ {s} PROVE worker'[r] = worker[r] /\ out'[r] = out[r]
    BY <1>0 DEF Pulls!WorkerStep, Pulls!Acquire, Pulls!Receive, Pulls!GiveUp, Pulls!Judge,
       Pulls!JudgeAgain, Pulls!Report, Pulls!WorkerTo, Pulls!Record, Pulls!TypeOK
  <2> QED  BY <2>1, OtherRows
<1>3. ASSUME Pulls!Settled'[s] = Pulls!Settled[s] PROVE UNCHANGED Pulls!Promise!surveyed
  BY <1>1, <1>2, <1>3 DEF Pulls!Promise!surveyed, Pulls!Settled
<1>4. ASSUME NEW state, NEW code, NEW tools, Pulls!Settled[s] = Pulls!Promise!Blank,
             Pulls!Settled'[s] = [state |-> state, code |-> code, tools |-> tools]
      PROVE  Pulls!Promise!Write(s, state, code, tools)
  <2>1. Pulls!Settled' = [Pulls!Settled EXCEPT ![s] = [state |-> state, code |-> code, tools |-> tools]]
    BY <1>2, <1>4 DEF Pulls!Settled
  <2> QED  BY <1>1, <1>4, <2>1 DEF Pulls!Promise!Write
<1>5. CASE Pulls!Acquire(s) \/ Pulls!GiveUp(s) \/ Pulls!Report(s)
  <2>1. Pulls!Settled'[s] = Pulls!Settled[s]
    BY <1>0, <1>5 DEF Pulls!Settled, Pulls!Acquire, Pulls!GiveUp, Pulls!Report,
       Pulls!WorkerTo, Pulls!Record, Pulls!TypeOK
  <2> QED  BY <1>3, <2>1
<1>6. CASE Pulls!Receive(s)
  <2>1. /\ worker[s] = "probing" /\ pull[s] = "done"
        /\ Pulls!Settled[s] = Pulls!Promise!Blank
    BY <1>6 DEF Pulls!Receive, Pulls!Settled, Pulls!Nothing, Pulls!Promise!Blank
  <2>2. CASE failure[s] = "none"
    <3>1. Conclusive(heard[s])  BY <1>0, <2>1, <2>2 DEF PullOK
    <3>2. heard[s] \notin {<<>>, <<{}>>}
      <4>1. Len(<<{}>>) = 1 /\ Pulls!Last(<<{}>>) = {}  BY DEF Pulls!Last
      <4>2. ASSUME heard[s] = <<{}>> PROVE Pulls!Last(heard[s]) = {} /\ Len(heard[s]) # 2
        <5> HIDE DEF Pulls!Last
        <5>1. Len(heard[s]) = 1 /\ Pulls!Last(heard[s]) = {}  BY <4>1, <4>2, Zenon
        <5> QED  BY <5>1
      <4>3. heard[s] # <<>>  BY <3>1 DEF Conclusive
      <4>4. heard[s] # <<{}>>  BY <3>1, <4>2, Zenon DEF Conclusive
      <4> QED  BY <4>3, <4>4, Zenon
    <3>3. Pulls!Settled'[s] = [state |-> "ok", code |-> 0, tools |-> Pulls!Last(heard[s])]
      BY <1>0, <1>6, <2>2 DEF Pulls!Receive, Pulls!WorkerTo, Pulls!TypeOK, Pulls!Settled
    <3>4. Pulls!Promise!Write(s, "ok", 0, heard[s][Len(heard[s])])
      BY <1>4, <2>1, <3>3 DEF Pulls!Last
    <3> QED  BY <3>2, <3>4 DEF Pulls!Promise!Answered, Pulls!Promise!Next
  <2>3. CASE failure[s] # "none"
    <3>1. Pulls!Settled'[s] = Pulls!Settled[s]
      BY <1>0, <1>6, <2>1, <2>3 DEF Pulls!Receive, Pulls!WorkerTo, Pulls!Settled, Pulls!TypeOK
    <3> QED  BY <1>3, <3>1
  <2> QED  BY <2>2, <2>3
<1>7. CASE Pulls!Judge(s)
  <2>1. /\ worker[s] = "judge" /\ worker'[s] = "judgeAgain"
        /\ status[s] # 0 => out'[s] = [state |-> "HTTP", code |-> status[s], tools |-> {}]
        /\ status[s] = 0 => out'[s] = [state |-> "words", code |-> 0, tools |-> {}]
    BY <1>7, FirstReading
  <2>2. Pulls!Settled[s] = Pulls!Promise!Blank
    BY <2>1 DEF Pulls!Settled, Pulls!Nothing, Pulls!Promise!Blank
  <2>3. CASE status[s] # 0
    <3>1. Pulls!Settled'[s] = [state |-> "HTTP", code |-> status[s], tools |-> {}]
      BY <2>1, <2>3 DEF Pulls!Settled
    <3>2. Pulls!Promise!RefusedWith(s)
      BY <1>4, <2>2, <2>3, <3>1 DEF Pulls!Promise!RefusedWith
    <3> QED  BY <3>2 DEF Pulls!Promise!Next
  <2>4. CASE status[s] = 0
    <3>1. Pulls!Settled'[s] = Pulls!Settled[s]
      BY <2>1, <2>4 DEF Pulls!Settled
    <3> QED  BY <1>3, <3>1
  <2> QED  BY <2>3, <2>4
<1>8. CASE Pulls!JudgeAgain(s)
  <2>1. worker[s] = "judgeAgain" /\ worker'[s] = "report"
    BY <1>0, <1>8 DEF Pulls!JudgeAgain, Pulls!WorkerTo, Pulls!TypeOK
  <2>2. CASE out[s].state = "HTTP"
    <3>1. status[s] # 0  BY <1>0, <2>1, <2>2 DEF JudgedOK
    <3>2. Pulls!Settled'[s] = Pulls!Settled[s]
      BY <1>8, <2>1, <2>2, <3>1 DEF Pulls!JudgeAgain, Pulls!Settled
    <3> QED  BY <1>3, <3>2
  <2>3. CASE out[s].state # "HTTP"
    <3>1. /\ out[s] = [state |-> "words", code |-> 0, tools |-> {}]
          /\ (status[s] = 0 \/ err[s] = "deadline")
          /\ Pulls!Settled[s] = Pulls!Promise!Blank
      BY <1>0, <2>1, <2>3 DEF JudgedOK, Pulls!Settled, Pulls!Nothing, Pulls!Promise!Blank
    <3>2. CASE status[s] = 0 /\ (err[s] = "deadline" \/ expired[s])
      <4>1. Pulls!Settled'[s] = [state |-> "timeout", code |-> 0, tools |-> {}]
        BY <1>0, <1>8, <2>1, <3>2 DEF Pulls!JudgeAgain, Pulls!Record, Pulls!TypeOK, Pulls!Settled
      <4>2. Pulls!Promise!Write(s, "timeout", 0, {})  BY <1>4, <3>1, <4>1
      <4>3. expired[s] \/ (interrupted /\ err[s] = "deadline")  BY <1>0, <3>2 DEF JudgedOK
      <4>4. Pulls!Promise!TimedOut(s) \/ Pulls!StoppedEarly(s)
        BY <3>2, <4>2, <4>3 DEF Pulls!Promise!TimedOut, Pulls!StoppedEarly
      <4> QED  BY <4>4 DEF Pulls!Promise!Next, Deviation
    <3>3. CASE ~(status[s] = 0 /\ (err[s] = "deadline" \/ expired[s]))
      <4>1. Pulls!Settled'[s] = [state |-> "words", code |-> 0, tools |-> {}]
        BY <1>8, <2>1, <3>1, <3>3 DEF Pulls!JudgeAgain, Pulls!Settled
      <4>2. Pulls!Promise!Write(s, "words", 0, {})  BY <1>4, <3>1, <4>1
      <4>3. Pulls!Promise!InWords(s) \/ Pulls!Overtaken(s)
        BY <1>0, <3>1, <3>3, <4>2 DEF Pulls!Promise!InWords, Pulls!Overtaken, Pulls!TypeOK
      <4> QED  BY <4>3 DEF Pulls!Promise!Next, Deviation
    <3> QED  BY <3>2, <3>3
  <2> QED  BY <2>2, <2>3
<1> QED  BY <1>5, <1>6, <1>7, <1>8 DEF Pulls!WorkerStep

LEMMA StepsSurvey ==
    SurveyInv /\ [Pulls!Next]_(Pulls!vars)
    => [Pulls!Promise!Next \/ \E s \in Servers : Pulls!StoppedEarly(s) \/ Pulls!Overtaken(s)]_(
           Pulls!Promise!surveyed)
<1> SUFFICES ASSUME SurveyInv, [Pulls!Next]_(Pulls!vars)
             PROVE  \/ Pulls!Promise!Next
                    \/ \E s \in Servers : Deviation(s)
                    \/ UNCHANGED Pulls!Promise!surveyed
  BY DEF Deviation
<1>1. ASSUME NEW s \in Servers, Pulls!Expire(s) PROVE Pulls!Promise!Next
  <2>1. Pulls!Promise!RunLate(s)
    BY <1>1 DEF Pulls!Expire, Pulls!Promise!RunLate, Pulls!pullVars, Pulls!workerVars, Pulls!Settled
  <2> QED  BY <2>1 DEF Pulls!Promise!Next
<1>2. CASE Pulls!Interrupt \/ UNCHANGED Pulls!vars
  BY <1>2 DEF Pulls!Interrupt, Pulls!vars, Pulls!Promise!surveyed, Pulls!pullVars, Pulls!workerVars,
     Pulls!Settled
<1> QED  BY <1>1, <1>2, PullsTalk, GoroutinesWrite DEF Pulls!Next

\* With its goroutines, slots, second readings and pulls left behind, the sweep keeps the
\* promise of Survey, one row for each server as the document has it, but for two rows:
\* a timeout for a server that was stopped, and words for one whose status came between
\* the two readings.
THEOREM SweepKeepsPromise == CodesAreErrors /\ Pulls!Spec => Pulls!KeepsPromise
<1> QED
  BY StartsSurvey, StepsSurvey, SurveyInvariant, PTL DEF Pulls!Spec, Pulls!KeepsPromise

=============================================================================
