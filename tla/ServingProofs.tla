---------------------------- MODULE ServingProofs ----------------------------
(***************************************************************************)
(* Proofs about Serving, for any requests, timeouts, grace and drain.      *)
(* Whoever has the proxy's mutex gives it back by its own deadline, and    *)
(* that is not later than one tool deadline after anyone behind it queued: *)
(* two for those whom one call, and no other before they are through, took *)
(* it in front of.  So a wait for the mutex is at most two tool deadlines, *)
(* which bounds a call with its critical sections, and the exit.           *)
(***************************************************************************)
EXTENDS Serving, TLAPS

\* When x came for the mutex, and what it may wait for longer than one tool deadline.
Turn(x)  == IF x = Close THEN since ELSE at[x]
Slack(x) == IF x \in passed THEN timeout ELSE 0

Types ==
    /\ clock \in 0 .. MaxClock
    /\ mode \in {"spec", "upstream"}
    /\ timeout \in Timeouts
    /\ phase \in Phases /\ since \in 0 .. MaxClock
    /\ signalled \in BOOLEAN /\ failed \in BOOLEAN
    /\ stage \in [Requests -> {"away"} \cup Live \cup Finished]
    /\ dialect \in [Requests -> {"old", "new"}]
    /\ start \in [Requests -> 0 .. MaxClock]
    /\ began \in [Requests -> 0 .. MaxClock]
    /\ at \in [Requests -> 0 .. MaxClock]
    /\ queue \in Seq(Requests \cup {Close})
    /\ woken \in BOOLEAN

QueueOK ==
    /\ \A i, j \in 1 .. Len(queue) : queue[i] = queue[j] => i = j
    /\ \A i \in 1 .. Len(queue) : queue[i] # Close => stage[queue[i]] \in Locking
    /\ Close \in Members <=> phase \in {"close", "closing"}
    /\ passed \subseteq Members
    /\ phase = "closing" => HasLock(Close) /\ ~woken

\* While a call may be served, or Close waits, whoever holds the mutex has a deadline.
Timing == timeout > 0 /\ phase \in {"serve", "drain", "close"}

InTurn ==
    Timing =>
        /\ \A i, j \in 1 .. Len(queue) :
               i < j => Turn(queue[i]) <= Turn(queue[j]) + Slack(queue[j])
        /\ \A x \in Members : clock <= Turn(x) + timeout + Slack(x)

\* How long after its beginning a call gets to the stage it is at: two tool deadlines for
\* every mutex it has had since, unless its own had to be in the future to get there.
Reached(s) ==
    CASE s = "list1"   -> 0
      [] s = "drift"   -> 2 * timeout
      [] s = "take"    -> 4 * timeout
      [] s = "retire"  -> 6 * timeout
      [] s = "dial"    -> 6 * timeout + HangUp
      [] s = "list2"   -> 3 * timeout
      [] s = "args"    -> 3 * timeout
      [] s = "calling" -> 5 * timeout
      [] OTHER         -> timeout

CallOK(r) ==
    /\ began[r] <= clock /\ at[r] <= clock
    /\ stage[r] \in Handling => began[r] <= at[r]
    /\ Wants(r) => at[r] = clock
    /\ timeout > 0 /\ stage[r] \in Heeding => clock <= at[r] \/ clock <= began[r] + timeout
    /\ stage[r] = "retire" => clock <= at[r] + HangUp
    /\ Timing /\ stage[r] \in Handling => at[r] <= began[r] + Reached(stage[r])

\* A call of a grant of one's own is in nobody's queue.
GrantOK(r) ==
    mode = "spec" /\ stage[r] \in Handling =>
        /\ stage[r] \in {"calling", "parsing"}
        /\ timeout > 0 => clock <= began[r] + timeout

Ends ==
    /\ CleanExitIsTrue
    /\ Running => \A r \in Requests : stage[r] # "killed"
    /\ phase \in {"flush", "close", "closing"} /\ ~failed => InFlight = {}

ServingInv ==
    /\ Types /\ QueueOK /\ InTurn
    /\ since <= clock
    /\ phase \in {"setup", "build"} => queue = <<>> /\ \A r \in Requests : stage[r] = "away"
    /\ \A r \in Requests : CallOK(r) /\ GrantOK(r)
    /\ GrantsAreNotCut /\ ExitBounded /\ Ends

LEMMA Numbers ==
    ASSUME Types
    PROVE  /\ clock \in Nat /\ since \in Nat /\ timeout \in Nat
           /\ Grace \in Nat \ {0} /\ Drain \in Nat /\ HangUp \in Nat
           /\ \A r \in Requests : start[r] \in Nat /\ began[r] \in Nat /\ at[r] \in Nat
           /\ \A r \in Requests : Turn(r) \in Nat
           /\ Turn(Close) \in Nat
           /\ \A x : Slack(x) \in {0, timeout}
           /\ \A r \in Requests : Tool(r) <= began[r] + timeout /\ Tool(r) \in Int
           /\ \A r \in Requests : Transport(r) = start[r] + timeout + Grace
<1>1. /\ clock \in Nat /\ since \in Nat /\ timeout \in Nat
      /\ Grace \in Nat \ {0} /\ Drain \in Nat /\ HangUp \in Nat
      /\ \A r \in Requests : start[r] \in Nat /\ began[r] \in Nat /\ at[r] \in Nat
    BY TimesAssumption, BoundsAssumption DEF Types
<1> QED
    BY <1>1 DEF Tool, Transport, Turn, Slack

-----------------------------------------------------------------------------
\* The mutex.  Who has it or waits for it.
LEMMA MembersAre ==
    ASSUME Types
    PROVE  /\ DOMAIN queue = 1 .. Len(queue) /\ Len(queue) \in Nat
           /\ \A i \in 1 .. Len(queue) : queue[i] \in Members
           /\ Members \subseteq Requests \cup {Close}
           /\ \A x \in Members : \E i \in 1 .. Len(queue) : queue[i] = x
           /\ \A x : HasLock(x) => Len(queue) >= 1 /\ queue[1] = x /\ x \in Members
<1>1. queue \in Seq(Requests \cup {Close})
    BY DEF Types
<1>2. DOMAIN queue = 1 .. Len(queue) /\ Len(queue) \in Nat
    BY <1>1
<1>3. Members = {queue[i] : i \in 1 .. Len(queue)}
    BY <1>2 DEF Members
<1>4. \A x : HasLock(x) => Len(queue) >= 1 /\ queue[1] = x
    BY <1>1 DEF HasLock
<1> QED
    BY <1>1, <1>2, <1>3, <1>4

\* A step that leaves it alone.
LEMMA MutexStays ==
    ASSUME Types, QueueOK, InTurn, UNCHANGED mutexVars, clock' = clock, timeout' = timeout,
           \A r \in Members \ {Close} : stage'[r] \in Locking /\ at'[r] = at[r],
           phase' \in {"close", "closing"} <=> phase \in {"close", "closing"},
           phase \in {"close", "closing"} => since' = since,
           phase' = "closing" => phase = "closing",
           Timing' => Timing \/ queue = <<>>
    PROVE  QueueOK' /\ InTurn'
<1>1. Members' = Members /\ queue' = queue /\ passed' = passed /\ woken' = woken
    BY DEF Members, mutexVars
<1>2. QueueOK'
    BY <1>1, MembersAre DEF QueueOK, HasLock
<1>3. /\ \A x \in Members : Turn(x)' = Turn(x) /\ Slack(x)' = Slack(x)
      /\ \A i \in 1 .. Len(queue) : Turn(queue[i])' = Turn(queue[i]) /\ Slack(queue[i])' = Slack(queue[i])
    BY <1>1, MembersAre DEF Turn, Slack, QueueOK
<1>4. ASSUME queue = <<>> PROVE InTurn'
    BY <1>1, <1>4 DEF InTurn, Members
<1>5. ASSUME Timing, Timing' PROVE InTurn'
  <2>1. \A i, j \in 1 .. Len(queue)' :
            i < j => Turn(queue[i])' <= Turn(queue[j])' + Slack(queue[j])'
      BY <1>1, <1>3, <1>5, MembersAre DEF InTurn
  <2>2. \A x \in Members' : clock' <= Turn(x)' + timeout' + Slack(x)'
      BY <1>1, <1>3, <1>5 DEF InTurn
  <2> QED
      BY <2>1, <2>2 DEF InTurn
<1> QED
    BY <1>2, <1>4, <1>5 DEF InTurn

\* x comes for it: behind the others, or in front of them if none of them was passed over.
LEMMA MutexLocks ==
    ASSUME Types, QueueOK, InTurn, NEW x \in Requests \cup {Close}, x \notin Members, Lock(x),
           clock' = clock, timeout' = timeout, since <= clock,
           \A r \in Requests : at[r] <= clock,
           \A r \in Members \ {Close} : stage'[r] \in Locking /\ at'[r] = at[r],
           x # Close => stage'[x] \in Locking /\ phase' = phase /\ since' = since,
           x = Close => phase \notin {"close", "closing"} /\ phase' = "close",
           Turn(x)' = clock,
           Timing' => Timing
    PROVE  QueueOK' /\ InTurn' /\ Members' = Members \cup {x}
<1>1. Len(queue) \in Nat /\ queue \in Seq(Requests \cup {Close}) /\ DOMAIN queue = 1 .. Len(queue)
    BY MembersAre DEF Types
<1>2. \A i \in 1 .. Len(queue) : queue[i] \in Members /\ queue[i] # x
    BY MembersAre
<1>3. \A y \in Members : Turn(y)' = Turn(y) /\ Turn(y) <= clock /\ Turn(y) \in Nat
  <2>1. \A y \in Members : Turn(y)' = Turn(y)
      BY MembersAre DEF Turn, QueueOK
  <2>2. \A y \in Members : Turn(y) <= clock /\ Turn(y) \in Nat
      BY MembersAre, Numbers DEF Turn
  <2> QED
      BY <2>1, <2>2
<1>4. CASE queue' = Append(queue, x) /\ UNCHANGED <<woken, passed>>
  <2>1. /\ Len(queue)' = Len(queue) + 1 /\ queue'[Len(queue) + 1] = x
        /\ \A i \in 1 .. Len(queue) : queue'[i] = queue[i]
        /\ DOMAIN queue' = 1 .. Len(queue) + 1
      BY <1>1, <1>4
  <2>2. Members' = Members \cup {x}
      BY <1>1, <2>1, MembersAre DEF Members
  <2>3. \A y \in Members : Slack(y)' = Slack(y)
      BY <1>4 DEF Slack
  <2>4. \A i \in 1 .. Len(queue) : Turn(queue[i])' = Turn(queue[i]) /\ Slack(queue[i])' = Slack(queue[i])
      BY <1>2, <1>3, <1>4, <2>1 DEF Turn, Slack
  <2>5. QueueOK'
    <3>1. \A i, j \in 1 .. Len(queue)' : queue'[i] = queue'[j] => i = j
        BY <1>1, <1>2, <2>1 DEF QueueOK
    <3>2. \A i \in 1 .. Len(queue)' : queue'[i] # Close => stage'[queue'[i]] \in Locking
        BY <1>1, <1>2, <2>1
    <3>3. Close \in Members' <=> phase' \in {"close", "closing"}
        BY <2>2, RequestsAssumption DEF QueueOK
    <3>4. passed' \subseteq Members'
        BY <1>4, <2>2 DEF QueueOK
    <3>5. ASSUME phase' = "closing" PROVE HasLock(Close)' /\ ~woken'
      <4>1. HasLock(Close) /\ ~woken
          BY <3>5 DEF QueueOK
      <4> QED
          BY <1>1, <1>4, <2>1, <4>1, MembersAre DEF HasLock
    <3> QED
        BY <3>1, <3>2, <3>3, <3>4, <3>5 DEF QueueOK
  <2>6. ASSUME Timing, Timing' PROVE InTurn'
    <3>1. \A i, j \in 1 .. Len(queue)' :
              i < j => Turn(queue[i])' <= Turn(queue[j])' + Slack(queue[j])'
      <4> SUFFICES ASSUME NEW i \in 1 .. Len(queue)', NEW j \in 1 .. Len(queue)', i < j
                   PROVE  Turn(queue[i])' <= Turn(queue[j])' + Slack(queue[j])'
          OBVIOUS
      <4>1. i \in 1 .. Len(queue)
          BY <1>1, <2>1
      <4>2. CASE j \in 1 .. Len(queue)
          BY <2>4, <2>6, <4>1, <4>2 DEF InTurn
      <4>3. CASE j = Len(queue) + 1
        <5>1. Turn(queue[j])' = clock /\ Slack(queue[j])' \in {0, timeout}
            BY <2>1, <4>3 DEF Turn, Slack
        <5>2. Turn(queue[i])' <= clock /\ Turn(queue[i])' \in Nat
            BY <1>2, <1>3, <2>4, <4>1
        <5> QED
            BY <5>1, <5>2, Numbers
      <4> QED
          BY <1>1, <2>1, <4>2, <4>3
    <3>2. \A y \in Members' : clock' <= Turn(y)' + timeout' + Slack(y)'
      <4>1. clock <= Turn(x)' + timeout + Slack(x)'
        <5>1. Slack(x)' \in {0, timeout}
            BY DEF Slack
        <5> QED
            BY <5>1, Numbers
      <4> QED
          BY <1>3, <2>2, <2>3, <2>6, <4>1 DEF InTurn
    <3> QED
        BY <3>1, <3>2 DEF InTurn
  <2> QED
      BY <2>2, <2>5, <2>6 DEF InTurn
<1>5. CASE woken /\ passed = {} /\ queue' = <<x>> \o queue /\ passed' = Members /\ woken' = FALSE
  <2>1. /\ Len(queue)' = Len(queue) + 1 /\ queue'[1] = x
        /\ \A i \in 2 .. Len(queue) + 1 : queue'[i] = queue[i - 1] /\ i - 1 \in 1 .. Len(queue)
        /\ \A i \in 1 .. Len(queue) : queue[i] = queue'[i + 1] /\ i + 1 \in 1 .. Len(queue) + 1
        /\ DOMAIN queue' = 1 .. Len(queue) + 1
      BY <1>1, <1>5
  <2>2. Members' = Members \cup {x}
    <3>1. Members' = {queue'[i] : i \in 1 .. Len(queue) + 1}
        BY <2>1 DEF Members
    <3>2. \A i \in 1 .. Len(queue) + 1 : i = 1 \/ i \in 2 .. Len(queue) + 1
        BY <1>1
    <3>3. 1 \in 1 .. Len(queue) + 1
        BY <1>1
    <3> QED
        BY <1>1, <1>2, <2>1, <3>1, <3>2, <3>3, MembersAre
  <2>3. /\ \A y \in Members : Slack(y)' = timeout /\ Slack(y) = 0
        /\ Slack(x)' = 0
      BY <1>5 DEF Slack
  <2>4. \A i \in 2 .. Len(queue) + 1 :
            Turn(queue[i])' = Turn(queue[i - 1]) /\ Slack(queue[i])' = timeout /\ queue[i - 1] \in Members
      BY <1>2, <1>3, <1>5, <2>1, <2>3 DEF Turn, Slack
  <2>5. QueueOK'
    <3>1. \A i, j \in 1 .. Len(queue)' : queue'[i] = queue'[j] => i = j
      <4>1. \A i \in 1 .. Len(queue)' : i = 1 \/ i \in 2 .. Len(queue) + 1
          BY <1>1, <2>1
      <4>2. \A i \in 2 .. Len(queue) + 1 : queue'[i] # x
          BY <1>2, <2>1
      <4>3. \A i, j \in 2 .. Len(queue) + 1 : queue'[i] = queue'[j] => i - 1 = j - 1
          BY <2>1 DEF QueueOK
      <4> QED
          BY <1>1, <2>1, <4>1, <4>2, <4>3
    <3>2. \A i \in 1 .. Len(queue)' : queue'[i] # Close => stage'[queue'[i]] \in Locking
      <4>1. \A i \in 1 .. Len(queue)' : queue'[i] \in Members \cup {x}
          BY <1>1, <1>2, <2>1
      <4> QED
          BY <4>1
    <3>3. Close \in Members' <=> phase' \in {"close", "closing"}
        BY <2>2, RequestsAssumption DEF QueueOK
    <3>4. passed' \subseteq Members'
        BY <1>5, <2>2
    <3>5. phase' # "closing"
        BY <1>5 DEF QueueOK
    <3> QED
        BY <3>1, <3>2, <3>3, <3>4, <3>5 DEF QueueOK
  <2>6. ASSUME Timing, Timing' PROVE InTurn'
    <3>1. \A y \in Members : clock <= Turn(y) + timeout
        BY <1>3, <2>3, <2>6, Numbers DEF InTurn
    <3>2. \A i, j \in 1 .. Len(queue)' :
              i < j => Turn(queue[i])' <= Turn(queue[j])' + Slack(queue[j])'
      <4> SUFFICES ASSUME NEW i \in 1 .. Len(queue)', NEW j \in 1 .. Len(queue)', i < j
                   PROVE  Turn(queue[i])' <= Turn(queue[j])' + Slack(queue[j])'
          OBVIOUS
      <4>1. j \in 2 .. Len(queue) + 1
          BY <1>1, <2>1
      <4>2. Turn(queue[j])' + Slack(queue[j])' = Turn(queue[j - 1]) + timeout
          BY <2>4, <4>1
      <4>3. clock <= Turn(queue[j - 1]) + timeout
          BY <2>4, <3>1, <4>1
      <4>4. Turn(queue[i])' <= clock
        <5>1. CASE i = 1
            BY <2>1, <5>1, Numbers DEF Turn
        <5>2. CASE i \in 2 .. Len(queue) + 1
            BY <1>3, <2>4, <5>2
        <5> QED
            BY <1>1, <2>1, <5>1, <5>2
      <4>5. Turn(queue[i])' \in Nat /\ Turn(queue[j - 1]) \in Nat
        <5>1. CASE i = 1
            BY <2>1, <2>4, <1>3, <4>1, <5>1, Numbers DEF Turn
        <5>2. CASE i \in 2 .. Len(queue) + 1
            BY <1>3, <2>4, <4>1, <5>2
        <5> QED
            BY <1>1, <2>1, <5>1, <5>2
      <4> QED
          BY <4>2, <4>3, <4>4, <4>5, Numbers
    <3>3. \A y \in Members' : clock' <= Turn(y)' + timeout' + Slack(y)'
        BY <1>3, <2>2, <2>3, <3>1, Numbers
    <3> QED
        BY <3>2, <3>3 DEF InTurn
  <2> QED
      BY <2>2, <2>5, <2>6 DEF InTurn
<1> QED
    BY <1>4, <1>5 DEF Lock

\* The one who has it gives it back.
LEMMA MutexUnlocks ==
    ASSUME Types, QueueOK, InTurn, NEW x \in Requests \cup {Close}, HasLock(x), Unlock,
           clock' = clock, timeout' = timeout,
           \A r \in Requests : r # x => stage'[r] = stage[r] /\ at'[r] = at[r],
           x # Close => phase # "closing" /\ phase' = phase /\ since' = since,
           x = Close => phase' = "flush"
    PROVE  QueueOK' /\ InTurn' /\ Members' = Members \ {x}
<1>1. Len(queue) \in Nat \ {0} /\ queue \in Seq(Requests \cup {Close}) /\ DOMAIN queue = 1 .. Len(queue)
      /\ queue[1] = x /\ queue # <<>>
    BY MembersAre DEF Types, HasLock
<1>2. queue' = Tail(queue) /\ passed' = passed \ {x}
    BY DEF Unlock, HasLock
<1>3. /\ Len(queue)' = Len(queue) - 1 /\ DOMAIN queue' = 1 .. Len(queue) - 1
      /\ \A i \in 1 .. Len(queue) - 1 : queue'[i] = queue[i + 1] /\ i + 1 \in 1 .. Len(queue)
      /\ \A i \in 2 .. Len(queue) : queue[i] = queue'[i - 1] /\ i - 1 \in 1 .. Len(queue) - 1
    BY <1>1, <1>2
<1>4. \A i \in 1 .. Len(queue) : i = 1 \/ (i \in 2 .. Len(queue) /\ queue[i] # x)
    BY <1>1 DEF QueueOK
<1>5. Members' = Members \ {x}
  <2>1. Members' = {queue'[i] : i \in 1 .. Len(queue) - 1}
      BY <1>3 DEF Members
  <2>2. Members = {queue[i] : i \in 1 .. Len(queue)}
      BY <1>1 DEF Members
  <2>3. ASSUME NEW y \in Members' PROVE y \in Members \ {x}
    <3>1. PICK i \in 1 .. Len(queue) - 1 : y = queue'[i]
        BY <2>1, <2>3
    <3>2. i + 1 # 1 /\ y = queue[i + 1] /\ i + 1 \in 1 .. Len(queue)
        BY <1>1, <1>3, <3>1
    <3> QED
        BY <1>4, <2>2, <3>2
  <2>4. ASSUME NEW y \in Members, y # x PROVE y \in Members'
    <3>1. PICK i \in 1 .. Len(queue) : y = queue[i]
        BY <2>2
    <3>2. i \in 2 .. Len(queue)
        BY <1>1, <1>4, <2>4, <3>1
    <3> QED
        BY <1>3, <2>1, <3>1, <3>2
  <2> QED
      BY <2>3, <2>4
<1>6. \A y \in Members' : Turn(y)' = Turn(y) /\ Slack(y)' = Slack(y) /\ y \in Members
  <2>1. \A y \in Members' : Turn(y)' = Turn(y)
    <3>1. Close \in Members' => x # Close /\ Close \in Members
        BY <1>5
    <3> QED
        BY <1>5, <3>1, MembersAre DEF Turn, QueueOK
  <2> QED
      BY <1>2, <1>5, <2>1 DEF Slack
<1>7. \A i \in 1 .. Len(queue) - 1 :
          queue'[i] \in Members' /\ Turn(queue[i])' = Turn(queue[i + 1]) /\ Slack(queue[i])' = Slack(queue[i + 1])
  <2>1. \A i \in 1 .. Len(queue) - 1 : queue'[i] \in Members'
      BY <1>3 DEF Members
  <2> QED
      BY <1>3, <1>6, <2>1 DEF Turn, Slack
<1>8. QueueOK'
  <2>1. \A i, j \in 1 .. Len(queue)' : queue'[i] = queue'[j] => i = j
    <3>1. \A i, j \in 1 .. Len(queue) - 1 : queue'[i] = queue'[j] => i + 1 = j + 1
        BY <1>3 DEF QueueOK
    <3> QED
        BY <1>3, <3>1
  <2>2. \A i \in 1 .. Len(queue)' : queue'[i] # Close => stage'[queue'[i]] \in Locking
    <3>1. \A y \in Members' : y # Close => stage'[y] \in Locking
        BY <1>5, MembersAre DEF QueueOK
    <3> QED
        BY <1>3, <1>7, <3>1
  <2>3. Close \in Members' <=> phase' \in {"close", "closing"}
      BY <1>5, MembersAre DEF QueueOK
  <2>4. passed' \subseteq Members'
      BY <1>2, <1>5 DEF QueueOK
  <2> QED
      BY <2>1, <2>2, <2>3, <2>4 DEF QueueOK
<1>9. ASSUME Timing' PROVE InTurn'
  <2>1. Timing
      BY <1>9 DEF Timing
  <2>2. \A i, j \in 1 .. Len(queue)' :
            i < j => Turn(queue[i])' <= Turn(queue[j])' + Slack(queue[j])'
    <3>1. \A i, j \in 1 .. Len(queue) - 1 :
              i < j => Turn(queue[i + 1]) <= Turn(queue[j + 1]) + Slack(queue[j + 1])
        BY <1>1, <1>3, <2>1 DEF InTurn
    <3> QED
        BY <1>3, <1>7, <3>1
  <2>3. \A y \in Members' : clock' <= Turn(y)' + timeout' + Slack(y)'
      BY <1>6, <2>1 DEF InTurn
  <2> QED
      BY <2>2, <2>3 DEF InTurn
<1> QED
    BY <1>5, <1>8, <1>9 DEF InTurn

\* Time passes only if the one who has the mutex is not late.
LEMMA MutexTicks ==
    ASSUME Types, QueueOK, InTurn, \A r \in Requests : CallOK(r), Tick
    PROVE  QueueOK' /\ InTurn'
<1>1. UNCHANGED <<processVars, requestVars, queue, passed>> /\ clock' = clock + 1 /\ woken' = FALSE
    BY DEF Tick
<1>2. Members' = Members /\ \A x \in Members : Turn(x)' = Turn(x) /\ Slack(x)' = Slack(x)
    BY <1>1 DEF Members, Turn, Slack, processVars, requestVars
<1>3. QueueOK'
    BY <1>1, <1>2, MembersAre DEF QueueOK, HasLock, processVars, requestVars
<1>4. ASSUME Timing PROVE InTurn'
  <2>1. \A i, j \in 1 .. Len(queue)' :
            i < j => Turn(queue[i])' <= Turn(queue[j])' + Slack(queue[j])'
      BY <1>1, <1>4 DEF InTurn, Turn, Slack, processVars, requestVars
  <2>2. \A x \in Members : clock + 1 <= Turn(x) + timeout + Slack(x)
    <3> SUFFICES ASSUME NEW x \in Members PROVE clock + 1 <= Turn(x) + timeout + Slack(x)
        OBVIOUS
    <3>1. PICK k \in 1 .. Len(queue) : queue[k] = x
        BY MembersAre
    <3>2. PICK h : h = queue[1]
        OBVIOUS
    <3>3. h \in Members /\ HasLock(h)
        BY <3>1, <3>2, MembersAre DEF HasLock, Types
    <3>4. h \in Requests /\ stage[h] \in Listing /\ ~ToolOver(h)
      <4>1. h # Close
          BY <1>4, <3>3 DEF Tick, QueueOK, Timing
      <4>2. h \in Requests /\ stage[h] \in Locking /\ ~Due(h)
          BY <3>1, <3>2, <3>3, <4>1, MembersAre DEF Tick, QueueOK
      <4> QED
          BY <3>3, <4>2 DEF Due, Heeds, Locking
    <3>5. /\ clock \in Nat /\ timeout \in Nat /\ at[h] \in Nat /\ began[h] \in Nat
          /\ Tool(h) <= began[h] + timeout /\ Tool(h) \in Int
        BY <3>4, Numbers
    <3>6. clock + 1 <= at[h] + timeout
      <4>1. began[h] <= at[h]
          BY <3>4 DEF CallOK, Handling, Locking
      <4>2. clock < Tool(h)
          BY <1>4, <3>4, <3>5 DEF ToolOver, Timing
      <4> QED
          BY <3>5, <4>1, <4>2
    <3>7. Turn(h) = at[h]
        BY <3>4, RequestsAssumption DEF Turn
    <3>8. Turn(x) \in Nat /\ Slack(x) \in Nat
      <4>1. Slack(x) \in {0, timeout}
          BY DEF Slack
      <4>2. x = Close \/ x \in Requests
          BY MembersAre
      <4> QED
          BY <3>5, <4>1, <4>2, Numbers
    <3>9. x = h \/ Turn(h) <= Turn(x) + Slack(x)
        BY <1>4, <3>1, <3>2, MembersAre DEF InTurn
    <3> QED
        BY <3>5, <3>6, <3>7, <3>8, <3>9
  <2>3. \A x \in Members' : clock' <= Turn(x)' + timeout' + Slack(x)'
      BY <1>1, <1>2, <2>2 DEF processVars
  <2> QED
      BY <2>1, <2>3 DEF InTurn
<1> QED
    BY <1>1, <1>3, <1>4 DEF InTurn, Timing, processVars

-----------------------------------------------------------------------------
\* What the step of a request leaves alone.
LEMMA OthersStay ==
    ASSUME Types, NEW r \in Requests, RequestStep(r)
    PROVE  /\ UNCHANGED <<clock, processVars, dialect>>
           /\ \A o \in Requests : o # r => stage'[o] = stage[o] /\ at'[o] = at[o]
                                         /\ began'[o] = began[o] /\ start'[o] = start[o]
           /\ stage'[r] # "killed"
           /\ stage[r] \notin Live => stage' = stage \/ phase = "serve"
<1>1. Answer(r) \in {"cut", "answered"}
    BY DEF Answer
<1>2. ASSUME NEW s, Goto(r, s)
      PROVE  stage'[r] = s /\ \A o \in Requests : o # r => stage'[o] = stage[o] /\ at'[o] = at[o]
    BY <1>2 DEF Goto, Types
<1>3. ASSUME NEW from, NEW to, Leaves(r, from, to), from \subseteq Locking, to # "killed"
      PROVE  /\ UNCHANGED <<clock, processVars, dialect, start, began>>
             /\ \A o \in Requests : o # r => stage'[o] = stage[o] /\ at'[o] = at[o]
             /\ stage'[r] # "killed" /\ stage[r] \in Live
    BY <1>2, <1>3 DEF Leaves, Live, Handling
<1>4. CASE Arrive(r)
    BY <1>2, <1>4 DEF Arrive, Types
<1>5. CASE Begin(r) \/ Reject(r)
    BY <1>1, <1>2, <1>5 DEF Begin, Reject, Types, Live
<1>6. CASE Locks(r)
    BY <1>6 DEF Locks, Wants, Locking, Handling, Live, Listing, Brief, requestVars
<1>7. CASE Admitted(r) \/ ListFails(r) \/ Drifted(r) \/ Taken(r) \/ Installed(r) \/ Resolved(r) \/ Checked(r)
    BY <1>1, <1>3, <1>7 DEF Admitted, ListFails, Drifted, Taken, Installed, Resolved, Checked, Locking, Listing, Brief
<1>8. CASE Retired(r) \/ Dialled(r) \/ Answered(r) \/ Parsed(r)
    BY <1>1, <1>2, <1>8 DEF Retired, Dialled, Answered, Parsed, Live, Handling, Heeding
<1> QED
    BY <1>4, <1>5, <1>6, <1>7, <1>8 DEF RequestStep

\* A request that steps takes itself, at most, out of the queue.
LEMMA RequestMutex ==
    ASSUME ServingInv, NEW r \in Requests, RequestStep(r)
    PROVE  QueueOK' /\ InTurn' /\ Members \ {r} \subseteq Members' /\ (Locks(r) => r \in Members')
<1>1. /\ Types /\ QueueOK /\ InTurn /\ since <= clock /\ \A o \in Requests : CallOK(o)
      /\ r # Close
    BY RequestsAssumption DEF ServingInv
<1>2. /\ UNCHANGED <<clock, processVars>>
      /\ \A o \in Requests : o # r => stage'[o] = stage[o] /\ at'[o] = at[o]
    BY <1>1, OthersStay
<1>3. /\ clock' = clock /\ timeout' = timeout /\ phase' = phase /\ since' = since
      /\ (Timing' <=> Timing)
    BY <1>2 DEF processVars, Timing
<1>4. ASSUME UNCHANGED mutexVars, stage[r] \notin Locking
      PROVE  QueueOK' /\ InTurn' /\ Members' = Members
  <2>1. \A o \in Members \ {Close} : stage'[o] \in Locking /\ at'[o] = at[o]
      BY <1>1, <1>2, <1>4, MembersAre DEF QueueOK
  <2>2. QueueOK' /\ InTurn'
      BY <1>1, <1>3, <1>4, <2>1, MutexStays
  <2> QED
      BY <1>4, <2>2 DEF Members, mutexVars
<1>5. CASE Locks(r)
  <2>1. Wants(r) /\ Lock(r) /\ UNCHANGED requestVars
      BY <1>5 DEF Locks
  <2>2. Turn(r)' = clock
      BY <1>1, <2>1 DEF Turn, CallOK, requestVars
  <2>3. \A o \in Members \ {Close} : stage'[o] \in Locking /\ at'[o] = at[o]
      BY <1>1, <2>1, MembersAre DEF QueueOK, requestVars
  <2>4. \A o \in Requests : at[o] <= clock
      BY <1>1 DEF CallOK
  <2>5. r \notin Members /\ stage'[r] \in Locking
      BY <2>1 DEF Wants, requestVars
  <2> QED
      BY <1>1, <1>3, <2>1, <2>2, <2>3, <2>4, <2>5, MutexLocks
<1>6. ASSUME NEW from, NEW to, Leaves(r, from, to)
      PROVE  QueueOK' /\ InTurn' /\ Members' = Members \ {r} /\ stage[r] \in from /\ ~Locks(r)
  <2>1. HasLock(r) /\ Unlock /\ stage[r] \in from
      BY <1>6 DEF Leaves
  <2>2. phase # "closing" /\ r \in Members
    <3>1. r \in Members /\ queue[1] = r
        BY <1>1, <2>1, MembersAre
    <3>2. HasLock(Close) => queue[1] = Close
        BY <1>1, MembersAre
    <3> QED
        BY <1>1, <3>1, <3>2 DEF QueueOK
  <2>3. QueueOK' /\ InTurn' /\ Members' = Members \ {r}
      BY <1>1, <1>2, <1>3, <2>1, <2>2, MutexUnlocks
  <2> QED
      BY <2>1, <2>2, <2>3 DEF Locks, Wants
<1>7. CASE Admitted(r) \/ ListFails(r) \/ Drifted(r) \/ Taken(r) \/ Installed(r) \/ Resolved(r) \/ Checked(r)
    BY <1>6, <1>7 DEF Admitted, ListFails, Drifted, Taken, Installed, Resolved, Checked
<1>8. CASE Arrive(r) \/ Begin(r) \/ Reject(r) \/ Retired(r) \/ Dialled(r) \/ Answered(r) \/ Parsed(r)
  <2>1. UNCHANGED mutexVars /\ stage[r] \notin Locking
      BY <1>8 DEF Arrive, Begin, Reject, Retired, Dialled, Answered, Parsed, Locking, Listing, Brief
  <2> QED
      BY <1>4, <2>1 DEF Locks, Wants
<1> QED
    BY <1>5, <1>7, <1>8 DEF RequestStep

-----------------------------------------------------------------------------
\* How long a call has been under way.  It came to a stage at `now`, not later than it may.
LEMMA GoesOn ==
    ASSUME ServingInv, NEW r \in Requests, NEW s, Goto(r, s), UNCHANGED <<clock, processVars, began>>,
           s \in Handling => began[r] <= clock,
           Timing /\ s \in Handling => clock <= began[r] + Reached(s)
    PROVE  CallOK(r)'
<1>1. Types /\ clock \in Nat /\ HangUp \in Nat
    BY Numbers DEF ServingInv
<1>2. stage'[r] = s /\ at'[r] = (IF s \in Handling THEN clock ELSE 0) /\ began'[r] = began[r]
    BY <1>1 DEF Goto, Types
<1>3. began[r] <= clock
    BY DEF ServingInv, CallOK
<1>4. Reached(s)' = Reached(s) /\ (Timing' <=> Timing)
    BY DEF Reached, Timing, processVars
<1>5. s \notin Handling => s \notin Locking /\ s \notin Heeding /\ s # "retire"
    BY DEF Handling
<1> QED
    BY <1>1, <1>2, <1>3, <1>4, <1>5 DEF CallOK, Wants, processVars

\* How late a call may be that holds the mutex, or has a deadline to heed.
LEMMA SoFar ==
    ASSUME ServingInv, NEW r \in Requests
    PROVE  /\ began[r] \in Nat /\ clock \in Nat /\ timeout \in Nat /\ HangUp \in Nat /\ at[r] \in Nat
           /\ began[r] <= clock
           /\ Timing /\ HasLock(r) /\ stage[r] \in Handling =>
                  clock <= began[r] + Reached(stage[r]) + 2 * timeout
           /\ InTime(r) /\ Timing => clock <= began[r] + timeout
           /\ Timing /\ stage[r] = "retire" => clock <= began[r] + 6 * timeout + HangUp
           /\ Timing /\ stage[r] \in Handling => at[r] <= began[r] + Reached(stage[r])
           /\ Reached(stage[r]) \in Nat
<1>1. Types /\ InTurn /\ CallOK(r)
    BY DEF ServingInv
<1>2. began[r] \in Nat /\ clock \in Nat /\ timeout \in Nat /\ at[r] \in Nat /\ HangUp \in Nat
    BY <1>1, Numbers
<1>3. Reached(stage[r]) \in Nat
    BY <1>2 DEF Reached
<1>4. ASSUME Timing, HasLock(r), stage[r] \in Handling
      PROVE  clock <= began[r] + Reached(stage[r]) + 2 * timeout
  <2>1. clock <= Turn(r) + timeout + Slack(r)
      BY <1>1, <1>4, MembersAre DEF InTurn
  <2>2. Turn(r) = at[r] /\ Slack(r) \in {0, timeout}
      BY RequestsAssumption DEF Turn, Slack
  <2>3. at[r] <= began[r] + Reached(stage[r])
      BY <1>1, <1>4 DEF CallOK
  <2> QED
      BY <1>2, <1>3, <2>1, <2>2, <2>3
<1>5. ASSUME InTime(r), Timing PROVE clock <= began[r] + timeout
  <2>1. Tool(r) <= began[r] + timeout /\ Tool(r) \in Int
      BY <1>1, Numbers
  <2> QED
      BY <1>2, <1>5, <2>1 DEF InTime, Timing
<1>6. ASSUME Timing, stage[r] = "retire" PROVE clock <= began[r] + 6 * timeout + HangUp
  <2>1. Reached(stage[r]) = 6 * timeout
      BY <1>6 DEF Reached
  <2>2. clock <= at[r] + HangUp /\ at[r] <= began[r] + Reached(stage[r])
      BY <1>1, <1>6 DEF CallOK, Handling
  <2> QED
      BY <1>2, <2>1, <2>2
<1> QED
    BY <1>1, <1>2, <1>3, <1>4, <1>5, <1>6 DEF CallOK

LEMMA OwnStep ==
    ASSUME ServingInv, NEW r \in Requests, Running, RequestStep(r)
    PROVE  CallOK(r)'
<1>1. Types /\ CallOK(r) /\ UNCHANGED <<clock, processVars>>
    BY OthersStay DEF ServingInv
<1>2. /\ began[r] \in Nat /\ clock \in Nat /\ timeout \in Nat /\ HangUp \in Nat
      /\ began[r] <= clock /\ Reached(stage[r]) \in Nat
      /\ InTime(r) /\ Timing => clock <= began[r] + timeout
    BY SoFar
<1>3. Timing' <=> Timing
    BY <1>1 DEF Timing, processVars
<1>4. /\ Timing /\ HasLock(r) /\ stage[r] \in Handling => clock <= began[r] + Reached(stage[r]) + 2 * timeout
      /\ Timing /\ stage[r] = "retire" => clock <= began[r] + 6 * timeout + HangUp
    BY SoFar
<1>5. ASSUME NEW from, NEW to, Leaves(r, from, to), from \subseteq Handling,
             Timing /\ to \in Handling => clock <= began[r] + Reached(to)
      PROVE  CallOK(r)'
  <2>1. Goto(r, to) /\ UNCHANGED <<clock, processVars, began>>
      BY <1>5 DEF Leaves
  <2> QED
      BY <1>2, <1>5, <2>1, GoesOn
<1>6. Answer(r) \notin Handling
    BY DEF Answer, Handling, Locking, Listing, Brief, Heeding
<1>7. CASE Arrive(r)
  <2>1. Goto(r, "reading") /\ UNCHANGED <<clock, processVars, began>> /\ "reading" \notin Handling
      BY <1>7 DEF Arrive, Handling, Locking, Listing, Brief, Heeding
  <2> QED
      BY <2>1, GoesOn
<1>8. CASE Begin(r) \/ Reject(r)
  <2>1. PICK s : Goto(r, s) /\ (s \in {"list1", "calling"} \/ s \notin Handling)
      BY <1>6, <1>8 DEF Begin, Reject
  <2>2. began'[r] = clock /\ UNCHANGED <<clock, processVars>>
      BY <1>1, <1>8 DEF Begin, Reject, Types
  <2>3. stage'[r] = s /\ at'[r] = (IF s \in Handling THEN clock ELSE 0)
      BY <1>1, <2>1 DEF Goto, Types
  <2>4. timeout' = timeout
      BY <1>1 DEF processVars
  <2>5. s \in {"list1", "calling"} => Reached(s)' \in Nat /\ s \in Handling /\ s # "retire"
      BY <1>2, <2>4 DEF Reached, Handling, Locking, Listing, Brief, Heeding
  <2>6. s \notin Handling => s \notin Locking /\ s \notin Heeding /\ s # "retire"
      BY DEF Handling
  <2>7. CASE s \notin Handling
      BY <1>2, <2>2, <2>3, <2>6, <2>7 DEF CallOK, Wants
  <2>8. CASE s \in {"list1", "calling"}
      BY <1>2, <2>2, <2>3, <2>5, <2>8 DEF CallOK, Wants
  <2> QED
      BY <2>1, <2>7, <2>8
<1>9. CASE Locks(r)
  <2>1. UNCHANGED requestVars /\ r \in Members'
      BY <1>9, RequestMutex DEF Locks
  <2>2. Reached(stage[r])' = Reached(stage[r])
      BY <1>1, <2>1 DEF Reached, processVars, requestVars
  <2> QED
      BY <1>1, <1>3, <2>1, <2>2 DEF CallOK, Wants, processVars, requestVars
<1>10. CASE Admitted(r)
  <2>1. Leaves(r, Listing, "resolve") /\ InTime(r) /\ Reached("resolve") = timeout
      BY <1>10 DEF Admitted, Reached
  <2>2. Listing \subseteq Handling
      BY DEF Handling, Locking
  <2> QED
      BY <1>2, <1>5, <2>1, <2>2
<1>11. CASE ListFails(r)
  <2>1. CASE Leaves(r, {"list1"}, "drift")
    <3>1. stage[r] = "list1" /\ HasLock(r) /\ "list1" \in Handling
        BY <2>1 DEF Leaves, Handling, Locking, Listing
    <3>2. Reached("drift") = Reached("list1") + 2 * timeout
        BY <1>2 DEF Reached
    <3>3. Timing => clock <= began[r] + Reached("drift")
        BY <1>2, <1>4, <3>1, <3>2
    <3>4. {"list1"} \subseteq Handling
        BY <3>1
    <3> QED
        BY <1>5, <2>1, <3>3, <3>4
  <2>2. CASE Leaves(r, {"list2"}, Answer(r))
      BY <1>5, <1>6, <2>2 DEF Handling, Locking, Listing
  <2> QED
      BY <1>11, <2>1, <2>2 DEF ListFails
<1>12. ASSUME NEW from \in Brief, Leaves(r, {from}, Answer(r)) PROVE CallOK(r)'
    BY <1>5, <1>6, <1>12 DEF Handling, Locking
<1>13. ASSUME NEW from \in Brief, NEW to, Leaves(r, {from}, to),
              <<from, to>> \in {<<"drift", "take">>, <<"take", "retire">>, <<"install", "list2">>,
                                <<"resolve", "args">>, <<"args", "calling">>}
       PROVE  CallOK(r)'
  <2>1. stage[r] = from /\ HasLock(r) /\ from \in Handling
      BY <1>13 DEF Leaves, Handling, Locking
  <2>2. Reached(to) = Reached(from) + 2 * timeout
    <3>1. \/ from = "drift" /\ to = "take"
          \/ from = "take" /\ to = "retire"
          \/ from = "install" /\ to = "list2"
          \/ from = "resolve" /\ to = "args"
          \/ from = "args" /\ to = "calling"
        BY <1>13
    <3> QED
        BY <1>2, <3>1 DEF Reached
  <2>3. Timing => clock <= began[r] + Reached(to)
    <3>1. Timing => clock <= began[r] + Reached(from) + 2 * timeout
        BY <1>4, <2>1
    <3> QED
        BY <1>2, <2>1, <2>2, <3>1
  <2> QED
      BY <1>5, <1>13, <2>1, <2>3
<1>14. CASE Drifted(r) \/ Taken(r) \/ Installed(r) \/ Resolved(r) \/ Checked(r)
  <2>1. \E from \in Brief : \/ Leaves(r, {from}, Answer(r))
                            \/ \E to : /\ Leaves(r, {from}, to)
                                       /\ <<from, to>> \in {<<"drift", "take">>, <<"take", "retire">>,
                                                           <<"install", "list2">>, <<"resolve", "args">>,
                                                           <<"args", "calling">>}
      BY <1>14 DEF Drifted, Taken, Installed, Resolved, Checked, Brief
  <2> QED
      BY <1>12, <1>13, <2>1
<1>15. CASE Retired(r)
  <2>1. Goto(r, "dial") /\ UNCHANGED <<clock, processVars, began>> /\ stage[r] = "retire"
      BY <1>15 DEF Retired
  <2>2. Reached("dial") = 6 * timeout + HangUp
      BY DEF Reached
  <2>3. Timing => clock <= began[r] + Reached("dial")
      BY <1>2, <1>4, <2>1, <2>2
  <2> QED
      BY <1>2, <2>1, <2>3, GoesOn
<1>16. CASE Dialled(r)
  <2>1. UNCHANGED <<clock, processVars, began>> /\ ((InTime(r) /\ Goto(r, "install")) \/ Goto(r, Answer(r)))
      BY <1>16 DEF Dialled
  <2>2. InTime(r) /\ Timing => clock <= began[r] + Reached("install")
      BY <1>2 DEF Reached
  <2>3. CASE InTime(r) /\ Goto(r, "install")
      BY <1>2, <2>1, <2>2, <2>3, GoesOn
  <2>4. CASE Goto(r, Answer(r))
      BY <1>6, <2>1, <2>4, GoesOn
  <2> QED
      BY <2>1, <2>3, <2>4
<1>17. CASE Answered(r)
  <2>1. UNCHANGED <<clock, processVars, began>> /\ ((InTime(r) /\ Goto(r, "parsing")) \/ Goto(r, Answer(r)))
      BY <1>17 DEF Answered
  <2>2. InTime(r) /\ Timing => clock <= began[r] + Reached("parsing")
      BY <1>2 DEF Reached
  <2>3. CASE InTime(r) /\ Goto(r, "parsing")
      BY <1>2, <2>1, <2>2, <2>3, GoesOn
  <2>4. CASE Goto(r, Answer(r))
      BY <1>6, <2>1, <2>4, GoesOn
  <2> QED
      BY <2>1, <2>3, <2>4
<1>18. CASE Parsed(r)
    BY <1>1, <1>6, <1>18, GoesOn DEF Parsed
<1> QED
    BY <1>7, <1>8, <1>9, <1>10, <1>11, <1>14, <1>15, <1>16, <1>17, <1>18 DEF RequestStep

LEMMA CallStep ==
    ASSUME ServingInv, NEW r \in Requests, Running, RequestStep(r), NEW o \in Requests
    PROVE  CallOK(o)'
<1>1. Types /\ CallOK(o)
    BY DEF ServingInv
<1>2. UNCHANGED <<clock, processVars>> /\ Members \ {r} \subseteq Members'
    BY <1>1, OthersStay, RequestMutex
<1>3. Timing' <=> Timing
    BY <1>2 DEF Timing, processVars
<1>4. CASE o # r
  <2>1. stage'[o] = stage[o] /\ at'[o] = at[o] /\ began'[o] = began[o] /\ (Wants(o)' => Wants(o))
      BY <1>1, <1>2, <1>4, OthersStay DEF Wants
  <2>2. Reached(stage[o])' = Reached(stage[o])
      BY <1>2, <2>1 DEF Reached, processVars
  <2> QED
      BY <1>1, <1>2, <1>3, <2>1, <2>2 DEF CallOK, processVars
<1> QED
    BY <1>4, OwnStep

\* A call of a grant is never late, and its response is cut only if the request was.
LEMMA GrantStep ==
    ASSUME ServingInv, NEW r \in Requests, Running, RequestStep(r), NEW o \in Requests
    PROVE  /\ GrantOK(o)'
           /\ mode' = "spec" /\ stage'[o] = "cut" => began'[o] - start'[o] >= Grace
<1>1. /\ Types /\ GrantOK(o) /\ UNCHANGED <<clock, processVars>>
      /\ mode = "spec" /\ stage[o] = "cut" => began[o] - start[o] >= Grace
    BY OthersStay DEF ServingInv, GrantsAreNotCut, CutOnlyAfterSlowBody
<1>2. mode' = mode /\ timeout' = timeout /\ clock' = clock
    BY <1>1 DEF processVars
<1>3. CASE o # r
  <2>1. stage'[o] = stage[o] /\ began'[o] = began[o] /\ start'[o] = start[o]
      BY <1>1, <1>3, OthersStay
  <2> QED
      BY <1>1, <1>2, <2>1 DEF GrantOK
<1>4. CASE mode # "spec"
    BY <1>2, <1>4 DEF GrantOK
<1>5. CASE o = r /\ mode = "spec"
  <2>1. /\ clock \in Nat /\ timeout \in Nat /\ Grace \in Nat /\ began[r] \in Nat /\ start[r] \in Nat
        /\ Transport(r) = start[r] + timeout + Grace
      BY <1>1, Numbers
  <2>2. Answer(r) \in {"cut", "answered"} /\ (Answer(r) = "cut" => TransportOver(r))
      BY DEF Answer
  <2>3. "calling" \in Handling /\ "parsing" \in Handling /\ {"cut", "answered", "reading"} \cap Handling = {}
      BY DEF Handling, Locking, Listing, Brief, Heeding
  <2>4. CASE Arrive(r)
      BY <1>1, <1>5, <2>3, <2>4 DEF Arrive, Goto, GrantOK, Types
  <2>5. CASE Begin(r)
    <3>1. stage'[r] = "calling" /\ began'[r] = clock
        BY <1>1, <1>5, <2>5 DEF Begin, Goto, Types
    <3> QED
        BY <1>1, <1>2, <1>5, <2>1, <3>1 DEF GrantOK
  <2>6. CASE Reject(r)
    <3>1. stage'[r] = Answer(r) /\ began'[r] = clock /\ start'[r] = start[r]
        BY <1>1, <2>6 DEF Reject, Goto, Types
    <3> QED
        BY <1>5, <2>1, <2>2, <2>3, <3>1 DEF GrantOK, TransportOver
  <2>7. CASE Answered(r) \/ Parsed(r)
    <3>1. /\ stage[r] \in {"calling", "parsing"} /\ stage'[r] \in {"parsing", Answer(r)}
          /\ began'[r] = began[r] /\ start'[r] = start[r]
        BY <1>1, <2>7 DEF Answered, Parsed, Goto, Types
    <3>2. timeout > 0 => clock <= began[r] + timeout
        BY <1>1, <1>5, <2>3, <3>1 DEF GrantOK
    <3>3. GrantOK(r)'
        BY <1>2, <2>2, <2>3, <3>1, <3>2 DEF GrantOK
    <3>4. stage'[r] = "cut" => began[r] - start[r] >= Grace
        BY <2>1, <2>2, <3>1, <3>2 DEF TransportOver
    <3> QED
        BY <1>5, <3>1, <3>3, <3>4
  <2>8. stage[r] \notin Locking \cup {"retire", "dial"}
      BY <1>1, <1>5 DEF GrantOK, Handling, Locking, Listing, Brief, Heeding
  <2>9. ~Locks(r) /\ ~Retired(r) /\ ~Dialled(r)
      BY <2>8 DEF Locks, Wants, Retired, Dialled
  <2>10. ASSUME NEW from, NEW to, Leaves(r, from, to), from \subseteq Locking PROVE FALSE
      BY <2>8, <2>10 DEF Leaves
  <2>11. ~Admitted(r) /\ ~ListFails(r)
      BY <2>10 DEF Admitted, ListFails, Locking, Listing
  <2>12. ~Drifted(r) /\ ~Taken(r) /\ ~Installed(r) /\ ~Resolved(r) /\ ~Checked(r)
      BY <2>10 DEF Drifted, Taken, Installed, Resolved, Checked, Locking, Brief
  <2> QED
      BY <2>4, <2>5, <2>6, <2>7, <2>9, <2>11, <2>12 DEF RequestStep
<1> QED
    BY <1>3, <1>4, <1>5

\* Time passes for a call only while it may be where it is.
LEMMA TickStep ==
    ASSUME ServingInv, Tick
    PROVE  /\ QueueOK' /\ InTurn' /\ since' <= clock'
           /\ \A r \in Requests : CallOK(r)' /\ GrantOK(r)'
           /\ ExitBounded'
<1>1. Types /\ QueueOK /\ InTurn /\ since <= clock /\ ExitBounded
    BY DEF ServingInv
<1>2. UNCHANGED <<processVars, requestVars, queue, passed>> /\ clock' = clock + 1
    BY DEF Tick
<1>3. QueueOK' /\ InTurn'
    BY MutexTicks DEF ServingInv
<1>4. ASSUME NEW r \in Requests PROVE CallOK(r)' /\ GrantOK(r)'
  <2>1. CallOK(r) /\ GrantOK(r) /\ ~Due(r)
      BY DEF ServingInv, Tick
  <2>2. /\ clock \in Nat /\ timeout \in Nat /\ HangUp \in Nat /\ began[r] \in Nat /\ at[r] \in Nat
        /\ Tool(r) <= began[r] + timeout /\ Tool(r) \in Int
      BY <1>1, Numbers
  <2>3. ~Wants(r)
      BY <2>1 DEF Due
  <2>4. ~Wants(r)'
      BY <1>2, <2>3 DEF Wants, Members, requestVars
  <2>5. stage[r] \in Heeding /\ timeout > 0 => clock + 1 <= began[r] + timeout
    <3>1. stage[r] \in Heeding /\ timeout > 0 => clock < Tool(r)
        BY <2>1, <2>2 DEF Due, Heeds, ToolOver
    <3> QED
        BY <2>2, <3>1
  <2>6. stage[r] = "retire" => clock + 1 <= at[r] + HangUp
      BY <2>1, <2>2 DEF Due
  <2>7. Reached(stage[r])' = Reached(stage[r]) /\ (Timing' <=> Timing)
      BY <1>2 DEF Reached, Timing, processVars, requestVars
  <2>8. CallOK(r)'
      BY <1>2, <2>1, <2>2, <2>4, <2>5, <2>6, <2>7 DEF CallOK, processVars, requestVars
  <2>9. GrantOK(r)'
      BY <1>2, <2>1, <2>5 DEF GrantOK, Heeding, processVars, requestVars
  <2> QED
      BY <2>8, <2>9
<1>5. since' <= clock'
    BY <1>1, <1>2, Numbers DEF processVars
<1>6. ExitBounded'
  <2>1. clock \in Nat /\ since \in Nat /\ timeout \in Nat /\ Drain \in Nat /\ HangUp \in Nat
      BY <1>1, Numbers
  <2>2. phase' = phase /\ since' = since /\ timeout' = timeout
      BY <1>2 DEF processVars
  <2>3. phase = "drain" => clock + 1 <= since + Drain
      BY <2>1 DEF Tick
  <2>4. phase = "closing" => clock + 1 <= since + HangUp
      BY <2>1 DEF Tick
  <2>5. ASSUME phase = "close", timeout > 0 PROVE clock + 1 <= since + 2 * timeout
    <3>1. Close \in Members'
        BY <1>3, <2>2, <2>5 DEF QueueOK
    <3>2. clock + 1 <= Turn(Close)' + timeout + Slack(Close)'
        BY <1>2, <1>3, <2>2, <2>5, <3>1 DEF InTurn, Timing
    <3>3. Turn(Close)' = since /\ Slack(Close)' \in {0, timeout}
        BY <2>2 DEF Turn, Slack
    <3> QED
        BY <2>1, <3>2, <3>3
  <2> QED
      BY <1>2, <2>2, <2>3, <2>4, <2>5 DEF ExitBounded
<1> QED
    BY <1>3, <1>4, <1>5, <1>6

\* The process itself moves on.
LEMMA ProcessMutex ==
    ASSUME ServingInv, ProcessStep, ~Flush
    PROVE  QueueOK' /\ InTurn' /\ Members \ {Close} \subseteq Members'
<1>1. Types /\ QueueOK /\ InTurn /\ since <= clock /\ \A r \in Requests : CallOK(r)
    BY DEF ServingInv
<1>2. \A r \in Members \ {Close} : r \in Requests /\ stage[r] \in Locking
    BY <1>1, MembersAre DEF QueueOK
<1>3. CASE Setup \/ Build \/ BuildFails \/ Shutdown \/ Signal
  <2>1. UNCHANGED <<clock, timeout, stage, at, queue, woken, passed>>
      BY <1>3 DEF Setup, Build, BuildFails, Shutdown, Signal, requestVars, mutexVars
  <2>2. /\ phase' \in {"close", "closing"} <=> phase \in {"close", "closing"}
        /\ phase \in {"close", "closing"} => since' = since
        /\ phase' = "closing" => phase = "closing"
      BY <1>3 DEF Setup, Build, BuildFails, Shutdown, Signal, Enter
  <2>3. Timing' => Timing \/ queue = <<>>
    <3>1. phase' \in {"serve", "drain", "close"} => phase \in {"serve", "drain", "close"} \/ phase \in {"setup", "build"}
        BY <1>3 DEF Setup, Build, BuildFails, Shutdown, Signal, Enter
    <3> QED
        BY <2>1, <3>1 DEF Timing, ServingInv
  <2>4. QueueOK' /\ InTurn'
      BY <1>1, <1>2, <2>1, <2>2, <2>3, MutexStays DEF mutexVars
  <2> QED
      BY <2>1, <2>4 DEF Members
<1>4. ASSUME Leave, phase \in {"serve", "drain"}, UNCHANGED <<clock, timeout, requestVars>>
      PROVE  QueueOK' /\ InTurn' /\ Members \subseteq Members'
  <2>1. \A r \in Members \ {Close} : stage'[r] \in Locking /\ at'[r] = at[r]
      BY <1>2, <1>4 DEF requestVars
  <2>2. CASE mode = "upstream"
    <3>1. phase' = "close" /\ Turn(Close)' = clock /\ Lock(Close)
        BY <1>4, <2>2 DEF Leave, Enter, Turn
    <3>2. Close \notin Members /\ (Timing' => Timing)
        BY <1>1, <1>4 DEF QueueOK, Timing
    <3>3. \A r \in Requests : at[r] <= clock
        BY <1>1 DEF CallOK
    <3> QED
        BY <1>1, <1>4, <2>1, <3>1, <3>2, <3>3, MutexLocks
  <2>3. CASE mode # "upstream"
    <3>1. phase' = "flush" /\ UNCHANGED mutexVars
        BY <1>4, <2>3 DEF Leave, Enter
    <3>2. QueueOK' /\ InTurn'
        BY <1>1, <1>4, <2>1, <3>1, MutexStays DEF Timing
    <3> QED
        BY <3>1, <3>2 DEF Members, mutexVars
  <2> QED
      BY <2>2, <2>3
<1>5. CASE ListenFails \/ Drained \/ DrainTimesOut
    BY <1>4, <1>5 DEF ListenFails, Drained, DrainTimesOut
<1>6. ASSUME HasLock(Close), Unlock, phase' = "flush", UNCHANGED <<clock, timeout, requestVars>>
      PROVE  QueueOK' /\ InTurn' /\ Members' = Members \ {Close}
    BY <1>1, <1>6, MutexUnlocks DEF requestVars
<1>7. CASE Closes
  <2>1. CASE Enter("closing") /\ woken' = FALSE /\ UNCHANGED <<queue, passed>>
    <3>1. phase' = "closing" /\ Members' = Members /\ queue' = queue /\ passed' = passed /\ woken' = FALSE
        BY <2>1 DEF Enter, Members
    <3>2. stage' = stage /\ phase = "close" /\ HasLock(Close)
        BY <1>7 DEF Closes, requestVars
    <3>3. QueueOK'
        BY <1>1, <3>1, <3>2 DEF QueueOK, HasLock
    <3>4. ~Timing'
        BY <3>1 DEF Timing
    <3> QED
        BY <3>1, <3>3, <3>4 DEF InTurn
  <2>2. CASE Enter("flush") /\ Unlock
    <3>1. HasLock(Close) /\ Unlock /\ phase' = "flush" /\ UNCHANGED <<clock, timeout, requestVars>>
        BY <1>7, <2>2 DEF Closes, Enter
    <3> QED
        BY <1>6, <3>1
  <2> QED
      BY <1>7, <2>1, <2>2 DEF Closes
<1>8. CASE Closed
  <2>1. HasLock(Close)
      BY <1>1, <1>8 DEF Closed, QueueOK
  <2>2. Unlock /\ phase' = "flush" /\ UNCHANGED <<clock, timeout, requestVars>>
      BY <1>8 DEF Closed, Enter
  <2> QED
      BY <1>6, <2>1, <2>2
<1> QED
    BY <1>3, <1>5, <1>7, <1>8 DEF ProcessStep

LEMMA ProcessCalls ==
    ASSUME ServingInv, ProcessStep
    PROVE  /\ QueueOK' /\ InTurn' /\ since' <= clock'
           /\ \A r \in Requests : CallOK(r)' /\ GrantOK(r)'
           /\ ExitBounded'
           /\ phase' \in {"setup", "build"} => queue' = <<>> /\ \A r \in Requests : stage'[r] = "away"
<1>1. /\ Types /\ since <= clock /\ ExitBounded /\ \A r \in Requests : CallOK(r) /\ GrantOK(r)
      /\ phase \in {"setup", "build"} => queue = <<>> /\ \A r \in Requests : stage[r] = "away"
    BY DEF ServingInv
<1>2. /\ clock \in Nat /\ since \in Nat /\ timeout \in Nat /\ Drain \in Nat /\ HangUp \in Nat
      /\ \A r \in Requests : began[r] \in Nat /\ at[r] \in Nat
    BY <1>1, Numbers
<1>3. UNCHANGED <<clock, mode, timeout, began, at>> /\ (since' = clock \/ UNCHANGED <<phase, since>>)
    BY DEF ProcessStep, Setup, Build, BuildFails, ListenFails, Signal, Shutdown, Drained, DrainTimesOut,
           Closes, Closed, Flush, Leave, Enter, requestVars
<1>4. since' <= clock' /\ ExitBounded'
    BY <1>1, <1>2, <1>3 DEF ExitBounded
<1>5. CASE Flush
  <2>1. /\ phase' = "exited" /\ queue' = <<>> /\ woken' = FALSE /\ passed' = {}
        /\ \A r \in Requests : stage'[r] \notin Live
    <3>1. \A r \in Requests : stage'[r] = (IF stage[r] \in Live THEN "killed" ELSE stage[r])
        BY <1>5 DEF Flush
    <3>2. "killed" \notin Live
        BY DEF Live, Handling, Locking, Listing, Brief, Heeding
    <3> QED
        BY <1>5, <3>1, <3>2 DEF Flush, Enter
  <2>2. Members' = {}
      BY <2>1 DEF Members
  <2>3. QueueOK' /\ InTurn'
      BY <2>1, <2>2 DEF QueueOK, InTurn, Timing
  <2>4. \A r \in Requests : stage'[r] \notin Handling
      BY <2>1 DEF Live
  <2>5. \A r \in Requests : stage'[r] \notin Locking \cup Heeding \cup {"retire"}
      BY <2>4 DEF Handling
  <2>6. \A r \in Requests : CallOK(r)' /\ GrantOK(r)'
      BY <1>1, <1>3, <2>4, <2>5 DEF CallOK, GrantOK, Wants
  <2> QED
      BY <1>4, <2>1, <2>3, <2>6
<1>6. CASE ~Flush
  <2>1. stage' = stage /\ (phase' \in {"setup", "build"} => phase \in {"setup", "build"} /\ queue' = queue)
      BY <1>6 DEF ProcessStep, Setup, Build, BuildFails, ListenFails, Signal, Shutdown, Drained, DrainTimesOut,
                  Closes, Closed, Leave, Enter, requestVars, mutexVars
  <2>2. Timing' => Timing \/ phase = "build"
      BY <1>6 DEF ProcessStep, Setup, Build, BuildFails, ListenFails, Signal, Shutdown, Drained, DrainTimesOut,
                  Closes, Closed, Leave, Enter, Timing
  <2>3. ASSUME NEW r \in Requests PROVE CallOK(r)' /\ GrantOK(r)'
    <3>1. CallOK(r) /\ GrantOK(r)
        BY <1>1
    <3>2. Wants(r)' => Wants(r)
        BY <1>6, <2>1, ProcessMutex, RequestsAssumption DEF Wants
    <3>3. Timing' /\ stage[r] \in Handling => Timing
        BY <1>1, <2>2 DEF Handling, Locking, Listing, Brief, Heeding
    <3>4. Reached(stage[r])' = Reached(stage[r])
        BY <1>3, <2>1 DEF Reached
    <3> QED
        BY <1>3, <2>1, <3>1, <3>2, <3>3, <3>4 DEF CallOK, GrantOK
  <2>4. QueueOK' /\ InTurn'
      BY <1>6, ProcessMutex
  <2> QED
      BY <1>1, <1>4, <2>1, <2>3, <2>4
<1> QED
    BY <1>5, <1>6

-----------------------------------------------------------------------------
\* The types.
LEMMA TypesStep == Types /\ QueueOK /\ [Next]_vars => Types'
<1> SUFFICES ASSUME Types, QueueOK, [Next]_vars PROVE Types'
    OBVIOUS
<1> DEFINE Stages == {"away"} \cup Live \cup Finished
<1>1. ASSUME NEW r \in Requests, NEW s \in Stages, Goto(r, s)
      PROVE  stage' \in [Requests -> Stages] /\ at' \in [Requests -> 0 .. MaxClock]
  <2>1. stage' = [stage EXCEPT ![r] = s] /\ at' = [at EXCEPT ![r] = IF s \in Handling THEN clock ELSE 0]
      BY <1>1 DEF Goto
  <2>2. 0 \in 0 .. MaxClock /\ clock \in 0 .. MaxClock
      BY BoundsAssumption DEF Types
  <2> QED
      BY <2>1, <2>2 DEF Types
<1>2. /\ \A r \in Requests : Answer(r) \in Stages
      /\ {"reading", "retire", "dial", "install", "list1", "list2", "drift", "take", "resolve", "args",
          "calling", "parsing"} \subseteq Stages
    BY DEF Answer, Finished, Live, Handling, Locking, Listing, Brief, Heeding
<1>3. ASSUME NEW x \in Requests \cup {Close}, Lock(x)
      PROVE  queue' \in Seq(Requests \cup {Close}) /\ woken' \in BOOLEAN
  <2>1. queue \in Seq(Requests \cup {Close}) /\ woken \in BOOLEAN /\ <<x>> \in Seq(Requests \cup {Close})
      BY DEF Types
  <2>2. <<x>> \o queue \in Seq(Requests \cup {Close})
      BY <2>1
  <2>3. Append(queue, x) \in Seq(Requests \cup {Close})
      BY <2>1
  <2> QED
      BY <1>3, <2>1, <2>2, <2>3 DEF Lock
<1>4. ASSUME Unlock, queue # <<>> PROVE queue' \in Seq(Requests \cup {Close}) /\ woken' \in BOOLEAN
    BY <1>4 DEF Unlock, Types
<1>5. ASSUME NEW r \in Requests, NEW from, NEW to \in Stages, Leaves(r, from, to) PROVE Types'
  <2>1. Goto(r, to) /\ Unlock /\ queue # <<>> /\ UNCHANGED <<clock, processVars, dialect, start, began>>
      BY <1>5 DEF Leaves, HasLock
  <2> QED
      BY <1>1, <1>4, <2>1 DEF Types, processVars
<1>6. ASSUME NEW r \in Requests, RequestStep(r) PROVE Types'
  <2>1. CASE Arrive(r)
    <3>1. Goto(r, "reading") /\ UNCHANGED <<clock, processVars, dialect, began, mutexVars>>
        BY <2>1 DEF Arrive
    <3>2. start' \in [Requests -> 0 .. MaxClock]
        BY <2>1 DEF Arrive, Types
    <3> QED
        BY <1>1, <1>2, <3>1, <3>2 DEF Types, processVars, mutexVars
  <2>2. CASE Begin(r) \/ Reject(r)
    <3>1. PICK s \in Stages : Goto(r, s)
        BY <1>2, <2>2 DEF Begin, Reject
    <3>2. began' \in [Requests -> 0 .. MaxClock] /\ UNCHANGED <<clock, processVars, dialect, start, mutexVars>>
        BY <2>2 DEF Begin, Reject, Types
    <3> QED
        BY <1>1, <3>1, <3>2 DEF Types, processVars, mutexVars
  <2>3. CASE Locks(r)
    <3>1. Lock(r) /\ UNCHANGED <<clock, processVars, requestVars>>
        BY <2>3 DEF Locks
    <3> QED
        BY <1>3, <3>1 DEF Types, processVars, requestVars
  <2>4. CASE Admitted(r) \/ ListFails(r) \/ Drifted(r) \/ Taken(r) \/ Installed(r) \/ Resolved(r) \/ Checked(r)
    <3>1. \E from : \E to \in Stages : Leaves(r, from, to)
        BY <1>2, <2>4 DEF Admitted, ListFails, Drifted, Taken, Installed, Resolved, Checked
    <3> QED
        BY <1>5, <3>1
  <2>5. CASE Retired(r) \/ Dialled(r) \/ Answered(r) \/ Parsed(r)
    <3>1. PICK s \in Stages : Goto(r, s)
        BY <1>2, <2>5 DEF Retired, Dialled, Answered, Parsed
    <3>2. UNCHANGED <<clock, processVars, dialect, start, began, mutexVars>>
        BY <2>5 DEF Retired, Dialled, Answered, Parsed
    <3> QED
        BY <1>1, <3>1, <3>2 DEF Types, processVars, mutexVars
  <2> QED
      BY <1>6, <2>1, <2>2, <2>3, <2>4, <2>5 DEF RequestStep
<1>7. ASSUME Leave PROVE queue' \in Seq(Requests \cup {Close}) /\ woken' \in BOOLEAN /\ phase' \in Phases /\ since' = clock
    BY <1>3, <1>7 DEF Leave, Enter, Phases, mutexVars, Types
<1>8. ASSUME ProcessStep PROVE Types'
  <2>1. CASE Setup \/ Build \/ BuildFails \/ Shutdown \/ Signal
      BY <2>1 DEF Setup, Build, BuildFails, Shutdown, Signal, Enter, Phases, Types, requestVars, mutexVars
  <2>2. CASE ListenFails \/ Drained \/ DrainTimesOut
    <3>1. Leave /\ UNCHANGED <<clock, mode, timeout, signalled, requestVars>> /\ failed' \in BOOLEAN
        BY <2>2 DEF ListenFails, Drained, DrainTimesOut, Types
    <3> QED
        BY <1>7, <3>1 DEF Types, requestVars
  <2>3. CASE Closes \/ Closed
    <3>1. queue' \in Seq(Requests \cup {Close}) /\ woken' \in BOOLEAN /\ phase' \in Phases /\ since' = clock
      <4>1. queue # <<>>
          BY <2>3 DEF Closes, Closed, HasLock, QueueOK
      <4>2. \/ Enter("closing") /\ woken' = FALSE /\ queue' = queue
            \/ Enter("flush") /\ Unlock
          BY <2>3 DEF Closes, Closed
      <4> QED
          BY <1>4, <4>1, <4>2 DEF Enter, Phases, Types
    <3>2. UNCHANGED <<clock, mode, timeout, signalled, failed, requestVars>>
        BY <2>3 DEF Closes, Closed
    <3> QED
        BY <3>1, <3>2 DEF Types, requestVars
  <2>4. CASE Flush
    <3>1. stage' \in [Requests -> Stages]
        BY <2>4 DEF Flush, Finished, Types
    <3>2. failed' \in BOOLEAN /\ phase' = "exited" /\ since' = clock /\ queue' = <<>> /\ woken' = FALSE
        BY <2>4 DEF Flush, Enter, Types
    <3>3. UNCHANGED <<clock, mode, timeout, signalled, dialect, start, began, at>>
        BY <2>4 DEF Flush
    <3>4. <<>> \in Seq(Requests \cup {Close})
        OBVIOUS
    <3> QED
        BY <3>1, <3>2, <3>3, <3>4 DEF Types, Phases
  <2> QED
      BY <1>8, <2>1, <2>2, <2>3, <2>4 DEF ProcessStep
<1>9. CASE Tick
  <2>1. clock' \in 0 .. MaxClock
      BY <1>9, BoundsAssumption DEF Tick, Types
  <2> QED
      BY <1>9, <2>1 DEF Tick, Types, processVars, requestVars
<1>10. CASE UNCHANGED vars
    BY <1>10 DEF vars, Types, processVars, requestVars, mutexVars
<1> QED
    BY <1>6, <1>8, <1>9, <1>10 DEF Next

-----------------------------------------------------------------------------
\* What the process leaves behind.  After a drain without an error no request is live, and
\* none comes.
LEMMA EndsStep == ServingInv /\ [Next]_vars => Ends'
<1> SUFFICES ASSUME ServingInv, [Next]_vars PROVE Ends'
    OBVIOUS
<1>1. Types /\ Ends
    BY DEF ServingInv
<1>2. ASSUME UNCHANGED <<phase, failed, stage>> PROVE Ends'
    BY <1>1, <1>2 DEF Ends, CleanExitIsTrue, Running, InFlight
<1>3. ASSUME NEW r \in Requests, Running, RequestStep(r) PROVE Ends'
  <2>1. UNCHANGED <<phase, failed>>
      BY <1>1, <1>3, OthersStay DEF processVars
  <2>2. \A o \in Requests : stage'[o] # "killed"
    <3>1. \A o \in Requests : o # r => stage'[o] = stage[o]
        BY <1>1, <1>3, OthersStay
    <3>2. stage'[r] # "killed"
        BY <1>1, <1>3, OthersStay
    <3> QED
        BY <1>1, <1>3, <3>1, <3>2 DEF Ends
  <2>3. ASSUME InFlight = {}, phase # "serve" PROVE stage' = stage
    <3>1. stage[r] \notin Live
        BY <2>3 DEF InFlight
    <3> QED
        BY <1>1, <1>3, <2>3, <3>1, OthersStay
  <2> QED
      BY <1>1, <1>3, <2>1, <2>2, <2>3 DEF Ends, CleanExitIsTrue, Running, InFlight
<1>4. ASSUME ProcessStep PROVE Ends'
  <2>1. CASE Setup
    <3>1. stage' = stage /\ phase = "setup" /\ (phase' = "build" \/ (phase' = "exited" /\ failed' = TRUE))
        BY <2>1 DEF Setup, Enter, requestVars
    <3> QED
        BY <1>1, <3>1 DEF Ends, CleanExitIsTrue, Running
  <2>2. CASE Build \/ BuildFails \/ Shutdown \/ Signal
    <3>1. /\ stage' = stage /\ phase # "exited" /\ phase' # "exited"
          /\ \/ phase' \notin {"flush", "close", "closing"} \/ failed' = TRUE
             \/ phase' = phase /\ failed' = failed
        BY <2>2 DEF Build, BuildFails, Shutdown, Signal, Enter, requestVars
    <3> QED
        BY <1>1, <3>1 DEF Ends, CleanExitIsTrue, Running, InFlight
  <2>3. CASE ListenFails \/ Drained \/ DrainTimesOut
    <3>1. /\ stage' = stage /\ phase' \in {"close", "flush"} /\ (~failed' => InFlight = {})
          /\ phase \in {"serve", "drain"}
        BY <2>3 DEF ListenFails, Drained, DrainTimesOut, Leave, Enter, requestVars
    <3> QED
        BY <1>1, <3>1 DEF Ends, CleanExitIsTrue, Running, InFlight
  <2>4. CASE Closes \/ Closed
    <3>1. /\ stage' = stage /\ phase' \in {"closing", "flush"} /\ failed' = failed
          /\ phase \in {"close", "closing"}
        BY <2>4 DEF Closes, Closed, Enter, requestVars
    <3> QED
        BY <1>1, <3>1 DEF Ends, CleanExitIsTrue, Running, InFlight
  <2>5. CASE Flush
    <3>1. phase = "flush" /\ phase' = "exited" /\ (~failed' => ~failed)
        BY <1>1, <2>5 DEF Flush, Enter, Types
    <3>2. ~failed => \A r \in Requests : stage'[r] = stage[r]
        BY <1>1, <2>5 DEF Flush, Ends, InFlight
    <3> QED
        BY <1>1, <3>1, <3>2 DEF Ends, CleanExitIsTrue, Running
  <2> QED
      BY <1>4, <2>1, <2>2, <2>3, <2>4, <2>5 DEF ProcessStep
<1>5. CASE Tick \/ UNCHANGED vars
    BY <1>2, <1>5 DEF Tick, vars, processVars, requestVars
<1> QED
    BY <1>3, <1>4, <1>5 DEF Next

-----------------------------------------------------------------------------
LEMMA InitServing == Init => ServingInv
<1> SUFFICES ASSUME Init PROVE ServingInv
    OBVIOUS
<1>1. Types
  <2>1. 0 \in 0 .. MaxClock /\ <<>> \in Seq(Requests \cup {Close})
      BY BoundsAssumption
  <2>2. stage \in [Requests -> {"away"} \cup Live \cup Finished]
      BY DEF Init
  <2>3. /\ start \in [Requests -> 0 .. MaxClock] /\ began \in [Requests -> 0 .. MaxClock]
        /\ at \in [Requests -> 0 .. MaxClock]
      BY <2>1 DEF Init
  <2> QED
      BY <2>1, <2>2, <2>3 DEF Init, Types, Phases
<1>2. QueueOK /\ InTurn
  <2>1. queue = <<>> /\ phase = "setup" /\ passed = {}
      BY DEF Init
  <2>2. Members = {} /\ Len(queue) = 0
      BY <2>1 DEF Members
  <2>3. QueueOK
      BY <2>1, <2>2 DEF QueueOK
  <2>4. ~Timing
      BY <2>1 DEF Timing
  <2> QED
      BY <2>3, <2>4 DEF InTurn
<1>3. \A r \in Requests : stage[r] = "away" /\ began[r] = 0 /\ at[r] = 0
    BY DEF Init
<1>4. "away" \notin Live
    BY DEF Live, Handling, Locking, Listing, Brief, Heeding
<1>5. ASSUME NEW r \in Requests PROVE CallOK(r) /\ GrantOK(r)
  <2>1. clock = 0 /\ began[r] = 0 /\ at[r] = 0
      BY <1>3 DEF Init
  <2>2. stage[r] \notin Handling /\ stage[r] \notin Locking /\ stage[r] \notin Heeding /\ stage[r] # "retire"
      BY <1>3, <1>4 DEF Live, Handling
  <2> QED
      BY <2>1, <2>2 DEF CallOK, GrantOK, Wants
<1>6. GrantsAreNotCut /\ ExitBounded /\ Ends
    BY <1>3, <1>4 DEF Init, GrantsAreNotCut, CutOnlyAfterSlowBody, ExitBounded, Ends, CleanExitIsTrue, Running, InFlight
<1> QED
    BY <1>1, <1>2, <1>3, <1>5, <1>6 DEF Init, ServingInv

LEMMA ServingStep == ServingInv /\ [Next]_vars => ServingInv'
<1> SUFFICES ASSUME ServingInv, [Next]_vars PROVE ServingInv'
    OBVIOUS
<1>1. Types /\ QueueOK /\ ExitBounded /\ GrantsAreNotCut
    BY DEF ServingInv
<1>2. Types' /\ Ends'
    BY <1>1, TypesStep, EndsStep
<1>3. ASSUME NEW r \in Requests, Running, RequestStep(r) PROVE ServingInv'
  <2>1. QueueOK' /\ InTurn'
      BY <1>3, RequestMutex
  <2>2. \A o \in Requests : CallOK(o)' /\ GrantOK(o)'
      BY <1>3, CallStep, GrantStep
  <2>3. GrantsAreNotCut'
      BY <1>3, GrantStep DEF GrantsAreNotCut, CutOnlyAfterSlowBody
  <2>4. UNCHANGED <<clock, processVars>>
      BY <1>1, <1>3, OthersStay
  <2>5. ExitBounded' /\ since' <= clock'
      BY <1>1, <2>4 DEF ServingInv, ExitBounded, processVars
  <2>6. phase \notin {"setup", "build"}
    <3>1. ASSUME phase \in {"setup", "build"} PROVE FALSE
      <4>1. stage[r] = "away" /\ phase # "serve"
          BY <3>1 DEF ServingInv
      <4>2. stage[r] \notin Live
          BY <4>1 DEF Live, Handling, Locking, Listing, Brief, Heeding
      <4>3. ~Arrive(r) /\ ~Begin(r) /\ ~Reject(r) /\ ~Retired(r) /\ ~Dialled(r) /\ ~Answered(r) /\ ~Parsed(r)
          BY <4>1 DEF Arrive, Begin, Reject, Retired, Dialled, Answered, Parsed
      <4>4. ~Locks(r)
          BY <4>2 DEF Locks, Wants, Live, Handling
      <4>5. ~Admitted(r) /\ ~ListFails(r) /\ ~Drifted(r) /\ ~Taken(r) /\ ~Installed(r) /\ ~Resolved(r) /\ ~Checked(r)
          BY <4>1 DEF Admitted, ListFails, Drifted, Taken, Installed, Resolved, Checked, Leaves, Listing
      <4> QED
          BY <1>3, <4>3, <4>4, <4>5 DEF RequestStep
    <3> QED
        BY <3>1
  <2> QED
      BY <1>2, <2>1, <2>2, <2>3, <2>4, <2>5, <2>6 DEF ServingInv, processVars
<1>4. CASE ProcessStep
  <2>1. GrantsAreNotCut'
    <3>1. UNCHANGED <<mode, start, began>>
        BY <1>4 DEF ProcessStep, Setup, Build, BuildFails, ListenFails, Signal, Shutdown, Drained, DrainTimesOut,
                    Closes, Closed, Flush, requestVars
    <3>2. \A r \in Requests : stage'[r] = "cut" => stage[r] = "cut"
        BY <1>4 DEF ProcessStep, Setup, Build, BuildFails, ListenFails, Signal, Shutdown, Drained, DrainTimesOut,
                    Closes, Closed, Flush, requestVars
    <3> QED
        BY <1>1, <3>1, <3>2 DEF GrantsAreNotCut, CutOnlyAfterSlowBody
  <2> QED
      BY <1>2, <1>4, <2>1, ProcessCalls DEF ServingInv
<1>5. CASE Tick
  <2>1. UNCHANGED <<processVars, requestVars, queue>>
      BY <1>5 DEF Tick
  <2>2. /\ GrantsAreNotCut'
        /\ phase' \in {"setup", "build"} => queue' = <<>> /\ \A r \in Requests : stage'[r] = "away"
      BY <2>1 DEF ServingInv, GrantsAreNotCut, CutOnlyAfterSlowBody, processVars, requestVars
  <2> QED
      BY <1>2, <1>5, <2>2, TickStep DEF ServingInv
<1>6. CASE UNCHANGED vars
  <2>1. QueueOK' /\ InTurn' /\ \A r \in Requests : CallOK(r)' /\ GrantOK(r)'
      BY <1>6 DEF ServingInv, vars, processVars, requestVars, mutexVars, QueueOK, InTurn, CallOK, GrantOK, Turn, Slack,
                  Members, HasLock, Timing, Wants, Reached
  <2> QED
      BY <1>1, <1>2, <1>6, <2>1 DEF ServingInv, vars, processVars, requestVars, mutexVars, GrantsAreNotCut,
                                    CutOnlyAfterSlowBody, ExitBounded
<1> QED
    BY <1>3, <1>4, <1>5, <1>6 DEF Next

THEOREM ServingInvariant == Spec => []ServingInv
BY InitServing, ServingStep, PTL DEF Spec

\* Every variable keeps its type, and whoever has the proxy's mutex or waits for it is in a
\* critical section of its own, and waits once.
THEOREM TypeCorrect == Spec => []TypeOK
<1>1. ServingInv => TypeOK
  <2> SUFFICES ASSUME ServingInv PROVE TypeOK
      OBVIOUS
  <2>1. Types /\ QueueOK
      BY DEF ServingInv
  <2>2. \A r \in Members \ {Close} : stage[r] \in Locking
      BY <2>1, MembersAre DEF QueueOK
  <2>3. \A i, j \in DOMAIN queue : queue[i] = queue[j] => i = j
      BY <2>1, MembersAre DEF QueueOK
  <2> QED
      BY <2>1, <2>2, <2>3 DEF TypeOK, Types, QueueOK
<1> QED
    BY <1>1, ServingInvariant, PTL

\* Whatever its upstream or the parser of its document does, the call of a grant of one's own
\* is answered before its response would be cut (withToolDeadline and responseGrace,
\* server.go:625-662, 749-774; extractPDFWithDeadline, pdf.go:84-100).
THEOREM GrantsAnswer == Spec => []GrantsAreNotCut
BY ServingInvariant, PTL DEF ServingInv

\* Whoever else calls the proxy, and however the upstream hangs, no proxied call is in its
\* handler for longer than six tool deadlines and the end of one session.
THEOREM CallsAreAnsweredInTime == Spec => []AnsweredInTime
<1>1. ServingInv => AnsweredInTime
  <2> SUFFICES ASSUME ServingInv, Timing, NEW r \in Requests, stage[r] \in Handling
               PROVE  clock <= began[r] + 6 * timeout + HangUp
      BY DEF AnsweredInTime, Timing
  <2>1. /\ began[r] \in Nat /\ clock \in Nat /\ timeout \in Nat /\ HangUp \in Nat /\ at[r] \in Nat
        /\ at[r] <= began[r] + Reached(stage[r]) /\ Reached(stage[r]) \in Nat
      BY SoFar
  <2>2. CallOK(r) /\ Types /\ InTurn
      BY DEF ServingInv
  <2>3. CASE stage[r] \in Locking
    <3>1. clock <= at[r] + 2 * timeout
      <4>1. CASE Wants(r)
          BY <2>1, <2>2, <4>1 DEF CallOK
      <4>2. CASE ~Wants(r)
        <5>1. r \in Members
            BY <2>3, <4>2 DEF Wants
        <5>2. Turn(r) = at[r] /\ Slack(r) \in {0, timeout}
            BY RequestsAssumption DEF Turn, Slack
        <5>3. clock <= Turn(r) + timeout + Slack(r)
            BY <2>2, <5>1 DEF InTurn
        <5> QED
            BY <2>1, <5>2, <5>3
      <4> QED
          BY <4>1, <4>2
    <3>2. Reached(stage[r]) <= 4 * timeout
        BY <2>1, <2>3 DEF Reached, Locking, Listing, Brief
    <3> QED
        BY <2>1, <3>1, <3>2
  <2>4. CASE stage[r] \in Heeding
    <3>1. Reached(stage[r]) <= 6 * timeout + HangUp
        BY <2>1, <2>4 DEF Reached, Heeding
    <3>2. clock <= at[r] \/ clock <= began[r] + timeout
        BY <2>2, <2>4 DEF CallOK, Timing
    <3> QED
        BY <2>1, <3>1, <3>2
  <2>5. CASE stage[r] = "retire"
      BY <2>5, SoFar
  <2> QED
      BY <2>3, <2>4, <2>5 DEF Handling
<1> QED
    BY <1>1, ServingInvariant, PTL

\* Nor do the calls keep the process from its exit: Close has the mutex within two tool
\* deadlines of asking for it (serveHTTP, main.go:673-684; proxyBackend.Close,
\* upstream.go:186-196).
THEOREM ExitIsBounded == Spec => []ExitBounded
BY ServingInvariant, PTL DEF ServingInv

\* A process that says it ended well killed no request (serveHTTP, main.go:673-684).
THEOREM CleanExits == Spec => []CleanExitIsTrue
BY ServingInvariant, PTL DEF ServingInv, Ends
=============================================================================
