------------------------- MODULE CollectiveFrontier -------------------------
(***************************************************************************)
(* The collective inference frontier of provers.src/search.c: instead of   *)
(* making all inferences with a new given clause at once, Prover9 queues a *)
(* descriptor of them, and draws some of its conclusions in each turn, from*)
(* a record of which clauses were active when.                             *)
(*                                                                         *)
(* What pairs of clauses yield is data (search.raw).  A conclusion that is *)
(* drawn goes through cl_process, which may or may not keep a clause.      *)
(***************************************************************************)
EXTENDS Integers, SequencesExt, FiniteSetsExt

CONSTANTS
  Searches,  \* the option settings and inputs to run
  MaxId      \* how many clauses there may be (bound)

VARIABLES
  search,       \* one of Searches
  epoch,        \* Simplifier_epoch
  next,         \* the next clause id
  usable,       \* Glob.usable: ids
  history,      \* Collective_activation_pages: [id, clashable, epoch]
  deactivated,  \* Collective_deactivations: the epoch at which a clause went, or 0
  passive,      \* Glob.sos: [id, epoch], the clauses some selector takes
  unselected,   \* and how many clauses no selector takes
  queue,        \* Collective_batch_head to Collective_batch_tail
  heap,         \* Collective_priority_heap: the given clauses of the descriptors
  sinceFair,    \* Collective_priority_turns_since_fair
  batchTurn,    \* Collective_batch_turn
  givens,       \* Collective_givens_since_batch
  credit,       \* Collective_hint_probe_credit
  fatal,        \* the fatal error that ended the search, or "none"
  made          \* history: the conclusions that went to cl_process

clauses == <<next, passive, unselected>>
record  == <<epoch, usable, history, deactivated>>
turns   == <<sinceFair, batchTurn, givens, credit>>
vars == <<search, clauses, record, queue, heap, turns, fatal, made>>

Ids == 1 .. MaxId
Hyper == {"posHyper", "negHyper"}
Rules == Hyper \cup {"para"}

ASSUME SearchesAssumption ==
  /\ MaxId \in Nat
  /\ \A s \in Searches :
       /\ s.rules \subseteq Rules
       /\ s.raw \in [Rules -> [1 .. 2 -> Seq(Nat)]]
       /\ s.usable \in Nat /\ s.sos \in Nat /\ s.usable + s.sos =< MaxId
       /\ s.chunk \in Nat \ {0} /\ s.interval \in Nat \ {0}
       /\ s.cache \in Nat /\ s.eager \in Nat

\* The conclusions of clause g with partner p by a rule, in the order they are made.
RawOf(rule, g, p) ==
  LET weights == search.raw[rule][1 + ((g + p) % 2)]
  IN  [n \in DOMAIN weights |->
         [rule |-> rule, given |-> g, partner |-> p, n |-> n, weight |-> weights[n]]]

\* restricted_denial: such a clause is not indexed, and no partner of paramodulation.
Denial(id) == id \in search.denials

(***************************************************************************)
(* Keys.  Candidates of a unit are ordered by weight and ordinal, partial  *)
(* descriptors by the weight and ordinal of their next candidate, with the *)
(* id of the given clause in between.                                      *)
(***************************************************************************)
Less(a, b) == \E i \in DOMAIN a : a[i] < b[i] /\ \A j \in 1 .. i - 1 : a[j] = b[j]
NoKey == <<0, 0>>
KeyAt(raw, i) == <<raw[i].weight, i>>

BatchOf(batches, id) == batches[CHOOSE i \in DOMAIN batches : batches[i].given = id]
PriorityKey(batches, id) ==
  LET b == BatchOf(batches, id) IN <<b.next[1], id, b.next[2]>>
Before(batches, a, b) == Less(PriorityKey(batches, a), PriorityKey(batches, b))

Swapped(h, i, j) == [h EXCEPT ![i] = h[j], ![j] = h[i]]

\* The element at place at[2] of the heap at[1] changes places with its parent, or with the
\* lesser of its children, as long as they are out of order; Len(h) swaps are enough.
Raised(batches, at) ==
  LET up == at[2] \div 2
  IN  IF at[2] > 1 /\ Before(batches, at[1][at[2]], at[1][up])
      THEN <<Swapped(at[1], at[2], up), up>> ELSE at
SiftUp(batches, h, i) ==
  LET sift[n \in 0 .. Len(h)] == IF n = 0 THEN <<h, i>> ELSE Raised(batches, sift[n - 1])
  IN  sift[Len(h)][1]

Lowered(batches, at) ==
  LET below == {j \in {2 * at[2], 2 * at[2] + 1} :
                  j =< Len(at[1]) /\ Before(batches, at[1][j], at[1][at[2]])}
      least == CHOOSE j \in below : \A k \in below \ {j} : Before(batches, at[1][j], at[1][k])
  IN  IF below = {} THEN at ELSE <<Swapped(at[1], at[2], least), least>>
SiftDown(batches, h, i) ==
  LET sift[n \in 0 .. Len(h)] == IF n = 0 THEN <<h, i>> ELSE Lowered(batches, sift[n - 1])
  IN  sift[Len(h)][1]

HeapInsert(batches, h, id) ==
  IF BatchOf(batches, id).promising
  THEN SiftUp(batches, Append(h, id), Len(h) + 1)
  ELSE h

\* The last element takes the place of the one removed, and is sifted from there.
HeapRemove(batches, h, id) ==
  IF id \notin ToSet(h) THEN h
  ELSE LET at == CHOOSE i \in DOMAIN h : h[i] = id
           shorter == Front([h EXCEPT ![at] = Last(h)])
       IN  IF at = Len(h) THEN shorter
           ELSE IF at > 1 /\ Before(batches, shorter[at], shorter[at \div 2])
           THEN SiftUp(batches, shorter, at)
           ELSE SiftDown(batches, shorter, at)

-----------------------------------------------------------------------------
(***************************************************************************)
(* The activation history.                                                 *)
(***************************************************************************)
\* Was the activation in force in epoch e: collective_history_clause_test.
StillActive(id, e) == deactivated[id] = 0 \/ deactivated[id] > e
\* Mutant: only clauses that are active now.
AcceptedNow(entry, e) == entry.clashable /\ deactivated[entry.id] = 0
Accepted(entry, e) == entry.clashable /\ entry.epoch =< e /\ StillActive(entry.id, e)

Noted(id, clashable, e) == [id |-> id, clashable |-> clashable, epoch |-> e]

\* The conclusions of a descriptor by hyperresolution, in the order of the history.
HyperUnit(b, rule) ==
  FlattenSeq([i \in DOMAIN history |->
    IF Accepted(history[i], b.epoch) THEN RawOf(rule, b.given, history[i].id) ELSE <<>>])

(***************************************************************************)
(* Descriptors.  A descriptor is in the middle of a unit, which is a hyper *)
(* rule or a partner of paramodulation, when done > 0 of its conclusions   *)
(* have been drawn.  A hash of a sequence is modelled as the sequence.     *)
(***************************************************************************)
NewBatch(g, rule, e, limit) ==
  [given |-> g, cursor |-> 0, limit |-> limit, epoch |-> e, rules |-> {rule},
   probe |-> FALSE, promising |-> FALSE, done |-> 0, hash |-> <<>>,
   at |-> NoKey, next |-> NoKey]

ResetConclusions(b) ==
  [b EXCEPT !.promising = FALSE, !.done = 0, !.hash = <<>>, !.at = NoKey, !.next = NoKey]

Occupancy == Cardinality(passive) + unselected
Space == Occupancy < search.cache
Budget == IF Space THEN Min({search.cache - Occupancy, search.chunk}) ELSE 0

\* What a turn did: the conclusions it drew, whether the unit is complete, the
\* descriptor, and the fatal error it met.
Did(drawn, complete, b) ==
  [drawn |-> drawn, complete |-> complete, batch |-> b, fatal |-> "none"]
Failed(why, b) == [drawn |-> <<>>, complete |-> FALSE, batch |-> b, fatal |-> why]

\* Mutant: the hash is taken at the end of the enumeration.
PrefixChunkHashLate(b, raw, limit) ==
  LET upto == Min({b.done + limit, Len(raw)})
  IN  IF Len(raw) < b.done \/ SubSeq(raw, 1, b.done) # b.hash THEN Failed("replay", b)
      ELSE IF upto = Len(raw)
      THEN Did(SubSeq(raw, b.done + 1, upto), TRUE, ResetConclusions(b))
      ELSE Did(SubSeq(raw, b.done + 1, upto), FALSE,
               [ResetConclusions(b) EXCEPT !.done = upto, !.hash = raw])

\* Generator order: skip what was drawn, draw up to limit, drop the rest for now.
PrefixChunk(b, raw, limit) ==
  LET upto == Min({b.done + limit, Len(raw)})
  IN  IF Len(raw) < b.done \/ SubSeq(raw, 1, b.done) # b.hash THEN Failed("replay", b)
      ELSE IF upto = Len(raw)
      THEN Did(SubSeq(raw, b.done + 1, upto), TRUE, ResetConclusions(b))
      ELSE Did(SubSeq(raw, b.done + 1, upto), FALSE,
               [ResetConclusions(b) EXCEPT !.done = upto, !.hash = SubSeq(raw, 1, upto)])

\* Mutant: a candidate that another one displaces is not noted.
BufferInsertForgets(scan, key, limit) ==
  LET at == Cardinality({i \in DOMAIN scan.buffer : Less(scan.buffer[i], key)})
      longer == InsertAt(scan.buffer, at + 1, key)
  IN  IF Len(scan.buffer) < limit THEN [scan EXCEPT !.buffer = longer]
      ELSE IF at < limit THEN [scan EXCEPT !.buffer = Front(longer)]
      ELSE [scan EXCEPT !.least = IF scan.least = NoKey \/ Less(key, scan.least)
                                  THEN key ELSE scan.least]

\* A bounded buffer of the least keys; least is the least key that left it.
BufferInsert(scan, key, limit) ==
  LET at == Cardinality({i \in DOMAIN scan.buffer : Less(scan.buffer[i], key)})
      longer == InsertAt(scan.buffer, at + 1, key)
  IN  IF Len(scan.buffer) < limit THEN [scan EXCEPT !.buffer = longer]
      ELSE [scan EXCEPT !.buffer = Front(longer),
                        !.least = IF scan.least = NoKey \/ Less(Last(longer), scan.least)
                                  THEN Last(longer) ELSE scan.least]

Replayed(b, key) == b.done # 0 /\ ~Less(b.at, key)

Scan(b, raw, limit) ==
  LET scan[i \in 0 .. Len(raw)] ==
        IF i = 0 THEN [buffer |-> <<>>, least |-> NoKey, replayed |-> 0, eligible |-> 0]
        ELSE IF Replayed(b, KeyAt(raw, i)) THEN [scan[i - 1] EXCEPT !.replayed = @ + 1]
        ELSE BufferInsert([scan[i - 1] EXCEPT !.eligible = @ + 1], KeyAt(raw, i), limit)
  IN  scan[Len(raw)]

\* Weight order: draw the least keys above the last one drawn.
PromisingChunk(b, raw, limit) ==
  LET scan == Scan(b, raw, limit)
      drawn == [i \in DOMAIN scan.buffer |-> raw[scan.buffer[i][2]]]
  IN  IF (b.done # 0 /\ raw # b.hash) \/ scan.replayed # b.done THEN Failed("replay", b)
      ELSE IF scan.eligible = Len(drawn) THEN Did(drawn, TRUE, ResetConclusions(b))
      ELSE Did(drawn, FALSE,
               [b EXCEPT !.promising = TRUE, !.done = @ + Len(drawn), !.hash = raw,
                         !.at = Last(scan.buffer), !.next = scan.least])

Chunk(b, raw) ==
  IF Budget = 0 THEN Failed("space", b)
  ELSE IF b.promising \/ (b.done = 0 /\ search.promising)
  THEN PromisingChunk(b, raw, Budget)
  ELSE PrefixChunk(b, raw, Budget)

-----------------------------------------------------------------------------
(***************************************************************************)
(* A turn of the frontier: collective_expand_one_batch.                    *)
(***************************************************************************)
Scheduling == search.promising /\ search.scheduler

\* The descriptor of a given clause comes to the head.
ToHead(batches, id) ==
  LET at == CHOOSE i \in DOMAIN batches : batches[i].given = id
  IN  <<batches[at]>> \o RemoveAt(batches, at)

\* Mutant: the turns since the last fair one are not counted.
ChosenUnfair ==
  IF ~Scheduling THEN [queue |-> queue, sinceFair |-> 0]
  ELSE IF Head(queue).probe \/ heap = <<>> THEN [queue |-> queue, sinceFair |-> 0]
  ELSE [queue |-> ToHead(queue, heap[1]), sinceFair |-> sinceFair]

\* collective_choose_batch_for_turn: the descriptor with the least next key comes to the
\* head, except for one turn in each interval.
Chosen ==
  IF ~Scheduling THEN [queue |-> queue, sinceFair |-> 0]
  ELSE IF Head(queue).probe THEN [queue |-> queue, sinceFair |-> sinceFair]
  ELSE IF heap # <<>> /\ sinceFair < search.interval - 1
  THEN [queue |-> ToHead(queue, heap[1]), sinceFair |-> sinceFair + 1]
  ELSE [queue |-> queue, sinceFair |-> 0]

HyperPending(b) == b.rules \cap Hyper # {}
ParaPending(b) == "para" \in b.rules /\ b.cursor < b.limit

\* A probe does a partner of paramodulation before any hyper work.
HyperTurn(b) == HyperPending(b) /\ ~(b.probe /\ ParaPending(b))

HyperWork(b) ==
  LET rule == IF "posHyper" \in b.rules THEN "posHyper" ELSE "negHyper"
      did == Chunk(b, HyperUnit(b, rule))
  IN  IF did.complete THEN [did EXCEPT !.batch.rules = @ \ {rule}] ELSE did

\* Partners that went before the descriptor was made are skipped.
SkipInactive(b) ==
  LET alive == {i \in b.cursor + 1 .. b.limit : StillActive(history[i].id, b.epoch)}
  IN  [b EXCEPT !.cursor = IF alive = {} THEN b.limit ELSE Min(alive) - 1]

ParaWork(b0) ==
  LET b == SkipInactive(b0)
      partner == history[b.cursor + 1].id
      did == Chunk(b, RawOf("para", b.given, partner))
  IN  IF b # b0 /\ b.done # 0 THEN Failed("internal", b0)
      ELSE IF b.cursor = b.limit THEN Did(<<>>, TRUE, b)
      ELSE IF Denial(partner)
      THEN IF b.done # 0 THEN Failed("internal", b)
           ELSE Did(<<>>, TRUE, [b EXCEPT !.cursor = @ + 1])
      ELSE IF did.complete THEN [did EXCEPT !.batch.cursor = @ + 1] ELSE did

Work(b) ==
  IF history[b.limit].id # b.given THEN Failed("internal", b)
  ELSE IF HyperTurn(b) THEN HyperWork(b) ELSE ParaWork(b)

\* Conclusions and copies that cl_process keeps: how many of at most n, how many of them
\* no selector takes, and in which epoch.  The clauses in gone leave Sos.
Keep(n, e, gone) ==
  \E kept \in 0 .. Min({n, MaxId + 1 - next}) :
    \E hidden \in 0 .. (IF search.unselected THEN kept ELSE 0) :
      /\ next' = next + kept
      /\ passive' = (passive \ gone)
                      \cup {[id |-> i, epoch |-> e] : i \in next .. next + kept - hidden - 1}
      /\ unselected' = unselected + hidden

\* collective_finish_batch_turn: the descriptor goes to the tail, or is complete.
FinishTurn(chosen, b) ==
  LET rest == HeapRemove(chosen.queue, heap, b.given)
      rotated == Append(Tail(chosen.queue), [b EXCEPT !.probe = FALSE])
      pending == HyperPending(b) \/ ParaPending(b)
  IN  /\ queue' = IF pending THEN rotated ELSE Tail(chosen.queue)
      /\ heap' = IF pending THEN HeapInsert(rotated, rest, b.given) ELSE rest
      /\ credit' = (b.probe => credit)

Selectable == passive # {}
Due == queue # <<>> /\ (batchTurn \/ ~Selectable)
TurnIsNext == Due /\ (Space \/ ~Selectable)

Turn ==
  /\ fatal = "none"
  /\ TurnIsNext
  /\ LET chosen == Chosen
         did == Work(Head(chosen.queue))
     IN  /\ fatal' = did.fatal
         /\ sinceFair' = chosen.sinceFair
         /\ made' = made \cup ToSet(did.drawn)
         /\ IF did.fatal = "none"
            THEN /\ FinishTurn(chosen, did.batch)
                 /\ Keep(Len(did.drawn), epoch, {})
                 /\ batchTurn' = FALSE
                 /\ givens' = 0
            ELSE /\ queue' = chosen.queue
                 /\ UNCHANGED <<heap, clauses, batchTurn, givens, credit>>
  /\ UNCHANGED <<search, record>>

-----------------------------------------------------------------------------
(***************************************************************************)
(* A given clause: make_inferences, given_infer.                           *)
(***************************************************************************)
GivenIsNext == fatal = "none" /\ ~TurnIsNext /\ Selectable

\* discount_refresh_selected: a passive from an earlier epoch is rewritten to a copy that
\* goes through cl_process, or is subsumed.
Refresh ==
  /\ GivenIsNext
  /\ \E c \in passive : c.epoch # epoch /\ Keep(1, epoch, {c})
  /\ UNCHANGED <<search, record, queue, heap, turns, fatal, made>>

\* collective_enqueue_batch, collective_enqueue_hyper_batch: the rules of one given clause
\* share a descriptor.
Enqueue(batches, g, rule, e, limit) ==
  LET b == Last(batches)
  IN  IF batches # <<>> /\ b.given = g /\ b.epoch = e
      THEN Append(Front(batches), [b EXCEPT !.rules = @ \cup {rule}, !.limit = limit])
      ELSE Append(batches, NewBatch(g, rule, e, limit))

EnqueueAll(g, e, limit) ==
  LET with(batches, rule) ==
        IF rule \in search.rules THEN Enqueue(batches, g, rule, e, limit) ELSE batches
  IN  with(with(with(queue, "posHyper"), "negHyper"), "para")

\* collective_maybe_schedule_hint_probe: the descriptor of a given clause that matches a
\* hint comes to the head.
Probed(batches, hint) ==
  /\ search.probes /\ credit /\ hint
  /\ Len(batches) > Len(queue)
  /\ "para" \in Last(batches).rules
ProbeFirst(batches) == <<[Last(batches) EXCEPT !.probe = TRUE]>> \o Front(batches)

\* The given clause c becomes active, and retires some clauses.
Activation(c, retired, hint) ==
  LET e == epoch + 1
      log == Append(history, Noted(c.id, search.rules \cap Hyper # {} /\ ~Denial(c.id), e))
      batches == EnqueueAll(c.id, e, Len(log))
      probed == Probed(batches, hint)
      gave == givens + 1
  IN  /\ epoch' = e
      /\ usable' = (usable \ retired) \cup {c.id}
      /\ deactivated' = [i \in Ids |-> IF i \in retired /\ deactivated[i] = 0
                                       THEN e ELSE deactivated[i]]
      /\ history' = log
      /\ Keep(search.eager, e, {c})
      /\ queue' = IF probed THEN ProbeFirst(batches) ELSE batches
      /\ credit' = (credit /\ ~probed)
      /\ givens' = gave
      /\ batchTurn' = (batchTurn \/ probed \/ (queue' # <<>> /\ gave >= search.ratio))

Activate ==
  /\ GivenIsNext
  /\ \E c \in passive, retired \in {D \in SUBSET usable : Cardinality(D) =< search.retire},
        hint \in {search.probes, FALSE} : Activation(c, retired, hint)
  /\ UNCHANGED <<search, heap, sinceFair, fatal, made>>

\* The given clause is gone before it is active: it retires clauses but has no inferences.
NotActivated ==
  /\ GivenIsNext
  /\ \E c \in passive, retired \in {D \in SUBSET usable : Cardinality(D) =< search.retire} :
       /\ epoch' = epoch + 1
       /\ usable' = usable \ retired
       /\ deactivated' = [i \in Ids |-> IF i \in retired /\ deactivated[i] = 0
                                        THEN epoch' ELSE deactivated[i]]
       /\ Keep(search.eager, epoch', {c})
       /\ givens' = givens + 1
       /\ batchTurn' = (batchTurn \/ (queue # <<>> /\ givens' >= search.ratio))
  /\ UNCHANGED <<search, history, queue, heap, sinceFair, credit, fatal, made>>

-----------------------------------------------------------------------------
(***************************************************************************)
(* A checkpoint and its resumption: all but the heap is saved.             *)
(***************************************************************************)
\* The tests of read_collective_checkpoint on the descriptor at place i.
Readable(i) ==
  LET b == queue[i]
  IN  /\ b.cursor =< b.limit /\ b.limit =< Len(history)
      /\ b.rules # {}
      /\ b.done = 0 => b = [ResetConclusions(b) EXCEPT !.probe = b.probe]
      /\ ~b.promising => b.at = NoKey /\ b.next = NoKey
      /\ b.promising => Less(b.at, b.next)
      /\ b.probe => i = 1 /\ ~credit

\* The heap is built anew from the queue.
Rebuilt ==
  LET built[i \in 0 .. Len(queue)] ==
        IF i = 0 THEN <<>> ELSE HeapInsert(queue, built[i - 1], queue[i].given)
  IN  built[Len(queue)]

Resume ==
  /\ fatal = "none"
  /\ LET readable == /\ sinceFair < search.interval
                     /\ Scheduling \/ sinceFair = 0
                     /\ \A i \in DOMAIN queue : Readable(i)
     IN  /\ fatal' = IF readable THEN "none" ELSE "resume"
         /\ heap' = Rebuilt
  /\ UNCHANGED <<search, clauses, record, queue, turns, made>>

-----------------------------------------------------------------------------
\* Usable and Sos after the initial clauses were processed.
Init ==
  /\ search \in Searches
  /\ epoch = 1
  /\ usable = 1 .. search.usable
  /\ passive = {[id |-> i, epoch |-> 1] : i \in search.usable + 1 .. search.usable + search.sos}
  /\ unselected = 0
  /\ next = search.usable + search.sos + 1
  /\ history = [i \in 1 .. search.usable |-> Noted(i, search.rules \cap Hyper # {}, 1)]
  /\ deactivated = [i \in Ids |-> 0]
  /\ queue = <<>>
  /\ heap = <<>>
  /\ sinceFair = 0
  /\ batchTurn = FALSE
  /\ givens = 0
  /\ credit = TRUE
  /\ fatal = "none"
  /\ made = {}

Next == Turn \/ Refresh \/ Activate \/ NotActivated \/ Resume

Spec == Init /\ [][Next]_vars

-----------------------------------------------------------------------------
(***************************************************************************)
(* Properties.                                                             *)
(***************************************************************************)
\* The conclusions of the unit a descriptor is in that were drawn, by its cursor alone.
Drawn(b) ==
  {b.hash[i] : i \in {i \in DOMAIN b.hash :
                        IF b.promising THEN ~Less(b.at, KeyAt(b.hash, i)) ELSE i =< b.done}}

\* The conclusions a descriptor still stands for.
Pending(b) ==
  LET partners == {i \in b.cursor + 1 .. b.limit :
                     StillActive(history[i].id, b.epoch) /\ ~Denial(history[i].id)}
      units == {HyperUnit(b, r) : r \in b.rules \cap Hyper}
                 \cup (IF "para" \in b.rules
                       THEN {RawOf("para", b.given, history[i].id) : i \in partners} ELSE {})
  IN  (UNION {ToSet(u) : u \in units}) \ Drawn(b)

Owed == UNION {Pending(queue[i]) : i \in DOMAIN queue}

\* What clauses yield: restricted denials only as initial clauses of hyperresolution.
Yield(g, p) ==
  UNION {ToSet(RawOf(r, g, p)) : r \in {r \in search.rules :
           ~Denial(p) \/ (r \in Hyper /\ p =< search.usable)}}

Given == {history[i].id : i \in search.usable + 1 .. Len(history)}

Contract == INSTANCE CollectiveContract WITH
  Clause <- Ids, Conclusion <- [given : Ids, partner : Ids, rule : Rules,
                                n : Nat, weight : Nat],
  yield <- [g \in Ids |-> [p \in Ids |-> Yield(g, p)]], chunk <- search.chunk,
  past <- Given, active <- usable, owed <- Owed

\* Descriptors, cursors and epochs stand for exactly the conclusions that are due: with
\* the clauses that were active when the clause was given, whatever came and went since,
\* each drawn once, and never more than collective_candidate_chunk in a turn
\* (P9-RADICAL-RAM-REPORT.md: "Nothing is silently discarded").
KeepsFrontierContract == Contract!Spec

\* The priority heap holds the partial descriptors in heap order, and each of them knows
\* the least candidate it has not drawn: the heap is edited while keys change, and the key
\* is found by a scan that keeps a bounded buffer.
PriorityExact ==
  /\ IsInjective(heap)
  /\ ToSet(heap) = {queue[i].given : i \in {i \in DOMAIN queue : queue[i].promising}}
  /\ \A k \in 2 .. Len(heap) : Before(queue, heap[k \div 2], heap[k])
  /\ \A i \in DOMAIN queue : queue[i].promising =>
       LET b == queue[i]
           above == {k \in DOMAIN b.hash : Less(b.at, KeyAt(b.hash, k))}
       IN  /\ b.done = Len(b.hash) - Cardinality(above)
           /\ b.next \in {KeyAt(b.hash, k) : k \in above}
           /\ \A k \in above : ~Less(KeyAt(b.hash, k), b.next)

\* How many turns the descriptor at place i may have to wait, doubled for the probes that
\* may come between other turns.
Patience(i) ==
  LET ahead == Cardinality({j \in 1 .. i - 1 : ~queue[j].probe})
      interval == IF Scheduling THEN search.interval ELSE 1
  IN  2 * (ahead * interval + interval - sinceFair)
        + (IF credit \/ Head(queue).probe THEN 1 ELSE 0)
PatienceOf(g) == Patience(CHOOSE i \in DOMAIN queue : queue[i].given = g)
Waiting == {queue[i].given : i \in DOMAIN queue}

\* No descriptor starves, whatever weights and hints come: each turn that is not its own
\* brings a descriptor nearer to its turn, and no given clause, probe or resumption takes
\* it away from it (comments at search.c:823, 932).
NoStarvation ==
  [][fatal' = "none" =>
       IF Turn
       THEN \A g \in Waiting \ {Head(Chosen.queue).given} : PatienceOf(g)' < PatienceOf(g)
       ELSE \A g \in Waiting : PatienceOf(g)' =< PatienceOf(g)]_vars

\* The internal checks of the frontier fail in two situations only: a probe left a partner
\* of paramodulation half done and the hyper rule that comes next takes its cursor for its
\* own; or Sos is full of clauses that no selector takes.
FatalOnlyThen ==
  /\ fatal \in {"none", "replay", "space"}
  /\ fatal = "replay" => \E i \in DOMAIN queue :
                           LET b == queue[i]
                           IN  search.probes /\ HyperPending(b) /\ b.done > 0
                                 /\ b.hash[1].rule = "para"
  /\ fatal = "space" => passive = {} /\ unselected >= search.cache
=============================================================================
