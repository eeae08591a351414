----------------------------- MODULE Schedules ------------------------------
(***************************************************************************)
(* The two schedules the cim-placement pass chooses from, as functions of  *)
(* a use sequence: what computePlacement returns under Belady, and what    *)
(* computeSteadyStatePlacement returns (lib/Placement/Placement.cpp).      *)
(* TilePlacement models the first step by step; here it is a value that    *)
(* the pass computes in one go, and MCTilePlacement checks the two agree.  *)
(***************************************************************************)
EXTENDS Integers, Sequences, FiniteSets, SequencesExt

CONSTANT NoWeight

\* The weights of a sequence, and the position of their next use from i on.
WeightsOf(seq) == {seq[i] : i \in DOMAIN seq}
UsesFrom(seq, w, i) == {j \in i .. Len(seq) : seq[j] = w}
NextUse(seq, w, i) ==
  IF UsesFrom(seq, w, i) = {} THEN Len(seq) + 1 ELSE Min(UsesFrom(seq, w, i))
Occurrences(seq, w) == Cardinality(UsesFrom(seq, w, 1))
-----------------------------------------------------------------------------
(* computePlacement, policy Belady.  held[t] is the weight on tile t. *)

Free(held) == {t \in DOMAIN held : held[t] = NoWeight}

\* selectVictim: the furthest next use, the first tile among equals.
Victim(seq, i, held) ==
  LET next(t) == NextUse(seq, held[t], i + 1) IN
    Min({t \in DOMAIN held : \A u \in DOMAIN held : next(u) <= next(t)})

\* The action for use i, given what the tiles hold.
BeladyAction(seq, i, held) ==
  LET on == {t \in DOMAIN held : held[t] = seq[i]}
      act(kind, t, victim) == [step |-> i - 1, weight |-> seq[i], tile |-> t,
                               kind |-> kind, evicted |-> victim]
  IN IF on # {} THEN act("Reuse", Min(on), NoWeight)
     ELSE IF Free(held) # {} THEN act("ProgramIntoFree", Min(Free(held)), NoWeight)
     ELSE LET v == Victim(seq, i, held) IN act("ProgramWithEviction", v, held[v])

Belady(seq, numTiles) ==
  LET run[i \in 0 .. Len(seq)] ==
        IF i = 0 THEN [held |-> [t \in 0 .. numTiles - 1 |-> NoWeight], actions |-> <<>>]
        ELSE LET before == run[i - 1]
                 a == BeladyAction(seq, i, before.held)
             IN [held |-> [before.held EXCEPT ![a.tile] = a.weight],
                 actions |-> Append(before.actions, a)]
  IN IF numTiles = 0 THEN <<>> ELSE run[Len(seq)].actions

\* Programs in a schedule, in all and on one tile.
ProgramsOf(actions) == {i \in DOMAIN actions : actions[i].kind # "Reuse"}
ProgramsOnTile(actions, t) == {i \in ProgramsOf(actions) : actions[i].tile = t}
-----------------------------------------------------------------------------
(* computeSteadyStatePlacement: pin the most used weights, stream the rest. *)

FitsEntirely(seq, numTiles) == Cardinality(WeightsOf(seq)) <= numTiles
\* Mutant: two tiles are left to the streamed weights.
PinnedCountLow(seq, numTiles) ==
  IF FitsEntirely(seq, numTiles) THEN Cardinality(WeightsOf(seq))
  ELSE IF numTiles = 1 THEN 0 ELSE numTiles - 2
PinnedCount(seq, numTiles) ==
  IF FitsEntirely(seq, numTiles) THEN Cardinality(WeightsOf(seq)) ELSE numTiles - 1

\* Pinned tiles are given out by first use when all fit, else by number of
\* occurrences and, among equals, by first use.
PinnedBefore(seq, numTiles, w, x) ==
  \/ ~FitsEntirely(seq, numTiles) /\ Occurrences(seq, w) > Occurrences(seq, x)
  \/ /\ FitsEntirely(seq, numTiles) \/ Occurrences(seq, w) = Occurrences(seq, x)
     /\ NextUse(seq, w, 1) < NextUse(seq, x, 1)
PinRank(seq, numTiles, w) ==
  Cardinality({x \in WeightsOf(seq) : PinnedBefore(seq, numTiles, x, w)})
Pinned(seq, numTiles) ==
  {w \in WeightsOf(seq) : PinRank(seq, numTiles, w) < PinnedCount(seq, numTiles)}

\* A pinned use: the first one installs, the others reuse.  Mutant: they all
\* reuse, and there is nothing to reuse.
PinnedKindReuse(seq, i) == "Reuse"
PinnedKind(seq, i) == IF NextUse(seq, seq[i], 1) = i THEN "ProgramIntoFree" ELSE "Reuse"

\* The other uses, in order, are scheduled by the engine on a single tile,
\* which is the tile after the pinned ones.  Kept is what a sequence holds at
\* some of its positions, Nth counts them.
Kept(seq, at) == FlattenSeq([i \in DOMAIN seq |-> IF i \in at THEN <<seq[i]>> ELSE <<>>])
Nth(at, i) == Cardinality({j \in at : j <= i})
Streamed(seq, numTiles) == {i \in DOMAIN seq : seq[i] \notin Pinned(seq, numTiles)}
SteadyBody(seq, numTiles) ==
  LET pinned == Pinned(seq, numTiles)
      streamed == Streamed(seq, numTiles)
      stream == Belady(Kept(seq, streamed), 1)
  IN [i \in DOMAIN seq |->
        IF seq[i] \in pinned
        THEN [step |-> i - 1, weight |-> seq[i], tile |-> PinRank(seq, numTiles, seq[i]),
              kind |-> PinnedKind(seq, i), evicted |-> NoWeight]
        ELSE [stream[Nth(streamed, i)] EXCEPT !.step = i - 1, !.tile = PinnedCount(seq, numTiles)]]

\* programsPerIteration: the programs of the streamed tile alone.
ProgramsPerIteration(seq, numTiles) ==
  Cardinality(ProgramsOnTile(SteadyBody(seq, numTiles), PinnedCount(seq, numTiles)))
=============================================================================
