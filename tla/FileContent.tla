---------------------------- MODULE FileContent ----------------------------
(***************************************************************************)
(* fileContent, the cache of one object's content that the readers of the   *)
(* WebDAV proxy share: readAt fetches the chunks it misses in one request   *)
(* to the store, reads ahead when reads are sequential, copies, and forgets *)
(* the chunks read longest ago when there are too many.  A mutex makes one  *)
(* readAt one step.  What a byte is does not matter, only where the chunks  *)
(* end: a chunk is the number of its bytes that were fetched.               *)
(*                                                                          *)
(* net/http's ServeContent reads pieces that lie within the object.  The    *)
(* store's answer may be an error; its body may end early, which fillChunks *)
(* takes for the end of the object, or fail to be read, and then the chunks *)
(* that were already there stay, and nobody counts them.                    *)
(***************************************************************************)
EXTENDS Integers, FiniteSets

CONSTANTS Sizes,            \* the sizes of the object
          ChunkSize,        \* chunkSize
          Piece,            \* the most a reader asks for at once
          SuperChunk,       \* superChunk / chunkSize
          SequentialFills,  \* the sequential fills before there is read-ahead: 4
          MaxCachedChunks,  \* maxCachedChunks
          MaxCuts,          \* bound of the bodies that end early
          MaxUncounted,     \* bound of the chunks that are not counted
          MaxFilled         \* bound of filledChunks

ASSUME ContentAssumption ==
  /\ Sizes \subseteq Nat \ {0}
  /\ ChunkSize \in Nat \ {0} /\ Piece \in Nat \ {0} /\ SuperChunk \in Nat \ {0}
  /\ SequentialFills \in Nat /\ MaxCuts \in Nat /\ MaxUncounted \in Nat /\ MaxFilled \in Nat
  /\ MaxCachedChunks \in Nat \ {0, 1}

VARIABLES size,          \* the size of the object, as the directory listing had it
          chunks,        \* the bytes of each chunk, NoChunk where there are none
          older,         \* lastReadTime: the pairs of chunks of which the first was read longer ago
          filledChunks,  \* what fillChunks and forgetOldChunks count
          lastFillEnd, cnt,
          last,          \* history: the last read, what it needed and what came of it
          cuts,          \* history: the bodies that ended early
          uncounted      \* history: the chunks that fillChunks stored and did not count

contentVars == <<size, chunks, older, filledChunks, lastFillEnd, cnt, last, cuts, uncounted>>

NoChunk == -1
CleanLimit == 2 * MaxCachedChunks
Outcome == {"new", "data", "error", "panic", "spin"}

Count == (size + ChunkSize - 1) \div ChunkSize   \* len(f.chunks)
Chunk == 0 .. Count - 1
Held(cs) == {i \in Chunk : cs[i] # NoChunk}
Cached == Held(chunks)
Missing == Chunk \ Cached
Smaller(a, b) == IF a < b THEN a ELSE b

ContentTypeOK ==
  /\ size \in Sizes
  /\ chunks \in [Chunk -> NoChunk .. ChunkSize]
  /\ older \subseteq Cached \X Cached
  /\ filledChunks \in -MaxUncounted .. MaxFilled + Count
  /\ lastFillEnd \in Chunk /\ cnt \in 0 .. SequentialFills
  /\ last \in [needs : SUBSET Chunk, atEnd : BOOLEAN, outcome : Outcome]
  /\ cuts \in 0 .. MaxCuts /\ uncounted \in 0 .. MaxUncounted

NewContent ==
  /\ chunks' = [i \in Chunk |-> NoChunk] /\ older' = {}
  /\ filledChunks' = 0 /\ lastFillEnd' = 0 /\ cnt' = 0
  /\ last' = [needs |-> {}, atEnd |-> FALSE, outcome |-> "new"]
  /\ uncounted' = 0

ContentInit ==
  /\ size \in Sizes
  /\ chunks = [i \in Chunk |-> NoChunk] /\ older = {}
  /\ filledChunks = 0 /\ lastFillEnd = 0 /\ cnt = 0
  /\ last = [needs |-> {}, atEnd |-> FALSE, outcome |-> "new"]
  /\ cuts = 0 /\ uncounted = 0

-------------------------------------------------------------------------------
\* The chunks whose bytes [offset, offset + count) are.
Needs(offset, count) == offset \div ChunkSize .. (offset + count - 1) \div ChunkSize

\* The first and the last chunk ensureChunks looks at; the last one is one too far when the read
\* ends where a chunk does.
Wanted(offset, count) == offset \div ChunkSize .. (offset + count) \div ChunkSize

\* The second loop of ensureChunks looks past the chunks: the read ends at the end of the object,
\* and that is where a chunk ends.  (The first loop has stopped no later than there.)
LooksPastEnd(offset, count) == Count \in Wanted(offset, count)

\* Where read-ahead ends: more missing chunks, as long as the request is smaller than SuperChunk.
ReadAheadEnd(first, lastChunk, n) ==
  IF n < SequentialFills THEN {lastChunk}
  ELSE {e \in lastChunk .. Count - 1 :
          /\ lastChunk + 1 .. e \subseteq Missing
          /\ e > lastChunk => e - first + 1 =< SuperChunk
          /\ e - first + 1 >= SuperChunk \/ e + 1 \notin Missing}

\* fillChunks got length bytes from the start of chunk first on.
Fill(first, end, length) ==
  [i \in Chunk |->
     IF i \notin first .. end THEN chunks[i]
     ELSE LET from == (i - first) * ChunkSize
          IN IF length =< from THEN 0 ELSE Smaller(ChunkSize, length - from)]

\* Mutant: the last byte of the range is left out.
AvailableButLast(first, end) == Smaller((end + 1) * ChunkSize - 1, size) - first * ChunkSize

\* What the store has from chunk first to chunk end.
Available(first, end) == Smaller((end + 1) * ChunkSize, size) - first * ChunkSize

\* The chunks `is` are read now, of those that are held; which of them first the clock may not tell.
Touch(order, held, is) ==
  {p \in order : p[1] \notin is /\ p[2] \notin is} \cup ((held \ is) \X is)

\* Mutant: the counter is not kept.
FilledNotCounted(first, end) == filledChunks

\* fillChunks counts what it fetched, the chunks that were there between the missing ones, too.
FilledCount(first, end) == filledChunks + end - first + 1

\* The copying: a chunk that has fewer bytes than are asked of it makes it go round for ever, or
\* slice beyond its end if the read begins there.
Copied(cs, offset, count) ==
  LET first == offset \div ChunkSize
      has(i) == cs[i] >= Smaller(ChunkSize, offset + count - i * ChunkSize)
  IN IF cs[first] < offset % ChunkSize THEN "panic"
     ELSE IF \A i \in Needs(offset, count) : has(i) THEN "data" ELSE "spin"

\* Mutant: the chunks read last are forgotten.
ForgetNewest(held, order, n) ==
  IF n < CleanLimit THEN {{}}
  ELSE {gone \in SUBSET held :
          /\ Cardinality(held \ gone) = Smaller(Cardinality(held), MaxCachedChunks + 1)
          /\ \A i \in gone, j \in held \ gone : <<i, j>> \notin order}

\* forgetOldChunks: the chunks that go, all but MaxCachedChunks + 1, and none that was read later
\* than one that stays.
Forgotten(held, order, n) ==
  IF n < CleanLimit THEN {{}}
  ELSE {gone \in SUBSET held :
          /\ Cardinality(held \ gone) = Smaller(Cardinality(held), MaxCachedChunks + 1)
          /\ \A i \in gone, j \in held \ gone : <<j, i>> \notin order}

Record(offset, count, outcome) ==
  last' = [needs |-> Needs(offset, count), atEnd |-> offset + count = size, outcome |-> outcome]

\* The end of readAt with the chunks cs, read in this order, and n of them counted.
CopyAndForget(offset, count, cs, order, n) ==
  LET outcome == Copied(cs, offset, count)
      touched == IF outcome = "panic" THEN order ELSE Touch(order, Held(cs), Needs(offset, count))
  IN /\ Record(offset, count, outcome)
     /\ \E gone \in IF outcome = "data" THEN Forgotten(Held(cs), touched, n) ELSE {{}} :
          /\ chunks' = [i \in Chunk |-> IF i \in gone THEN NoChunk ELSE cs[i]]
          /\ older' = {p \in touched : p[1] \notin gone /\ p[2] \notin gone}
          /\ filledChunks' = n - Cardinality(gone)

\* A reader may take the lock, which the one that goes round for ever never gives back.
MayRead(offset, count) ==
  /\ last.outcome # "spin" /\ filledChunks =< MaxFilled
  /\ offset + count =< size

\* readAt panics before anything has changed.
ReadPanics(offset, count) ==
  /\ MayRead(offset, count) /\ LooksPastEnd(offset, count)
  /\ Record(offset, count, "panic")
  /\ UNCHANGED <<size, chunks, older, filledChunks, lastFillEnd, cnt, cuts, uncounted>>

\* readAt finds all it looks at.
ReadCached(offset, count) ==
  /\ MayRead(offset, count) /\ ~LooksPastEnd(offset, count)
  /\ Wanted(offset, count) \cap Missing = {}
  /\ CopyAndForget(offset, count, chunks, older, filledChunks)
  /\ UNCHANGED <<size, lastFillEnd, cnt, cuts, uncounted>>

\* fillChunks fails: the answer is an error, or its body cannot be read on at chunk i.
FillFails(offset, count, first, end) ==
  \E i \in first .. end :
    /\ Record(offset, count, "error")
    /\ chunks' = Fill(first, i - 1, Available(first, i - 1))
    /\ older' = Touch(older, Cached, first .. i - 1)
    /\ uncounted' = uncounted + Cardinality(Missing \cap (first .. i - 1)) /\ uncounted' =< MaxUncounted
    /\ UNCHANGED <<filledChunks, cuts>>

\* fillChunks gets what it asked for, or a body that ends early.
FillSucceeds(offset, count, first, end) ==
  \E length \in 0 .. Available(first, end) :
    /\ cuts' = cuts + (IF length < Available(first, end) THEN 1 ELSE 0) /\ cuts' =< MaxCuts
    /\ CopyAndForget(offset, count, Fill(first, end, length), Touch(older, Cached, first .. end),
                     FilledCount(first, end))
    /\ UNCHANGED uncounted

\* readAt fetches from the first missing chunk to the last, and further when reading ahead.
ReadFetching(offset, count) ==
  LET missing == Wanted(offset, count) \cap Missing
      sequential(first) == IF lastFillEnd = first - 1 THEN Smaller(cnt + 1, SequentialFills) ELSE 0
  IN /\ MayRead(offset, count) /\ ~LooksPastEnd(offset, count)
     /\ \E first, lastMissing \in missing :
          /\ missing \subseteq first .. lastMissing
          /\ cnt' = sequential(first)
          /\ \E end \in ReadAheadEnd(first, lastMissing, cnt') :
               /\ lastFillEnd' = end
               /\ FillFails(offset, count, first, end) \/ FillSucceeds(offset, count, first, end)
     /\ UNCHANGED size

\* The proxy has forgotten the content and opens the file again.
Reopen == last.outcome # "new" /\ NewContent /\ UNCHANGED <<size, cuts>>

Read == \E offset \in 0 .. size - 1, count \in 1 .. Piece :
          ReadPanics(offset, count) \/ ReadCached(offset, count) \/ ReadFetching(offset, count)

ContentNext == Read \/ Reopen

ContentSpec == ContentInit /\ [][ContentNext]_contentVars

-------------------------------------------------------------------------------
\* A read that does not return its data is one whose request failed, one that ends at the end of
\* an object whose size is a multiple of ChunkSize, or one after a body that ended early.
DataUnlessCut ==
  /\ last.outcome = "spin" => cuts > 0
  /\ last.outcome = "panic" => cuts > 0 \/ (last.atEnd /\ size % ChunkSize = 0)

\* The counter is below what is cached by no more than what failed requests have left, so the cache
\* cannot outgrow its limit by more, however the chunks are fetched and fetched again.
CacheBounded ==
  /\ Cardinality(Cached) =< filledChunks + uncounted
  /\ last.outcome = "data" => Cardinality(Cached) < CleanLimit + uncounted

\* What was just read is not what is forgotten, so the next piece, which often begins in the same
\* chunk, finds it.
JustReadStays ==
  last.outcome = "data" /\ Cardinality(last.needs) =< MaxCachedChunks + 1 => last.needs \subseteq Cached
===============================================================================
