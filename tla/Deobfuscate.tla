---------------------------- MODULE Deobfuscate ----------------------------
(***************************************************************************)
(* internal/deobfuscate, which unwraps the encodings of a file into layers  *)
(* the rules can be run on: escapes normalised in place, a depth-first walk *)
(* of what encoders hide, and constants folded. What a decoder makes of a   *)
(* text is given by the instance; how it decodes is not modelled.           *)
(***************************************************************************)
EXTENDS Naturals, Sequences, FiniteSets

CONSTANTS Plaintexts,   \* the decoded texts there are
          Corpora,      \* [text -> what the patterns and decoders see in it]
          Empty,        \* the text of no bytes
          MaxDepth, MaxLayers, MaxOutput, MaxInflate, MaxFoldInput, MaxFoldPasses

ASSUME CorporaAssumption ==
  \A c \in Corpora : \A t \in Plaintexts :
    /\ c[t].size \in Nat /\ c[t].normal \in Plaintexts /\ c[t].folded \in Plaintexts /\ c[t].rotated \in Plaintexts
    /\ \A ts \in {c[t].evals, c[t].hexes, c[t].blobs, c[t].chars} : ts \in Seq(Plaintexts)
    /\ c[t].inflated \in Seq([whole : Plaintexts, cut : Plaintexts])

VARIABLES texts,      \* the corpus
          source,     \* the file's text
          layers,     \* [method, text], in order
          emitted,    \* bytes emitted
          truncated,  \* Result.Truncated
          work,       \* what the walk has still to do, its innermost call first
          folded,     \* what Fold has made of the source
          passes,     \* the passes it took
          phase

foldVars == <<folded, passes>>
unwrapVars == <<texts, source, layers, emitted, truncated, work, foldVars, phase>>

UnwrapInit == /\ texts \in Corpora /\ source \in Plaintexts
              /\ layers = <<>> /\ emitted = 0 /\ truncated = FALSE
              /\ work = <<>> /\ folded = source /\ passes = 0 /\ phase = "normalize"

Seen == {layers[k].text : k \in DOMAIN layers}

-----------------------------------------------------------------------------
(* What there is to do: a text to add, and to walk if it was new; a text to *)
(* walk.                                                                    *)

ToAdd(method, t, depth) == [do |-> "add", method |-> method, text |-> t, depth |-> depth]
ToWalk(t, depth) == [do |-> "walk", method |-> "walk", text |-> t, depth |-> depth]
AddEach(method, ts, depth) == [k \in DOMAIN ts |-> ToAdd(method, ts[k], depth)]

\* tryInflaters: an inflated text is cut at a bound.
Inflated(r) == IF texts[r.whole].size > MaxInflate THEN r.cut ELSE r.whole
Inflations(t) == [k \in DOMAIN texts[t].inflated |-> Inflated(texts[t].inflated[k])]

\* What is found in a text that is walked: string arguments, hex runs, base64, chr runs.
Children(t, depth) ==
  AddEach("eval-arg", texts[t].evals, depth) \o AddEach("hex", texts[t].hexes, depth)
    \o AddEach("base64", texts[t].blobs, depth) \o AddEach("chr", texts[t].chars, depth)

\* What follows when a text was new: a decoded blob is inflated and rotated first.
Unpack(task) ==
  (IF task.method = "base64"
   THEN AddEach("gz", Inflations(task.text), task.depth) \o <<ToAdd("str_rot13", texts[task.text].rotated, task.depth)>>
   ELSE <<>>) \o <<ToWalk(task.text, task.depth)>>

-----------------------------------------------------------------------------
(* The walk.                                                                *)

BoundsReached(t) == Len(layers) >= MaxLayers \/ emitted + texts[t].size > MaxOutput

\* Mutant: only a layer that is alone too long is told.
OverflowsAlone(t) == t # Empty /\ texts[t].size > MaxOutput
Overflows(t) == t # Empty /\ BoundsReached(t)

\* state.add: the bounds are looked at before what was seen.
AddLayer ==
  /\ work # <<>> /\ Head(work).do = "add"
  /\ LET task == Head(work)
         t == task.text
         new == t # Empty /\ ~BoundsReached(t) /\ t \notin Seen
     IN  /\ truncated' = (truncated \/ Overflows(t))
         /\ layers' = IF new THEN Append(layers, [method |-> task.method, text |-> t]) ELSE layers
         /\ emitted' = IF new THEN emitted + texts[t].size ELSE emitted
         /\ work' = (IF new THEN Unpack(task) ELSE <<>>) \o Tail(work)
  /\ UNCHANGED <<texts, source, foldVars, phase>>

\* state.walk.
WalkText ==
  /\ work # <<>> /\ Head(work).do = "walk"
  /\ LET task == Head(work)
     IN  IF task.depth > MaxDepth
         THEN truncated' = TRUE /\ work' = Tail(work)
         ELSE truncated' = truncated /\ work' = Children(task.text, task.depth + 1) \o Tail(work)
  /\ UNCHANGED <<texts, source, layers, emitted, foldVars, phase>>

\* Run, (A): only if an escape is there, and taking it out uncovers a sink.
Uncovers == LET t == texts[source]
            IN  t.escaped /\ t.normal # source /\ ~(texts[t.normal].sinks \subseteq t.sinks)

Normalize ==
  /\ phase = "normalize"
  /\ work' = IF Uncovers THEN <<ToAdd("normalized", texts[source].normal, 0)>> ELSE <<>>
  /\ phase' = "unwrap"
  /\ UNCHANGED <<texts, source, layers, emitted, truncated, foldVars>>

\* (B): only if a decoder is called, or a run of escapes is there.
Unwrap ==
  /\ phase = "unwrap" /\ work = <<>>
  /\ work' = IF texts[source].encoded THEN <<ToWalk(source, 0)>> ELSE <<>>
  /\ phase' = "fold"
  /\ UNCHANGED <<texts, source, layers, emitted, truncated, foldVars>>

\* Fold: until nothing changes, or the passes are used up.
Foldable == texts[source].marked /\ texts[source].size <= MaxFoldInput /\ passes < MaxFoldPasses

FoldPass ==
  /\ phase = "fold" /\ work = <<>>
  /\ Foldable /\ texts[folded].folded # folded
  /\ folded' = texts[folded].folded /\ passes' = passes + 1
  /\ UNCHANGED <<texts, source, layers, emitted, truncated, work, phase>>

\* revealsFoldedSink: a name that was not there, or a dispatch that no longer is.
Reveals ==
  \/ ~(texts[folded].names \subseteq texts[source].names)
  \/ texts[folded].dispatches < texts[source].dispatches

\* (C).
FoldConstants ==
  /\ phase = "fold" /\ work = <<>>
  /\ Foldable => texts[folded].folded = folded
  /\ work' = IF folded # source /\ Reveals THEN <<ToAdd("folded", folded, 0)>> ELSE <<>>
  /\ phase' = "done"
  /\ UNCHANGED <<texts, source, layers, emitted, truncated, folded, passes>>

UnwrapNext == AddLayer \/ WalkText \/ Normalize \/ Unwrap \/ FoldPass \/ FoldConstants
UnwrapSpec == UnwrapInit /\ [][UnwrapNext]_unwrapVars

-----------------------------------------------------------------------------
Members(ts) == {ts[k] : k \in DOMAIN ts}
Hidden(t) == (Members(texts[t].evals) \cup Members(texts[t].hexes) \cup Members(texts[t].blobs)
                \cup Members(texts[t].chars)) \ {Empty}

Kept(t) == t = Empty \/ t \in Seen

\* What a blob inflates to is a layer as a whole; or it is longer than the inflaters'
\* bound, and only its first part is one. Truncated does not tell the two apart.
WholeOrCut(r) == Kept(r.whole) \/ (texts[r.whole].size > MaxInflate /\ Kept(r.cut))

\* The source was folded until nothing changed; or it is too long to be folded, or the
\* passes were used up. Truncated does not tell these apart either.
FoldFinished == texts[source].marked => texts[folded].folded = folded
FoldStopped == ~(texts[source].size <= MaxFoldInput /\ passes < MaxFoldPasses)

\* What the walk leaves wrapped, Result.Truncated says: without it, what the source or a
\* layer hides is a layer too, to any depth, and every blob was rotated and inflated. The
\* bounds it does not speak for are the two above, and nothing else is lost: an inflation
\* that is not there whole is longer than MaxInflate and its first part is there, and a
\* fold that is not finished met a bound of its own.
UnwrappingIsClosed ==
  phase = "done" /\ work = <<>> /\ ~truncated =>
    /\ Uncovers => Kept(texts[source].normal)
    /\ texts[source].encoded => Hidden(source) \subseteq Seen
    /\ FoldFinished \/ FoldStopped
    /\ folded # source /\ Reveals => Kept(folded)
    /\ \A k \in DOMAIN layers :
         /\ Hidden(layers[k].text) \subseteq Seen
         /\ layers[k].method = "base64" =>
              /\ Kept(texts[layers[k].text].rotated)
              /\ \A r \in Members(texts[layers[k].text].inflated) : WholeOrCut(r)
=============================================================================
