---------------------------- MODULE PromptCache -----------------------------
(***************************************************************************)
(* The prompt of an agent's turns and its cache breakpoints: EventHistory  *)
(* of src/src/types.rs, PyHistoryManager of src/src/python.rs,             *)
(* render_context of src/src/renderer.rs, and build_request of             *)
(* src/src/api_client.rs.                                                  *)
(*                                                                         *)
(* A text is a sequence of pieces: the head (deployment and role context), *)
(* the opening tag, one piece per history entry, and the volatile rest     *)
(* (agent state, metadata and work queue, different on every turn).  A     *)
(* piece has an id, the form it is in, and a size.  Every turn renders the *)
(* history into a request, runs a script that may edit a clone of the      *)
(* history, and records itself as a new entry.  Scripts edit within the    *)
(* modification window; from the trigger of a compaction to its end they   *)
(* edit anything, the turns' own scripts included.                         *)
(***************************************************************************)
EXTENDS Integers, Sequences, FiniteSets, SequencesExt

CONSTANTS
  Configs,      \* what an agent may be configured with
  Window,       \* modification_window
  Size,         \* the size of a piece, by its form
  MinChars,     \* MIN_CACHE_CHARS
  ImageChars,   \* what a prefix attachment counts for: 4096
  Descriptions, \* the summaries a script may write
  MaxEntries,   \* bound on the entries ever made
  MaxExtras     \* bound on what happens besides plain turns

EntryForms == {"full", "alert"} \cup Descriptions
Forms == {"short", "long", "open", "rest", "file"} \cup EntryForms

ASSUME ConfigsAssumption ==
  Configs \subseteq [stride : Nat, tiers : Nat, attach : Nat, header : {"short", "long"}]
ASSUME SizesAssumption ==
  /\ Size \in [Forms -> Nat]
  /\ MinChars \in Nat \ {0} /\ ImageChars \in Nat /\ Window \in Nat
ASSUME DescriptionsAssumption ==
  /\ IsFiniteSet(Descriptions)
  /\ Descriptions \cap {"short", "long", "open", "rest", "file", "full", "alert"} = {}
ASSUME BoundsAssumption ==
  MaxEntries \in Nat /\ MaxExtras \in Nat

VARIABLES
  conf,    \* render_config and role_prefix of the agent
  hist,    \* EventHistory::entries
  txn,     \* the clone of the history a script works on
  pc,      \* "render", "script", "compact" or "record"
  active,  \* CompactionManager::active
  extras,  \* edits, alerts, views, failures and changes from outside so far
  made,    \* entries made so far: the id of the latest
  pinned,  \* the version of the pinned memory in the database
  files,   \* the version of the attached files
  view,    \* whether a View item heads the work queue
  request, \* the latest request
  seen     \* the history it was built from

vars == <<conf, hist, txn, pc, active, extras, made, pinned, files, view, request, seen>>

Piece(i, f) == [id |-> i, form |-> f, version |-> 0]
SizeOf(text) ==
  LET Sum[k \in 0 .. Len(text)] == IF k = 0 THEN 0 ELSE Sum[k - 1] + Size[text[k].form]
  IN Sum[Len(text)]

-----------------------------------------------------------------------------
(* EventHistory *)

\* saturating_sub
Monus(m, n) == IF m >= n THEN m - n ELSE 0

ImmutableCount(h) == Monus(Len(h), Window)

\* Mutant: the window reaches one entry too far.
IsModifiableWide(h, i) == \E k \in Monus(ImmutableCount(h), 1) + 1 .. Len(h) : h[k].id = i

IsModifiable(h, i) == \E k \in ImmutableCount(h) + 1 .. Len(h) : h[k].id = i

\* stride.pow
Pow(b, e) ==
  LET P[k \in 0 .. e] == IF k = 0 THEN 1 ELSE P[k - 1] * b
  IN P[e]

\* Mutant: the tiers are aligned to multiples of the stride, not to powers.
CacheSplitsLinear(h, stride, tiers) ==
  LET n == ImmutableCount(h)
      Align(i) == stride * (tiers - i + 1)
  IN IF stride = 0 \/ tiers = 0 THEN <<n>>
     ELSE [i \in 1 .. tiers |-> (n \div Align(i)) * Align(i)]

\* Mutant: only the coldest tier is ever split off.
CacheSplitsCold(h, stride, tiers) ==
  LET n == ImmutableCount(h)
      Align == Pow(stride, tiers + 1)
  IN IF stride = 0 \/ tiers = 0 THEN <<n>>
     ELSE [i \in 1 .. tiers |-> (n \div Align) * Align]

CacheSplits(h, stride, tiers) ==
  LET n == ImmutableCount(h)
      Align(i) == Pow(stride, tiers - i + 1)
  IN IF stride = 0 \/ tiers = 0 THEN <<n>>
     ELSE [i \in 1 .. tiers |-> (n \div Align(i)) * Align(i)]

\* entries.iter().position: the first entry with the id
Position(h, i) == CHOOSE k \in DOMAIN h : h[k].id = i /\ \A l \in DOMAIN h : h[l].id = i => k <= l

RemoveEntry(h, i) == RemoveAt(h, Position(h, i))
ReplaceWithSummary(h, i, d) == [h EXCEPT ![Position(h, i)] = Piece(i, d)]

-----------------------------------------------------------------------------
(* render_context *)

Header == <<Piece(0, conf.header)>>
Open == <<Piece(0, "open")>>
Rest(turn) == <<Piece(turn, "rest")>>

Tiers(c) == LET budget == IF c.attach = 0 THEN 3 ELSE 2
            IN IF c.tiers < budget THEN c.tiers ELSE budget

\* Segment i holds the entries between two splits; the first also what precedes them.
Segments(h, splits) ==
  [i \in DOMAIN splits |->
     IF i = 1 THEN (IF conf.attach = 0 THEN Header \o Open ELSE Open) \o SubSeq(h, 1, splits[1])
     ELSE SubSeq(h, splits[i - 1] + 1, splits[i])]

\* Small segments are merged into the next; what is left at the end stays uncached.
MergeSegment(a, seg) ==
  LET acc == a.acc \o seg
      effective == a.effective + SizeOf(seg)
  IN IF effective >= MinChars
     THEN [out |-> Append(a.out, acc), acc |-> <<>>, effective |-> 0]
     ELSE [out |-> a.out, acc |-> acc, effective |-> effective]

MergedSegments(segs, boost) ==
  LET Merged[i \in 0 .. Len(segs)] ==
        IF i = 0 THEN [out |-> <<>>, acc |-> <<>>, effective |-> boost]
        ELSE MergeSegment(Merged[i - 1], segs[i])
  IN Merged[Len(segs)]

CachedSegments(segs, boost) == MergedSegments(segs, boost).out

RenderContext(h, turn) ==
  LET splits == CacheSplits(h, conf.stride, Tiers(conf))
      segs == Segments(h, splits)
      prefixText == IF conf.attach = 0 THEN <<>> ELSE Header
      tail == SubSeq(h, splits[Len(splits)] + 1, Len(h)) \o Rest(turn)
  IN [prefixText |-> prefixText,
      prefixAttachments |-> conf.attach,
      cachedSegments |-> CachedSegments(segs, SizeOf(prefixText) + conf.attach * ImageChars),
      text |-> prefixText \o FlattenSeq(segs) \o tail,
      attachments |-> IF view THEN 1 ELSE 0]

-----------------------------------------------------------------------------
(* build_request *)

Block(text, cc) == [text |-> text, cc |-> cc]

\* An attachment is read when the request is built: a file that cannot be read is a note.
Attachment(i, cc) == Block(<<[id |-> i, form |-> "file", version |-> files]>>, cc)

\* Mutant: the slice of the tail forgets the prefix.
TailFromCached(r) ==
  LET cached == Len(FlattenSeq(r.cachedSegments))
  IN SubSeq(r.text, cached + 1, Len(r.text))

\* text[prefix_len + cached_len ..]
UncachedTail(r) ==
  LET cached == Len(FlattenSeq(r.cachedSegments))
  IN SubSeq(r.text, Len(r.prefixText) + cached + 1, Len(r.text))

BuildRequest(r) ==
  [system |-> pinned,
   text |-> r.text,
   blocks |->
     (IF r.prefixText = <<>> THEN <<>> ELSE <<Block(r.prefixText, FALSE)>>)
     \o [i \in 1 .. r.prefixAttachments |-> Attachment(i, i = r.prefixAttachments)]
     \o [i \in DOMAIN r.cachedSegments |-> Block(r.cachedSegments[i], TRUE)]
     \o <<Block(UncachedTail(r), FALSE)>>
     \o [i \in 1 .. r.attachments |-> Attachment(conf.attach + i, FALSE)]]

-----------------------------------------------------------------------------
(* The turns *)

NoRequest == [system |-> 0, text |-> <<>>, blocks |-> <<>>]

Init ==
  /\ conf \in Configs
  /\ hist = <<>> /\ txn = <<>> /\ pc = "render" /\ active = FALSE /\ extras = 0 /\ made = 0
  /\ pinned = 0 /\ files = 0 /\ view = FALSE
  /\ request = NoRequest /\ seen = <<>>

\* Something besides a plain turn happens.
Extra == extras < MaxExtras /\ extras' = extras + 1

\* Any agent may change the pinned memory, which all share.
PinnedChanges ==
  /\ pc = "render" /\ Extra
  /\ pinned' = pinned + 1
  /\ UNCHANGED <<conf, hist, txn, pc, active, made, files, view, request, seen>>

\* Anyone may write an attached file.
FileChanges ==
  /\ pc = "render" /\ conf.attach > 0 /\ Extra
  /\ files' = files + 1
  /\ UNCHANGED <<conf, hist, txn, pc, active, made, pinned, view, request, seen>>

\* A SystemAlert about hooks, between two turns.
AlertPushed ==
  /\ pc = "render" /\ made < MaxEntries /\ Extra
  /\ made' = made + 1
  /\ hist' = Append(hist, Piece(made + 1, "alert"))
  /\ UNCHANGED <<conf, txn, pc, active, pinned, files, view, request, seen>>

\* The head of the loop: the latest prompt was over compact_at.
TriggerCompaction ==
  /\ pc = "render" /\ ~active
  /\ active' = TRUE
  /\ UNCHANGED <<conf, hist, txn, pc, extras, made, pinned, files, view, request, seen>>

\* run_turn renders the history, calls the API and starts the script on a clone.
RunTurn ==
  /\ pc = "render" /\ made < MaxEntries
  /\ request' = BuildRequest(RenderContext(hist, made))
  /\ seen' = hist
  /\ txn' = hist /\ pc' = "script"
  /\ UNCHANGED <<conf, hist, active, extras, made, pinned, files, view>>

\* A View item comes to the head of the queue or leaves it.
HeadItemChanges ==
  /\ pc = "render" /\ Extra
  /\ view' = ~view
  /\ UNCHANGED <<conf, hist, txn, pc, active, made, pinned, files, request, seen>>

\* is_compaction: the turn's own script runs with compaction.active, compact()'s with true.
IsCompaction == pc = "compact" \/ (pc = "script" /\ active)

MayEdit(i) ==
  /\ pc \in {"script", "compact"} /\ Extra
  /\ \E k \in DOMAIN txn : txn[k].id = i
  /\ IsCompaction \/ IsModifiable(txn, i)

\* history.replace_with_description(id, d)
ReplaceWithDescription(i, d) ==
  /\ MayEdit(i)
  /\ txn' = ReplaceWithSummary(txn, i, d)
  /\ UNCHANGED <<conf, hist, pc, active, made, pinned, files, view, request, seen>>

\* history.remove(id)
HistoryRemove(i) ==
  /\ MayEdit(i)
  /\ txn' = RemoveEntry(txn, i)
  /\ UNCHANGED <<conf, hist, pc, active, made, pinned, files, view, request, seen>>

\* history.add(text): it raises outside a compaction.
HistoryAdd(d) ==
  /\ IsCompaction /\ made < MaxEntries /\ Extra
  /\ made' = made + 1
  /\ txn' = Append(txn, Piece(made + 1, d))
  /\ UNCHANGED <<conf, hist, pc, active, pinned, files, view, request, seen>>

\* The script's clone is committed; a fork adds a SystemAlert.
Installed(forked) ==
  IF forked
  THEN made < MaxEntries /\ made' = made + 1 /\ hist' = Append(txn, Piece(made + 1, "alert"))
  ELSE hist' = txn /\ UNCHANGED made

\* The script ends without an error; it may have requested a compaction.
Commit ==
  /\ pc = "script" /\ pc' = "record"
  /\ \/ Installed(FALSE) /\ UNCHANGED <<active, extras>>
     \/ /\ Extra /\ \E forked \in BOOLEAN : Installed(forked)
        /\ active' \in {active, TRUE}
  /\ UNCHANGED <<conf, txn, pinned, files, view, request, seen>>

\* It called compact(), which is only defined while a compaction is active: the
\* compaction script runs on a clone of the result.
CommitAndCompact ==
  /\ pc = "script" /\ active /\ Extra /\ pc' = "compact"
  /\ \E forked \in BOOLEAN : Installed(forked)
  /\ txn' = hist'
  /\ UNCHANGED <<conf, active, pinned, files, view, request, seen>>

\* The script raises: the clone is dropped.
Raise ==
  /\ pc = "script" /\ Extra
  /\ txn' = hist /\ pc' = "record"
  /\ UNCHANGED <<conf, hist, active, made, pinned, files, view, request, seen>>

\* The compaction script ends without an error, and with it the compaction.
CompactDone ==
  /\ pc = "compact"
  /\ hist' = txn /\ pc' = "record" /\ active' = FALSE
  /\ UNCHANGED <<conf, txn, extras, made, pinned, files, view, request, seen>>

\* The compaction script raises: an entry records the error, the compaction stays active.
CompactRaises ==
  /\ pc = "compact" /\ made < MaxEntries
  /\ made' = made + 1
  /\ hist' = Append(hist, Piece(made + 1, "full")) /\ pc' = "record"
  /\ UNCHANGED <<conf, txn, active, extras, pinned, files, view, request, seen>>

\* The turn is recorded as an Execution entry.
Record ==
  /\ pc = "record" /\ made < MaxEntries
  /\ made' = made + 1
  /\ hist' = Append(hist, Piece(made + 1, "full"))
  /\ txn' = <<>> /\ pc' = "render"
  /\ UNCHANGED <<conf, active, extras, pinned, files, view, request, seen>>

Edit ==
  \/ \E i \in 1 .. MaxEntries : HistoryRemove(i) \/ \E d \in Descriptions : ReplaceWithDescription(i, d)
  \/ \E d \in Descriptions : HistoryAdd(d)

Next ==
  \/ PinnedChanges \/ FileChanges \/ AlertPushed
  \/ HeadItemChanges \/ TriggerCompaction
  \/ RunTurn \/ Edit \/ Commit \/ CommitAndCompact \/ Raise \/ CompactDone \/ CompactRaises \/ Record

Spec == Init /\ [][Next]_vars

-----------------------------------------------------------------------------
(* Properties *)

Breakpoints(r) == {k \in DOMAIN r.blocks : r.blocks[k].cc}
IsFile(block) == block.text # <<>> /\ block.text[1].form = "file"
TextUpTo(r, k) == FlattenSeq([j \in 1 .. k |-> IF IsFile(r.blocks[j]) THEN <<>> ELSE r.blocks[j].text])
EntryCount(text) == Cardinality({k \in DOMAIN text : text[k].form \in EntryForms})

\* The API accepts four breakpoints: however tiers and attachments are
\* configured and segments merged, the system prompt, the last prefix
\* attachment and the segments take no more (render_context's tier budget).
BreakpointBudget == Cardinality(Breakpoints(request)) + 1 <= 4

\* The blocks build_request cuts out of the rendered text are the whole text
\* once and in order, whichever segments were merged or left to the tail.
BlocksAreTheText ==
  TextUpTo(request, Len(request.blocks)) = request.text

\* A breakpoint never covers an entry that a script could still modify: what
\* is cached was outside the modification window when it was sent.
CachedOutsideWindow ==
  \A k \in Breakpoints(request) :
    EntryCount(TextUpTo(request, k)) <= ImmutableCount(seen)

\* Every request render_context and build_request make keeps to the API's limit,
\* says all of the text, and marks as cached only what is settled.
RequestSound == BreakpointBudget /\ BlocksAreTheText /\ CachedOutsideWindow

Largest == CHOOSE m \in {Size[f] : f \in Forms \ {"short", "long"}} : \A f \in Forms \ {"short", "long"} : Size[f] <= m

\* What is sent uncached stays small however long the history is: less than
\* what a breakpoint is worth, and at most the window, the entries since the
\* last multiple of the stride, and the rest.
UncachedBounded ==
  request # NoRequest /\ conf.stride > 0 /\ conf.tiers > 0 =>
    LET cached == IF Breakpoints(request) = {} THEN 0
                  ELSE CHOOSE k \in Breakpoints(request) : \A l \in Breakpoints(request) : l <= k
        covered == EntryCount(TextUpTo(request, cached))
        uncached == SizeOf(SubSeq(seen, covered + 1, Len(seen)))
    IN uncached < MinChars + (Window + conf.stride - 1) * Largest

Undisturbed == IsPrefix(seen, seen') /\ request'.system = request.system
Kept(k) ==
  \E l \in Breakpoints(request') :
    l <= k /\ SubSeq(request'.blocks, 1, l) = SubSeq(request.blocks, 1, k)
Filed == \A k \in DOMAIN request.blocks :
           IsFile(request.blocks[k]) => request.blocks[k].text[1].version = files
TierHolds(i) ==
  LET align == Pow(conf.stride, Tiers(conf) - i + 1)
  IN ImmutableCount(seen) \div align = ImmutableCount(seen') \div align

\* Between two turns that only append to the history, a breakpoint stays,
\* with exactly the content that was cached, as long as its tier has not
\* advanced: cache_splits moves a tier in batches.
CacheHolds ==
  [][ request # NoRequest /\ conf.stride > 0 /\ Undisturbed /\ Filed
      => \A i \in 1 .. Tiers(conf) : \A k \in Breakpoints(request) :
           TierHolds(i)
           /\ EntryCount(TextUpTo(request, k))
                <= CacheSplits(seen, conf.stride, Tiers(conf))[i]
           => Kept(k) ]_<<request, seen>>

Gone == {k \in DOMAIN hist : \A l \in DOMAIN hist' : hist'[l].id # hist[k].id}

\* What has aged out of the modification window stays as it is in the next
\* history, but for the entries that removing others brings back into the window.
FrozenStays ==
  LET frozen == Monus(ImmutableCount(hist), Cardinality(Gone))
  IN IsPrefix(SubSeq(hist, 1, frozen), hist')

\* However the scripts of many turns chain their edits, what has aged out of the
\* modification window changes only while a compaction is active: no edit of an
\* inactive turn reaches it, and neither does a script that raised.
FrozenPrefixKept == [][active \/ FrozenStays]_hist
=============================================================================
