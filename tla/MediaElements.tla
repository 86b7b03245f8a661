--------------------------- MODULE MediaElements ----------------------------
(***************************************************************************)
(* Media elements, media sources and their buffers                         *)
(* (crates/syljs/src/media.rs, ResearchMediaHost).                         *)
(*                                                                         *)
(* An element does not look into its source: it keeps a copy of the        *)
(* ranges and the duration, which refresh_element_buffers renews.  Times   *)
(* count quarter seconds, the least length a segment gets.  Left out, as   *)
(* nothing in the host reads it: volume, muting, the current time, the     *)
(* network state, the size of the picture, events and their listeners.     *)
(***************************************************************************)
EXTENDS Naturals, Sequences, FiniteSets, FiniteSetsExt, SequencesExt, Collections

CONSTANTS
  MaxElements,      \* bound: media elements
  MaxSources,       \* bound: media sources
  MaxSourceBuffers, \* bound: source buffers
  MaxSegments,      \* bound: ranges in one source buffer
  SegmentLengths,   \* lengths of the segments scripts append
  PlainLength       \* what a file that is not a media source is taken to last (60 s)

ASSUME MediaAssumption ==
  /\ MaxElements \in Nat /\ MaxSources \in Nat /\ MaxSourceBuffers \in Nat /\ MaxSegments \in Nat
  /\ SegmentLengths \subseteq Nat \ {0} /\ PlainLength \in Nat \ {0}

VARIABLES
  elements,     \* the media elements, by id
  sources,      \* the media sources, by id
  buffers,      \* the source buffers, by id
  objectUrls    \* the media sources that have an object URL

mediaVars == <<elements, sources, buffers, objectUrls>>

NoSource == 0
ReadyStates == {"HaveNothing", "HaveMetadata", "HaveCurrentData", "HaveEnoughData"}
BufferedRange == [start: Nat, end: Nat]

MediaElement == [source: 0 .. MaxSources, hasSrc: BOOLEAN, paused: BOOLEAN,
                 ready: ReadyStates, buffered: Seq(BufferedRange), duration: Nat]
MediaSource == [state: {"open", "ended"}, duration: Nat, sourceBuffers: Seq(1 .. MaxSourceBuffers)]
SourceBuffer == [source: 1 .. MaxSources, buffered: Seq(BufferedRange)]

NewElement == [source |-> NoSource, hasSrc |-> FALSE, paused |-> TRUE,
               ready |-> "HaveNothing", buffered |-> <<>>, duration |-> 0]

LatestEnd(ranges) == Max({0} \cup {ranges[i].end : i \in DOMAIN ranges})

(* The ranges of a source: those of its buffers, one after the other. *)
RangesOf(source, bufs) ==
  FlattenSeq([i \in DOMAIN source.sourceBuffers |-> bufs[source.sourceBuffers[i]].buffered])

(* What an element attached to a source reports once it is refreshed. *)
Mirror(element, ranges) ==
  [element EXCEPT !.buffered = ranges, !.duration = LatestEnd(ranges),
                  !.ready = IF ranges = <<>> THEN @ ELSE "HaveEnoughData"]

(* refresh_element_buffers: every element of source s. *)
RefreshElements(els, s, bufs) ==
  [e \in DOMAIN els |-> IF els[e].source = s THEN Mirror(els[e], RangesOf(sources[s], bufs))
                        ELSE els[e]]

-----------------------------------------------------------------------------
MediaInit == elements = <<>> /\ sources = <<>> /\ buffers = <<>> /\ objectUrls = {}

CreateMediaElement ==
  /\ Len(elements) < MaxElements
  /\ elements' = Append(elements, NewElement)
  /\ UNCHANGED <<sources, buffers, objectUrls>>

CreateMediaSource ==
  /\ Len(sources) < MaxSources
  /\ sources' = Append(sources, [state |-> "open", duration |-> 0, sourceBuffers |-> <<>>])
  /\ UNCHANGED <<elements, buffers, objectUrls>>

CreateObjectUrl(s) ==
  /\ s \notin objectUrls
  /\ objectUrls' = objectUrls \cup {s}
  /\ UNCHANGED <<elements, sources, buffers>>

(* An element that was attached by the URL stays attached. *)
RevokeObjectUrl(s) ==
  /\ s \in objectUrls
  /\ objectUrls' = objectUrls \ {s}
  /\ UNCHANGED <<elements, sources, buffers>>

(* element.src = url, an object URL: the source is open again, and the     *)
(* element takes over what its buffers hold.                               *)
SetSrcToSource(e, s) ==
  /\ s \in objectUrls
  /\ elements' =
       RefreshElements([elements EXCEPT ![e].source = s, ![e].hasSrc = TRUE,
                                        ![e].duration = 0, ![e].ready = "HaveMetadata"], s, buffers)
  /\ sources' = [sources EXCEPT ![s].state = "open"]
  /\ UNCHANGED <<buffers, objectUrls>>

(* Mutant of PlainSrc: the element stays attached to its source. *)
PlainSrcKeepsSource(element, given) ==
  [element EXCEPT !.hasSrc = given, !.ready = "HaveCurrentData", !.duration = PlainLength,
                  !.buffered = << [start |-> 0, end |-> PlainLength] >>]

(* Any other URL, one that was revoked too: a file of a fixed length. *)
PlainSrc(element, given) ==
  [element EXCEPT !.source = NoSource, !.hasSrc = given, !.ready = "HaveCurrentData",
                  !.duration = PlainLength,
                  !.buffered = << [start |-> 0, end |-> PlainLength] >>]

(* element.src = url, given telling whether the text is other than empty. *)
SetPlainSrc(e, given) ==
  /\ elements' = [elements EXCEPT ![e] = PlainSrc(@, given)]
  /\ UNCHANGED <<sources, buffers, objectUrls>>

(* element.load() sets the ready state back whatever is buffered. *)
Load(e) ==
  /\ elements' = [elements EXCEPT
       ![e].ready = IF elements[e].hasSrc THEN "HaveMetadata" ELSE "HaveNothing"]
  /\ UNCHANGED <<sources, buffers, objectUrls>>

Play(e) ==
  /\ elements' = [elements EXCEPT
       ![e].paused = FALSE,
       ![e].ready = IF @ = "HaveNothing" THEN "HaveCurrentData" ELSE @]
  /\ UNCHANGED <<sources, buffers, objectUrls>>

Pause(e) ==
  /\ elements' = [elements EXCEPT ![e].paused = TRUE]
  /\ UNCHANGED <<sources, buffers, objectUrls>>

AddSourceBuffer(s) ==
  /\ Len(buffers) < MaxSourceBuffers
  /\ buffers' = Append(buffers, [source |-> s, buffered |-> <<>>])
  /\ sources' = [sources EXCEPT ![s].sourceBuffers = Append(@, Len(buffers) + 1),
                                ![s].state = "open"]
  /\ UNCHANGED <<elements, objectUrls>>

(* A segment starts where the last range of its buffer ends. *)
NextSegment(buffer, length) ==
  LET start == IF buffer.buffered = <<>> THEN 0 ELSE Last(buffer.buffered).end
  IN  [start |-> start, end |-> start + length]

(* buffer.appendBuffer(data): the source's duration is computed anew over  *)
(* all its buffers; the update is over when the call returns.              *)
AppendBuffer(b, length) ==
  LET s == buffers[b].source
      after == [buffers EXCEPT ![b].buffered = Append(@, NextSegment(buffers[b], length))] IN
  /\ Len(buffers[b].buffered) < MaxSegments
  /\ buffers' = after
  /\ sources' = [sources EXCEPT ![s].duration = LatestEnd(RangesOf(sources[s], after))]
  /\ elements' = RefreshElements(elements, s, after)
  /\ UNCHANGED objectUrls

(* The ranges that do not overlap [start, end) survive, whole. *)
Kept(ranges, start, end) ==
  Picked(ranges, {i \in 1 .. Len(ranges) : ranges[i].end <= start \/ ranges[i].start >= end})

(* buffer.remove(start, end): the elements are refreshed, the duration of  *)
(* the source is not.                                                      *)
RemoveBuffer(b, start, end) ==
  LET after == [buffers EXCEPT ![b].buffered = Kept(@, start, end)] IN
  /\ buffers' = after
  /\ elements' = RefreshElements(elements, buffers[b].source, after)
  /\ UNCHANGED <<sources, objectUrls>>

EndOfStream(s) ==
  /\ sources' = [sources EXCEPT ![s].state = "ended"]
  /\ UNCHANGED <<elements, buffers, objectUrls>>

MediaTimes == 0 .. MaxSegments * Max(SegmentLengths)

MediaNext ==
  \/ CreateMediaElement
  \/ CreateMediaSource
  \/ \E s \in DOMAIN sources :
       CreateObjectUrl(s) \/ RevokeObjectUrl(s) \/ AddSourceBuffer(s) \/ EndOfStream(s)
  \/ \E e \in DOMAIN elements :
       \/ \E s \in DOMAIN sources : SetSrcToSource(e, s)
       \/ \E given \in BOOLEAN : SetPlainSrc(e, given)
       \/ Load(e) \/ Play(e) \/ Pause(e)
  \/ \E b \in DOMAIN buffers :
       \/ \E length \in SegmentLengths : AppendBuffer(b, length)
       \/ \E start, end \in MediaTimes : start <= end /\ RemoveBuffer(b, start, end)

MediaSpec == MediaInit /\ [][MediaNext]_mediaVars

-----------------------------------------------------------------------------
(* Every copy is up to date: an element with a source reports exactly the  *)
(* ranges its source's buffers hold and where they end, an element with a  *)
(* plain file its fixed length, whatever was appended, removed or assigned *)
(* since, and by whichever of the elements that share the source.          *)
ElementsMirror ==
  \A e \in DOMAIN elements :
    LET element == elements[e] IN
    IF element.source # NoSource
    THEN LET ranges == RangesOf(sources[element.source], buffers) IN
         element.buffered = ranges /\ element.duration = LatestEnd(ranges)
    ELSE element.duration \in {0, PlainLength}

(* The ranges of one buffer stay in order and apart whatever is removed    *)
(* between them, and none reaches past the duration of the source, which   *)
(* removal may leave too long but never too short.                         *)
RangesAreInOrder ==
  \A b \in DOMAIN buffers :
    LET ranges == buffers[b].buffered IN
    /\ \A i, j \in DOMAIN ranges : i < j => ranges[i].end <= ranges[j].start
    /\ LatestEnd(ranges) <= sources[buffers[b].source].duration

(* Type invariant. *)
MediaTypeOK ==
  /\ elements \in Seq(MediaElement) /\ sources \in Seq(MediaSource) /\ buffers \in Seq(SourceBuffer)
  /\ objectUrls \subseteq DOMAIN sources

(* What a script reads of any element is what the buffers behind it hold.  *)
ElementsMirrorTheirSource == MediaTypeOK /\ ElementsMirror /\ RangesAreInOrder
=============================================================================
