---------------------------- MODULE LiveCapture ----------------------------
(***************************************************************************)
(* serve: sweep the first pages of a rolling feed, dedupe what they hold,  *)
(* append what is new to a file, hand it to the stream best effort, keep   *)
(* what would not validate beside it, and sweep again.                     *)
(*                                                                         *)
(* Feed items are numbered as they are published and served newest first.  *)
(* A page's ETag is its content: asked with the tag of what it still is,   *)
(* the server answers 304 and sends nothing.                               *)
(***************************************************************************)
EXTENDS DedupWindow, SequencesExt

CONSTANTS
    Redacted,    \* the items that do not validate
    Pages,       \* pages of a sweep
    PerPage,     \* items on a page
    SeenWindow,  \* seen_window
    MaxItems, MaxCuts, MaxEnds  \* bounds of the model

ASSUME CaptureAssumption ==
    /\ Pages \in Nat \ {0} /\ PerPage \in Nat \ {0} /\ SeenWindow \in Nat \ {0}
    /\ MaxItems \in Nat /\ MaxCuts \in Nat /\ MaxEnds \in Nat
    /\ Redacted \subseteq 1..MaxItems

VARIABLES
    published,  \* the newest item
    phase,      \* where the loop stands
    stop,       \* the stop event
    page,       \* the page to read next
    batch,      \* valid items of the sweep, as read
    bad,        \* the others
    etags,      \* each page's tag, as the client holds it
    seen,       \* the dedup window
    fresh,      \* events to write, then to stream
    captured,   \* events on a line of their own in the file
    garbled,    \* events on a line another write was cut short in
    torn,       \* does the file end inside a line?
    rejects,    \* the file of items that did not validate
    topic,      \* events the stream received
    dropped,    \* items this run read in a sweep that was throttled (observer)
    cuts,       \* writes cut short
    ends        \* runs told to stop, or ended between two effects

feed  == << published, dropped >>
sweep == << page, batch, bad >>
run   == << stop, etags, seen, fresh, ends >>
file  == << captured, garbled, torn, cuts >>
vars  == << published, phase, stop, page, batch, bad, etags, seen, fresh,
            captured, garbled, torn, rejects, topic, dropped, cuts, ends >>

Items == 1..MaxItems
NoTag == << 0 >>

\* The k-th page, newest item first; it may be short, or empty.
PageNow(k) ==
    LET newest == published - (k - 1) * PerPage
        length == IF newest < 0 THEN 0 ELSE IF newest < PerPage THEN newest ELSE PerPage
    IN  [i \in 1..length |-> newest - i + 1]

CaptureTypeOK ==
    /\ published \in 0..MaxItems
    /\ phase \in {"down", "top", "sweeping", "sinking", "streaming", "rejecting"}
    /\ stop \in BOOLEAN /\ page \in 1..Pages
    /\ batch \in Seq(Items \ Redacted) /\ bad \subseteq Redacted
    /\ etags \in [1..Pages -> Seq(Items) \cup {NoTag}]
    /\ seen \in Seq(Items \ Redacted) /\ Len(seen) <= SeenWindow
    /\ fresh \in Seq(Items \ Redacted) /\ IsInjective(fresh)
    /\ captured \subseteq Items \ Redacted /\ garbled \subseteq Items \ Redacted
    /\ torn \in BOOLEAN /\ rejects \subseteq Redacted
    /\ topic \subseteq Items \ Redacted /\ dropped \subseteq Items
    /\ cuts \in 0..MaxCuts /\ ends \in 0..MaxEnds

Init ==
    /\ published = 0
    /\ phase = "down" /\ stop = FALSE /\ page = 1 /\ batch = << >> /\ bad = {}
    /\ etags = [k \in 1..Pages |-> NoTag] /\ seen = << >> /\ fresh = << >>
    /\ captured = {} /\ garbled = {} /\ torn = FALSE
    /\ rejects = {} /\ topic = {} /\ dropped = {} /\ cuts = 0 /\ ends = 0

----------------------------------------------------------------------------
Publish ==
    /\ published < MaxItems
    /\ published' = published + 1
    /\ UNCHANGED << dropped, phase, sweep, run, file, rejects, topic >>

\* SIGINT or SIGTERM, at any moment of a run.
Signal ==
    /\ phase # "down" /\ ~stop /\ ends < MaxEnds
    /\ stop' = TRUE /\ ends' = ends + 1
    /\ UNCHANGED << feed, phase, sweep, etags, seen, fresh, file, rejects, topic >>

\* A run begins with an empty window and a client that holds no tag.
Start ==
    /\ phase = "down"
    /\ phase' = "top"
    /\ UNCHANGED << feed, sweep, run, file, rejects, topic >>

\* The process is gone: killed, ended by an error nothing catches, or stopped.
Gone ==
    /\ phase' = "down" /\ stop' = FALSE /\ page' = 1
    /\ batch' = << >> /\ bad' = {}
    /\ etags' = [k \in 1..Pages |-> NoTag]
    /\ seen' = << >> /\ fresh' = << >>
    /\ dropped' = {} /\ UNCHANGED published

Die ==
    /\ phase # "down" /\ ends < MaxEnds
    /\ Gone
    /\ ends' = ends + 1
    /\ UNCHANGED << file, rejects, topic >>

Leave ==
    /\ phase = "top" /\ stop
    /\ Gone
    /\ UNCHANGED << ends, file, rejects, topic >>

StartCycle ==
    /\ phase = "top" /\ ~stop
    /\ phase' = "sweeping"
    /\ UNCHANGED << feed, sweep, run, file, rejects, topic >>

\* [event for event in events if seen.add(event.id)]
Admitted(events) ==
    LET after[i \in 0..Len(events)] ==
            IF i = 0 THEN [seen |-> seen, fresh |-> << >>]
            ELSE LET before == after[i - 1]
                     e == events[i]
                 IN  IF Holds(before.seen, e) THEN before
                     ELSE [seen  |-> Remember(before.seen, e, SeenWindow),
                           fresh |-> Append(before.fresh, e)]
    IN  after[Len(events)]

\* Mutant of Deduped: the pages of a sweep are not compared.
DedupedNot(events) == events

\* The elements of s at the positions ps, in order.
At(s, ps) ==
    LET upto[i \in 0..Len(s)] ==
            IF i = 0 THEN << >>
            ELSE IF i \in ps THEN Append(upto[i - 1], s[i]) ELSE upto[i - 1]
    IN  upto[Len(s)]

\* dedupe: the first occurrence of each id, in order.
Deduped(events) ==
    At(events, { i \in 1..Len(events) : \A j \in 1..(i - 1) : events[j] # events[i] })

Rejecting(items) == IF items # {} THEN "rejecting" ELSE "top"

\* Mutant of Swept: what does not validate is skipped.
SweptSkipping(read, unreadable) ==
    \E admitted \in {Admitted(Deduped(read))} :
    /\ seen' = admitted.seen /\ fresh' = admitted.fresh
    /\ page' = 1 /\ batch' = << >> /\ bad' = {}
    /\ phase' = IF admitted.fresh # << >> THEN "sinking" ELSE "top"

\* The sweep is complete: what is new goes to the sinks, the rest of what was
\* read to the rejects.
Swept(read, unreadable) ==
    \E admitted \in {Admitted(Deduped(read))} :
    /\ seen' = admitted.seen /\ fresh' = admitted.fresh
    /\ page' = 1 /\ batch' = << >> /\ bad' = unreadable
    /\ phase' = IF admitted.fresh # << >> THEN "sinking" ELSE Rejecting(unreadable)

\* get_json: nothing, if the page is what it was when its tag was read.
Answer == IF etags[page] = PageNow(page) THEN << >> ELSE PageNow(page)

\* parse_page splits a page into what validates and what does not.
Valid(items)   == At(items, { i \in 1..Len(items) : items[i] \notin Redacted })
Invalid(items) == ToSet(items) \cap Redacted

\* poll_once, one page of it.
Read ==
    /\ phase = "sweeping"
    /\ \E read \in {batch \o Valid(Answer)}, unreadable \in {bad \cup Invalid(Answer)} :
          IF page = Pages THEN Swept(read, unreadable)
          ELSE /\ page' = page + 1 /\ batch' = read /\ bad' = unreadable
               /\ UNCHANGED << phase, seen, fresh >>
    /\ etags' = [etags EXCEPT ![page] = PageNow(page)]
    /\ UNCHANGED << feed, stop, ends, file, rejects, topic >>

\* RateLimitedError unwinds the sweep, and what it had read is nowhere.  The
\* client, and the tags it holds, outlive it.
RateLimited ==
    /\ phase = "sweeping"
    /\ phase' = "top" /\ page' = 1 /\ batch' = << >> /\ bad' = {}
    /\ dropped' = dropped \cup ToSet(batch) \cup bad
    /\ UNCHANGED << published, run, file, rejects, topic >>

----------------------------------------------------------------------------
\* The lines of a write that reached the file, the first of them perhaps
\* against a fragment.
Appended(lines) ==
    LET spoiled == IF torn /\ lines # << >> THEN {Head(lines)} ELSE {}
    IN  /\ captured' = captured \cup (ToSet(lines) \ spoiled)
        /\ garbled' = garbled \cup spoiled

\* HourlyNdjsonSink: every line, in order.
Sink ==
    /\ phase = "sinking"
    /\ Appended(fresh) /\ torn' = FALSE
    /\ phase' = "streaming"
    /\ UNCHANGED << feed, sweep, run, rejects, topic, cuts >>

\* Mutant of SinkCutShort: the stream has the batch before the file does.
SinkCutShortStreamed ==
    /\ phase = "sinking" /\ cuts < MaxCuts
    /\ \E n \in 0..(Len(fresh) - 1), fragment \in BOOLEAN :
          /\ n > 0 \/ fragment
          /\ Appended(SubSeq(fresh, 1, n))
          /\ torn' = fragment
    /\ topic' = topic \cup ToSet(fresh)
    /\ Gone
    /\ cuts' = cuts + 1
    /\ UNCHANGED << ends, rejects >>

\* Mutant of SinkCutShort: the run goes on after a write that failed.
SinkCutShortSwallowed ==
    /\ phase = "sinking" /\ cuts < MaxCuts
    /\ \E n \in 0..(Len(fresh) - 1), fragment \in BOOLEAN :
          /\ n > 0 \/ fragment
          /\ Appended(SubSeq(fresh, 1, n))
          /\ torn' = fragment
    /\ phase' = Rejecting(bad) /\ fresh' = << >>
    /\ cuts' = cuts + 1
    /\ UNCHANGED << feed, sweep, stop, etags, seen, ends, rejects, topic >>

\* Killed while it writes, or a full disk: some lines, and perhaps a piece of
\* the next.  The error is fatal either way.
SinkCutShort ==
    /\ phase = "sinking" /\ cuts < MaxCuts
    /\ \E n \in 0..(Len(fresh) - 1), fragment \in BOOLEAN :
          /\ n > 0 \/ fragment
          /\ Appended(SubSeq(fresh, 1, n))
          /\ torn' = fragment
    /\ Gone
    /\ cuts' = cuts + 1
    /\ UNCHANGED << ends, rejects, topic >>

Onward == phase' = Rejecting(bad) /\ fresh' = << >>

\* KafkaSink: every event of the batch is confirmed.
Stream ==
    /\ phase = "streaming"
    /\ topic' = topic \cup ToSet(fresh)
    /\ Onward
    /\ UNCHANGED << feed, stop, sweep, etags, seen, ends, file, rejects >>

\* TeeSink: a stream that fails is counted and forgotten, with whatever part of
\* the batch it took.
StreamDrops ==
    /\ phase = "streaming"
    /\ \E taken \in SUBSET ToSet(fresh) : topic' = topic \cup taken
    /\ Onward
    /\ UNCHANGED << feed, stop, sweep, etags, seen, ends, file, rejects >>

\* write_rejects
Reject ==
    /\ phase = "rejecting"
    /\ rejects' = rejects \cup bad
    /\ bad' = {} /\ phase' = "top"
    /\ UNCHANGED << feed, page, batch, run, file, topic >>

Step ==
    \/ Leave \/ StartCycle \/ Read \/ RateLimited
    \/ Sink \/ SinkCutShort \/ Stream \/ StreamDrops \/ Reject

Next == Publish \/ Signal \/ Start \/ Die \/ Step

Spec == Init /\ [][Next]_vars

\* The feed moves on, a supervisor restarts serve, the loop takes its steps, and
\* a page asked for again and again is not throttled every time.
Fairness ==
    /\ WF_vars(Publish) /\ WF_vars(Start) /\ WF_vars(Step)
    /\ \A k \in 1..Pages : SF_vars(Read /\ page = k)

FairSpec == Spec /\ Fairness

----------------------------------------------------------------------------
(***************************************************************************)
(* Properties                                                              *)
(***************************************************************************)

\* What the file and the rejects hold, legibly or not.
Written == captured \cup garbled \cup rejects
InHand  == ToSet(batch) \cup bad \cup ToSet(fresh)

\* A tag tells the server what need not be sent again, so what it stands for has
\* been written or is on its way there: a page is answered 304 only to a client
\* that has done with it, or whose present run lost it to a sweep throttled on a
\* later page.
TagMeansKept ==
    \A k \in 1..Pages :
        etags[k] # NoTag => ToSet(etags[k]) \subseteq Written \cup InHand \cup dropped

\* What the stream carries is in the file, but for one event per write cut
\* short: the one appended to the fragment that write left.
EachCutCostsOneEvent == Cardinality(topic \ captured) <= cuts

\* The items on the pages of a sweep when the feed has come to rest, which are
\* neither on a line of their own in the file nor kept as rejects, and which the
\* present run did not lose to throttling.
Resting == { i \in Items : i > MaxItems - Pages * PerPage }
Unkept  == Resting \ (captured \cup rejects \cup dropped)

\* In the end nothing is lost of what the feed comes to rest on, whatever was
\* killed, cut short, throttled or restarted, but what the present run read in a
\* throttled sweep, and one event per write cut short: the one that stands, out
\* of any reader's reach, behind the fragment that write left.
LossIsAccounted ==
    (published = MaxItems) ~> (Unkept \subseteq garbled /\ Cardinality(Unkept) <= cuts)
=============================================================================
