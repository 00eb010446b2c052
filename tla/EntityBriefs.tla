----------------------------- MODULE EntityBriefs -----------------------------
(***************************************************************************)
(* Entity briefs in the team wiki: bots append facts to an entity's log,   *)
(* and the brief at the entity's article path is rewritten from it by two  *)
(* archivists, the LLM synthesizer (entity_synthesizer.go) and the         *)
(* deterministic article generator (entity_article.go), while people edit  *)
(* the same file in the web editor and in Obsidian.  All writes but the    *)
(* Obsidian watcher's go through the wiki worker's bounded queue           *)
(* (wiki_worker.go); a caller that gives up waiting leaves its write in    *)
(* the queue.                                                              *)
(*                                                                         *)
(* A fact is named by the recorder that posts it.  Of a brief the model    *)
(* keeps what the code reads back (the frontmatter keys and the article    *)
(* sentinel) and which user text stands in it.                             *)
(***************************************************************************)
EXTENDS Naturals, Sequences, FiniteSets

CONSTANTS
  Entities,      \* kind/slug pairs
  Recorders,     \* one fact each: handler goroutines of POST /entity/fact
  EntityOf,      \* the entity a recorder's fact is about
  NoOne,
  Threshold,     \* new facts that trigger a synthesis
  MaxJobs,       \* MaxSynthesisQueue
  MaxRequests,   \* wikiRequestBuffer
  Inputs,        \* what else may happen: "ask", "regen", "obsidian", "web",
                 \* "retry", "llmFails", "gitFails", "readFails", "diskFails"
  MaxInputs,     \* bound on how many of these happen
  MaxGiveUps     \* bound on callers that stop waiting for the wiki worker

ASSUME EntityOfType == EntityOf \in [Recorders -> Entities]
ASSUME NamesDiffer ==
  /\ NoOne \notin Entities \union Recorders \union {"synth", "regen", "editor"}
  /\ Recorders \intersect {"synth", "regen", "editor"} = {}
ASSUME BoundsAreNat ==
  /\ {Threshold, MaxJobs, MaxRequests} \subseteq Nat \ {0}
  /\ {MaxInputs, MaxGiveUps} \subseteq Nat

VARIABLES
  post,       \* recorder -> [pc, again, prior]: its handler
  logLock,    \* FactLog.mu: the recorder that holds it, or NoOne
  log,        \* entity -> the fact log file, see Seen
  filling,    \* the wiki worker is inside os.WriteFile of a fact log
  brief,      \* entity -> the brief file
  ver,        \* entity -> the number of the brief file's last write
  head,       \* entity -> the write the brief's last commit holds (its SHA)
  armed,      \* entities whose watcher debounce timer runs
  watch,      \* entity -> the watcher's fire, once the timer has expired
  requests,   \* the wiki worker's queue
  jobs,       \* the synthesis queue
  queued, inflight,  \* the synthesizer's two maps, as sets of entities
  followups,  \* entity -> follow-up goroutines that have not enqueued yet
  synth,      \* the synthesis worker: its step, job and what it has read
  regen,      \* entity -> the article generator, likewise
  save,       \* the web editor, likewise
  spent,      \* how many inputs there were, and callers that stopped waiting
  \* history, read by properties only
  confirmed,  \* facts whose own write was answered with success
  owed,       \* entities with an accepted synthesis request neither begun nor
              \* lost by its last follow-up
  excused,    \* entities whose brief may rest behind its log, see BriefsRest
  cut         \* entities whose log an append read short or a write left short

files == <<log, filling, brief, ver, head, armed>>
queue == <<jobs, queued, inflight, followups>>
history == <<confirmed, owed, excused, cut>>
vars == <<post, logLock, files, watch, requests, queue, synth, regen,
          save, spent, history>>

\* had: the file exists; front: it has a frontmatter block; count:
\* fact_count_at_synthesis; newer: last_human_edit_ts > last_synthesized_ts;
\* form: a plain body, a generated article, or a body with the managed block;
\* text: the user text in it, and prose: whether that stands between an
\* article's prose sentinels.
NoBrief == [had |-> FALSE, front |-> FALSE, count |-> 0, newer |-> FALSE,
            form |-> "plain", text |-> 0, prose |-> FALSE]

\* A task that reads a brief and writes it back: its step, the entity, the file
\* as read, which write that was, its commit, and the facts it listed.
Idle == [pc |-> "idle", e |-> NoOne, read |-> NoBrief, seen |-> 0, sha |-> 0,
         facts |-> <<>>]

FactsIn(lines) == {lines[i] : i \in DOMAIN lines}

\* Newness is a matter of numbers: the facts beyond the brief's count.
NewCount(total, prior) == IF total > prior THEN total - prior ELSE 0

(***************************************************************************)
(* The wiki worker.  A request is a whole-file write by a caller that      *)
(* waits for its reply (from), to an entity's log or brief or, for a save  *)
(* of the web editor, an "edit" of the brief with the SHA it expects;      *)
(* Enqueue refuses when the queue is full.                                 *)
(***************************************************************************)
Input(kind) ==
  /\ kind \in Inputs /\ spent.inputs < MaxInputs
  /\ spent' = [spent EXCEPT !.inputs = @ + 1]

\* A fact log is read outside the repository's mutex while os.WriteFile
\* truncates and refills it, so that a reader may find any part of what the
\* write under way (log[e] already) puts there; half a line is no fact.
Prefixes(lines) == {SubSeq(lines, 1, n) : n \in 0 .. Len(lines)}
Seen(e) ==
  IF filling /\ Head(requests).e = e THEN Prefixes(log[e]) ELSE {log[e]}

Saturated == Len(requests) >= MaxRequests
Request(to, e, body, from, seen, sha) ==
  requests' = Append(requests, [to |-> to, e |-> e, body |-> body,
                                from |-> from, seen |-> seen, sha |-> sha])

\* A caller stops waiting: wikiWriteTimeout, or its context is cancelled.
GiveUp(from, e) ==
  /\ spent.giveUps < MaxGiveUps
  /\ spent' = [spent EXCEPT !.giveUps = @ + 1]
  /\ requests' = [i \in DOMAIN requests |->
       IF requests[i].from = from /\ requests[i].e = e
       THEN [requests[i] EXCEPT !.from = NoOne] ELSE requests[i]]

(***************************************************************************)
(* EnqueueSynthesis, under the synthesizer's mutex: coalesce with a queued *)
(* job, mark a follow-up while one runs, else send unless the channel is   *)
(* full.  lost: the earlier request that goes down with this call.         *)
(***************************************************************************)
HasRoomForOneMore == Len(jobs) <= MaxJobs   \* mutant of HasRoom
HasRoom == Len(jobs) < MaxJobs
CoalescesRunning(e) == e \in inflight       \* mutant of Coalesces
Coalesces(e) == e \in queued \union inflight

EnqueueSynthesis(e, lost) ==
  /\ \/ /\ Coalesces(e) \/ HasRoom
        /\ jobs' = IF Coalesces(e) THEN jobs ELSE Append(jobs, e)
        /\ queued' = queued \union {e}
        /\ owed' = owed \union {e}
        /\ UNCHANGED excused
     \/ /\ ~Coalesces(e) /\ ~HasRoom
        /\ excused' = excused \union {e}
        /\ owed' = owed \ lost
        /\ UNCHANGED <<jobs, queued>>
  /\ UNCHANGED <<inflight, confirmed, cut>>

Init ==
  /\ post = [r \in Recorders |-> [pc |-> "idle", again |-> FALSE, prior |-> 0]]
  /\ logLock = NoOne
  /\ log = [e \in Entities |-> <<>>] /\ filling = FALSE
  /\ brief = [e \in Entities |-> NoBrief]
  /\ ver = [e \in Entities |-> 0]
  /\ head = [e \in Entities |-> 0]
  /\ armed = {}
  /\ watch = [e \in Entities |-> Idle]
  /\ requests = <<>>
  /\ jobs = <<>> /\ queued = {} /\ inflight = {}
  /\ followups = [e \in Entities |-> 0]
  /\ synth = Idle
  /\ regen = [e \in Entities |-> Idle]
  /\ save = Idle
  /\ spent = [inputs |-> 0, giveUps |-> 0]
  /\ confirmed = {} /\ owed = {} /\ excused = {} /\ cut = {}

-----------------------------------------------------------------------------
(***************************************************************************)
(* POST /entity/fact: FactLog.Append, then the threshold check.            *)
(***************************************************************************)

\* A client may post a fact again that it was told has failed.
PostFact(r) ==
  /\ post[r].pc = "idle"
  /\ IF post[r].again THEN Input("retry") ELSE UNCHANGED spent
  /\ post' = [post EXCEPT ![r] = [pc |-> "lock", again |-> TRUE, prior |-> 0]]
  /\ UNCHANGED <<logLock, files, watch, requests, queue, synth, regen, save,
                 history>>

\* The file as it was read is enqueued with one more line, and the log's mutex
\* stays held until the reply.
EnqueueReleased(r, seen) ==   \* mutant of EnqueueEntityFact: read and unlock
  /\ Request("log", EntityOf[r], Append(seen, r), r, 0, 0)
  /\ post' = [post EXCEPT ![r].pc = "waiting"]
  /\ UNCHANGED logLock
EnqueueEntityFact(r, seen) ==
  /\ Request("log", EntityOf[r], Append(seen, r), r, 0, 0)
  /\ post' = [post EXCEPT ![r].pc = "waiting"]
  /\ logLock' = r

\* readExistingLocked: an error of any kind reads as an empty file.
ReadExisting(e, seen) ==
  \/ seen \in Seen(e) /\ UNCHANGED spent
  \/ seen = <<>> /\ Input("readFails")

\* Under the mutex, a fact already in the file is returned as it stands.
AppendFact(r) ==
  LET e == EntityOf[r] IN
  /\ post[r].pc = "lock" /\ logLock = NoOne
  /\ \E seen \in Prefixes(log[e]) :
       /\ ReadExisting(e, seen)
       /\ \/ /\ r \in FactsIn(seen)
             /\ post' = [post EXCEPT ![r].pc = "brief"]
             /\ UNCHANGED <<logLock, requests, cut>>
          \/ /\ r \notin FactsIn(seen) /\ Saturated
             /\ post' = [post EXCEPT ![r].pc = "idle"]
             /\ UNCHANGED <<logLock, requests, cut>>
          \/ /\ r \notin FactsIn(seen) /\ ~Saturated
             /\ EnqueueEntityFact(r, seen)
             /\ cut' = IF seen = log[e] THEN cut ELSE cut \union {e}
  /\ UNCHANGED <<files, watch, queue, synth, regen, save, confirmed, owed,
                 excused>>

AppendGivesUp(r) ==
  /\ post[r].pc = "waiting"
  /\ GiveUp(r, EntityOf[r])
  /\ logLock' = NoOne
  /\ post' = [post EXCEPT ![r].pc = "idle"]
  /\ UNCHANGED <<files, watch, queue, synth, regen, save, history>>

ReadPriorCount(r) ==
  /\ post[r].pc = "brief"
  /\ post' = [post EXCEPT ![r].pc = "list", ![r].prior = brief[EntityOf[r]].count]
  /\ UNCHANGED <<logLock, files, watch, requests, queue, synth, regen,
                 save, spent, history>>

CrossedLate(r, total) ==       \* mutant of ThresholdCrossed
  NewCount(total, post[r].prior) > Threshold
ThresholdCrossed(r, total) == NewCount(total, post[r].prior) >= Threshold

\* The handler ignores List's error; after one there are too few facts, or none.
CheckThreshold(r) ==
  LET e == EntityOf[r] IN
  /\ post[r].pc = "list"
  /\ \E lines \in Prefixes(log[e]) :
       /\ \/ lines \in Seen(e) /\ UNCHANGED <<excused, spent>>
          \/ Input("readFails") /\ excused' = excused \union {e}
       /\ post' = [post EXCEPT ![r].pc =
            IF ThresholdCrossed(r, Len(lines)) THEN "trigger" ELSE "done"]
  /\ UNCHANGED <<logLock, files, watch, requests, queue, synth, regen,
                 save, confirmed, owed, cut>>

TriggerSynthesis(r) ==
  /\ post[r].pc = "trigger"
  /\ post' = [post EXCEPT ![r].pc = "done"]
  /\ EnqueueSynthesis(EntityOf[r], {})
  /\ UNCHANGED <<logLock, files, watch, requests, followups, synth,
                 regen, save, spent>>

\* POST /entity/brief/synthesize.
AskSynthesis(e) ==
  /\ Input("ask")
  /\ EnqueueSynthesis(e, {})
  /\ UNCHANGED <<post, logLock, files, watch, requests, followups,
                 synth, regen, save>>

-----------------------------------------------------------------------------
(***************************************************************************)
(* The synthesis worker: drain, runJob and synthesize.                     *)
(***************************************************************************)
Receive ==
  /\ synth.pc = "idle" /\ jobs # <<>>
  /\ synth' = [Idle EXCEPT !.pc = "received", !.e = Head(jobs)]
  /\ jobs' = Tail(jobs)
  /\ UNCHANGED <<post, logLock, files, watch, requests, queued, inflight,
                 followups, regen, save, spent, history>>

BeginRun ==
  /\ synth.pc = "received"
  /\ synth' = [synth EXCEPT !.pc = "brief"]
  /\ inflight' = inflight \union {synth.e}
  /\ queued' = queued \ {synth.e}
  /\ owed' = owed \ {synth.e}
  /\ excused' = excused \ {synth.e}
  /\ UNCHANGED <<post, logLock, files, watch, requests, jobs, followups,
                 regen, save, spent, confirmed, cut>>

SynthReadBrief ==
  /\ synth.pc = "brief"
  /\ synth' = [synth EXCEPT !.pc = "facts", !.read = brief[synth.e],
                            !.seen = ver[synth.e]]
  /\ UNCHANGED <<post, logLock, files, watch, requests, queue, regen,
                 save, spent, history>>

\* A run without new facts, or without any, ends here.
Listed(lines) ==
  [synth EXCEPT !.facts = lines, !.pc =
     IF IF synth.read.had THEN NewCount(Len(lines), synth.read.count) = 0
        ELSE lines = <<>>
     THEN "finish" ELSE "llm"]

\* List fails the run when it cannot open the log, and makes do with the facts
\* it has when it cannot read on.
SynthListFacts ==
  /\ synth.pc = "facts"
  /\ \/ /\ \E lines \in Seen(synth.e) : synth' = Listed(lines)
        /\ UNCHANGED <<excused, spent>>
     \/ /\ Input("readFails")
        /\ synth' \in {[synth EXCEPT !.facts = <<>>, !.pc = "finish"]}
                      \union {Listed(lines) : lines \in Prefixes(log[synth.e])}
        /\ excused' = excused \union {synth.e}
  /\ UNCHANGED <<post, logLock, files, watch, requests, queue, regen,
                 save, confirmed, owed, cut>>

StampedTotal == synth.read.count + Len(synth.facts)   \* mutant of FactCount
FactCount == Len(synth.facts)

\* The body synthesize writes: the model's answer, or, when a person's edit is
\* newer than the last synthesis, the existing body with a learned section.
SynthesizedBody ==
  LET old == synth.read
      kept == old.had /\ old.newer
      body == IF kept THEN old ELSE NoBrief
  IN [body EXCEPT !.had = TRUE, !.front = TRUE, !.newer = FALSE,
        !.count = FactCount]

\* The LLM call and the hand-over of its answer to the wiki worker.
SynthWrite ==
  /\ synth.pc = "llm"
  /\ \/ /\ (Saturated /\ UNCHANGED spent) \/ Input("llmFails")
        /\ synth' = [synth EXCEPT !.pc = "finish"]
        /\ excused' = excused \union {synth.e}
        /\ UNCHANGED requests
     \/ /\ ~Saturated
        /\ Request("brief", synth.e, SynthesizedBody, "synth", synth.seen, 0)
        /\ synth' = [synth EXCEPT !.pc = "waiting"]
        /\ UNCHANGED <<excused, spent>>
  /\ UNCHANGED <<post, logLock, files, watch, queue, regen, save,
                 confirmed, owed, cut>>

SynthGivesUp ==
  /\ synth.pc = "waiting"
  /\ GiveUp("synth", synth.e)
  /\ synth' = [synth EXCEPT !.pc = "finish"]
  /\ excused' = excused \union {synth.e}
  /\ UNCHANGED <<post, logLock, files, watch, queue, regen, save,
                 confirmed, owed, cut>>

\* runJob's deferred function: both marks are dropped, and a mark set during
\* the run becomes a follow-up goroutine.
NoFollowUp == FALSE                  \* mutant of NeedsFollowUp
NeedsFollowUp == synth.e \in queued

FinishRun ==
  /\ synth.pc = "finish"
  /\ inflight' = inflight \ {synth.e}
  /\ queued' = queued \ {synth.e}
  /\ followups' = IF NeedsFollowUp
                  THEN [followups EXCEPT ![synth.e] = @ + 1] ELSE followups
  /\ synth' = Idle
  /\ UNCHANGED <<post, logLock, files, watch, requests, jobs, regen,
                 save, spent, history>>

\* The follow-up ignores the error of its own EnqueueSynthesis.
\* mutant of FollowUp: it acts only while the run it follows is in flight
FollowUpWhileRunning(e) ==
  /\ followups[e] > 0 /\ e \in inflight
  /\ followups' = [followups EXCEPT ![e] = @ - 1]
  /\ EnqueueSynthesis(e, IF followups[e] = 1 THEN {e} ELSE {})
  /\ UNCHANGED <<post, logLock, files, watch, requests, synth, regen,
                 save, spent>>
FollowUp(e) ==
  /\ followups[e] > 0
  /\ followups' = [followups EXCEPT ![e] = @ - 1]
  /\ EnqueueSynthesis(e, IF followups[e] = 1 THEN {e} ELSE {})
  /\ UNCHANGED <<post, logLock, files, watch, requests, synth, regen,
                 save, spent>>

-----------------------------------------------------------------------------
(***************************************************************************)
(* RegenerateEntityArticle, one at a time per entity.                      *)
(***************************************************************************)
RegenListFacts(e) ==
  /\ regen[e].pc = "idle"
  /\ \E lines \in Prefixes(log[e]) \ {<<>>} :
       /\ \/ lines \in Seen(e) /\ Input("regen")
          \/ Input("readFails")
       /\ regen' = [regen EXCEPT ![e] = [Idle EXCEPT !.pc = "brief", !.facts = lines]]
  /\ UNCHANGED <<post, logLock, files, watch, requests, queue, synth,
                 save, history>>

RegenReadBrief(e) ==
  /\ regen[e].pc = "brief"
  /\ regen' = [regen EXCEPT ![e].pc = "write", ![e].read = brief[e],
                            ![e].seen = ver[e]]
  /\ UNCHANGED <<post, logLock, files, watch, requests, queue, synth,
                 save, spent, history>>

\* A body a person has edited is kept and the article goes into its managed
\* block, also when the stamp has since overtaken the edit; of any other body
\* the article keeps the prose: all of a plain one, the marked part of an
\* article.
ArticleBody(e) ==
  LET old == regen[e].read
      kept == old.had /\ (old.newer \/ old.form = "block")
      folds == old.form = "plain" \/ old.prose
      body == IF kept THEN [old EXCEPT !.form = "block"]
              ELSE [NoBrief EXCEPT !.form = "article",
                      !.text = IF folds THEN old.text ELSE 0,
                      !.prose = folds /\ old.text # 0]
  IN [body EXCEPT !.had = TRUE, !.front = TRUE, !.newer = FALSE,
        !.count = Len(regen[e].facts)]

RegenWrite(e) ==
  /\ regen[e].pc = "write"
  /\ \/ /\ Saturated
        /\ regen' = [regen EXCEPT ![e] = Idle]
        /\ UNCHANGED requests
     \/ /\ ~Saturated
        /\ Request("brief", e, ArticleBody(e), "regen", regen[e].seen, 0)
        /\ regen' = [regen EXCEPT ![e] = [Idle EXCEPT !.pc = "waiting"]]
  /\ UNCHANGED <<post, logLock, files, watch, queue, synth, save, spent,
                 history>>

RegenGivesUp(e) ==
  /\ regen[e].pc = "waiting"
  /\ GiveUp("regen", e)
  /\ regen' = [regen EXCEPT ![e] = Idle]
  /\ UNCHANGED <<post, logLock, files, watch, queue, synth, save, history>>

-----------------------------------------------------------------------------
(***************************************************************************)
(* People: an edit in Obsidian changes the file behind the repository's    *)
(* back; the watcher commits it after the debounce, past the queue.        *)
(***************************************************************************)

\* A person's new text; in an article it may be typed into the prose.
Edited(body) ==
  {[body EXCEPT !.had = TRUE, !.text = spent.inputs + 1, !.prose = p] :
     p \in IF body.form = "article" THEN BOOLEAN ELSE {FALSE}}

ObsidianEdit(e) ==
  /\ Input("obsidian")
  /\ \E body \in Edited(brief[e]) : brief' = [brief EXCEPT ![e] = body]
  /\ ver' = [ver EXCEPT ![e] = @ + 1]
  /\ armed' = armed \union {e}
  /\ UNCHANGED <<post, logLock, log, filling, head, watch, requests, queue,
                 synth, regen, save, history>>

WatcherRead(e) ==
  /\ e \in armed /\ watch[e].pc = "idle"
  /\ armed' = armed \ {e}
  /\ watch' = [watch EXCEPT ![e] = [Idle EXCEPT !.pc = "check",
                                       !.read = brief[e], !.seen = ver[e]]]
  /\ UNCHANGED <<post, logLock, log, filling, brief, ver, head, requests,
                 queue, synth, regen, save, spent, history>>

\* The echo guard: a file that equals HEAD is nobody's edit.
WatcherCheck(e) ==
  /\ watch[e].pc = "check"
  /\ watch' = [watch EXCEPT ![e] =
       IF head[e] = ver[e] THEN Idle ELSE [@ EXCEPT !.pc = "commit"]]
  /\ UNCHANGED <<post, logLock, files, requests, queue, synth, regen,
                 save, spent, history>>

(***************************************************************************)
(* A write of a brief and its commit, under the repository's mutex.  When  *)
(* git fails the file is written and HEAD is not.  A writer that had read  *)
(* an older file puts back its count.                                      *)
(***************************************************************************)
GitResult(ok) == IF ok THEN UNCHANGED spent ELSE Input("gitFails")
Commit(e, body, ok) ==
  /\ GitResult(ok)
  /\ brief' = [brief EXCEPT ![e] = body]
  /\ ver' = [ver EXCEPT ![e] = @ + 1]
  /\ head' = IF ok THEN [head EXCEPT ![e] = ver[e] + 1] ELSE head
  /\ armed' = armed \union {e}
  /\ UNCHANGED <<log, filling>>
Undoes(e, body) == IF body.count < brief[e].count THEN {e} ELSE {}

\* The file as read is stamped and committed; only frontmatter can hold a stamp.
WatcherCommit(e) ==
  /\ watch[e].pc = "commit"
  /\ \E ok \in BOOLEAN :
       Commit(e, [watch[e].read EXCEPT !.newer = @ \/ watch[e].read.front], ok)
  /\ excused' = excused \union Undoes(e, watch[e].read)
  /\ watch' = [watch EXCEPT ![e] = Idle]
  /\ UNCHANGED <<post, logLock, requests, queue, synth, regen, save,
                 confirmed, owed, cut>>

\* The web editor opens an article with the SHA of its last commit.
OpenEditor(e) ==
  /\ "web" \in Inputs /\ spent.inputs < MaxInputs /\ save.pc = "idle"
  /\ save' = [Idle EXCEPT !.pc = "open", !.e = e, !.read = brief[e],
                          !.seen = ver[e], !.sha = head[e]]
  /\ UNCHANGED <<post, logLock, files, watch, requests, queue, synth,
                 regen, spent, history>>

SaveEdit ==
  /\ save.pc = "open"
  /\ Input("web")
  /\ \/ /\ Saturated
        /\ save' = Idle
        /\ UNCHANGED requests
     \/ /\ ~Saturated
        /\ \E body \in Edited(save.read) :
             Request("edit", save.e, body, "editor", save.seen, save.sha)
        /\ save' = [save EXCEPT !.pc = "waiting"]
  /\ UNCHANGED <<post, logLock, files, watch, queue, synth, regen, history>>

SaveGivesUp ==
  /\ save.pc = "waiting"
  /\ GiveUp("editor", save.e)
  /\ save' = Idle
  /\ UNCHANGED <<post, logLock, files, watch, queue, synth, regen, history>>

-----------------------------------------------------------------------------
(***************************************************************************)
(* The wiki worker's drain loop: one request at a time, then its reply.    *)
(***************************************************************************)

\* CommitHuman's optimistic check against the article's last commit.
ExpectedSHA(q) ==
  \/ q.to = "brief"
  \/ q.to = "edit" /\ IF brief[q.e].had THEN q.sha # 0 /\ q.sha = head[q.e]
                      ELSE q.sha = 0

\* The worker answers the caller of the first request, a fact's, and drops it;
\* a fact written for a caller that was told otherwise counts for nobody.
FactReply(ok) ==
  LET q == Head(requests) IN
  /\ requests' = Tail(requests)
  /\ filling' = FALSE
  /\ logLock' = IF q.from = logLock THEN NoOne ELSE logLock
  /\ post' = [r \in Recorders |->
       IF r # q.from THEN post[r]
       ELSE [post[r] EXCEPT !.pc = IF ok THEN "brief" ELSE "idle"]]
  /\ confirmed' = IF ok THEN confirmed \union ({q.from} \ {NoOne}) ELSE confirmed
  /\ excused' = IF ok /\ q.from # NoOne THEN excused ELSE excused \union {q.e}
  /\ UNCHANGED <<brief, ver, head, armed, watch, queue, synth, regen, save,
                 owed>>

\* CommitEntityFact: os.WriteFile opens the log, empties it and starts to fill it.
StartFactWrite ==
  LET q == Head(requests) IN
  /\ requests # <<>> /\ q.to = "log" /\ ~filling
  /\ filling' = TRUE
  /\ log' = [log EXCEPT ![q.e] = q.body]
  /\ UNCHANGED <<post, logLock, brief, ver, head, armed, watch, requests,
                 queue, synth, regen, save, spent, history>>

\* The file is written; git commits it or fails, and the caller is answered.
ProcessFact ==
  /\ requests # <<>> /\ Head(requests).to = "log" /\ filling
  /\ \E ok \in BOOLEAN : GitResult(ok) /\ FactReply(ok)
  /\ UNCHANGED <<log, cut>>

\* The disk refuses the write, at the start or half-way.
FailFactWrite ==
  LET q == Head(requests) IN
  /\ requests # <<>> /\ q.to = "log"
  /\ Input("diskFails") /\ FactReply(FALSE)
  /\ \/ ~filling /\ UNCHANGED <<log, cut>>
     \/ /\ filling
        /\ \E part \in Prefixes(q.body) : log' = [log EXCEPT ![q.e] = part]
        /\ cut' = cut \union {q.e}

ProcessBrief ==
  LET q == Head(requests) IN
  /\ requests # <<>> /\ q.to # "log" /\ ExpectedSHA(q)
  /\ requests' = Tail(requests)
  /\ \E ok \in BOOLEAN :
       /\ Commit(q.e, q.body, ok)
       /\ excused' = excused \union Undoes(q.e, q.body)
                     \union (IF ok THEN {} ELSE {q.e})
  /\ synth' = IF q.from = "synth" THEN [synth EXCEPT !.pc = "finish"] ELSE synth
  /\ regen' = IF q.from = "regen" THEN [regen EXCEPT ![q.e] = Idle] ELSE regen
  /\ save' = IF q.from = "editor" THEN Idle ELSE save
  /\ UNCHANGED <<post, logLock, watch, queue, confirmed, owed, cut>>

RefuseEdit ==
  LET q == Head(requests) IN
  /\ requests # <<>> /\ q.to = "edit" /\ ~ExpectedSHA(q)
  /\ requests' = Tail(requests)
  /\ save' = IF q.from = "editor" THEN Idle ELSE save
  /\ UNCHANGED <<post, logLock, files, watch, queue, synth, regen, spent,
                 history>>

-----------------------------------------------------------------------------
Worker ==
  StartFactWrite \/ ProcessFact \/ FailFactWrite \/ ProcessBrief \/ RefuseEdit
Synthesizer ==
  \/ Receive \/ BeginRun \/ SynthReadBrief \/ SynthListFacts \/ SynthWrite
  \/ FinishRun \/ \E e \in Entities : FollowUp(e)
Handler(r) ==
  AppendFact(r) \/ ReadPriorCount(r) \/ CheckThreshold(r) \/ TriggerSynthesis(r)
Generator(e) == RegenReadBrief(e) \/ RegenWrite(e)
Watcher(e) == WatcherRead(e) \/ WatcherCheck(e) \/ WatcherCommit(e)

Next ==
  \/ Worker \/ Synthesizer
  \/ \E r \in Recorders : PostFact(r) \/ Handler(r) \/ AppendGivesUp(r)
  \/ \E e \in Entities :
       \/ AskSynthesis(e)
       \/ RegenListFacts(e) \/ Generator(e) \/ RegenGivesUp(e)
       \/ ObsidianEdit(e) \/ Watcher(e) \/ OpenEditor(e)
  \/ SaveEdit \/ SynthGivesUp \/ SaveGivesUp

Spec == Init /\ [][Next]_vars

\* The goroutines keep running; nobody has to post, ask, edit or give up.
FairSpec ==
  /\ Spec
  /\ WF_vars(Worker)
  /\ WF_vars(Receive \/ BeginRun \/ SynthReadBrief \/ SynthListFacts
             \/ SynthWrite \/ FinishRun)
  /\ \A e \in Entities : WF_vars(FollowUp(e))

-----------------------------------------------------------------------------
(***************************************************************************)
(* Type invariant.                                                         *)
(***************************************************************************)
Bodies == [had : BOOLEAN, front : BOOLEAN, count : Nat, newer : BOOLEAN,
           form : {"plain", "article", "block"}, text : Nat, prose : BOOLEAN]
Tasks(pcs) == [pc : pcs, e : Entities \union {NoOne}, read : Bodies, seen : Nat,
               sha : Nat, facts : Seq(Recorders)]
LogWrites == [to : {"log"}, e : Entities, body : Seq(Recorders),
              from : Recorders \union {NoOne}, seen : Nat, sha : Nat]
BriefWrites == [to : {"brief", "edit"}, e : Entities, body : Bodies,
                from : {"synth", "regen", "editor", NoOne}, seen : Nat, sha : Nat]

Posts == [pc : {"idle", "lock", "waiting", "brief", "list", "trigger", "done"},
          again : BOOLEAN, prior : Nat]
SynthTasks == Tasks({"idle", "received", "brief", "facts", "llm", "waiting",
                     "finish"})
RegenTasks == Tasks({"idle", "brief", "write", "waiting"})
WatchTasks == Tasks({"idle", "check", "commit"})
SaveTasks == Tasks({"idle", "open", "waiting"})

TypeOK ==
  /\ post \in [Recorders -> Posts]
  /\ logLock \in Recorders \union {NoOne}
  /\ log \in [Entities -> Seq(Recorders)] /\ filling \in BOOLEAN
  /\ brief \in [Entities -> Bodies]
  /\ ver \in [Entities -> Nat] /\ head \in [Entities -> Nat]
  /\ watch \in [Entities -> WatchTasks]
  /\ requests \in Seq(LogWrites \union BriefWrites)
  /\ Len(requests) <= MaxRequests
  /\ jobs \in Seq(Entities) /\ Len(jobs) <= MaxJobs
  /\ armed \subseteq Entities /\ queued \subseteq Entities
  /\ inflight \subseteq Entities
  /\ followups \in [Entities -> Nat]
  /\ synth \in SynthTasks
  /\ regen \in [Entities -> RegenTasks]
  /\ save \in SaveTasks
  /\ spent \in [inputs : Nat, giveUps : Nat]
  /\ confirmed \subseteq Recorders /\ owed \subseteq Entities
  /\ excused \subseteq Entities /\ cut \subseteq Entities

(***************************************************************************)
(* The synthesizer's two maps tell the truth about its channel: an entity  *)
(* has at most one pending job, a queued mark stands for that job or for a *)
(* follow-up of the run under way, and only the running job is in flight   *)
(* (EnqueueSynthesis sends and marks under one lock, drain receives        *)
(* without it).                                                            *)
(***************************************************************************)
PendingJobs(e) ==
  Cardinality({i \in DOMAIN jobs : jobs[i] = e})
    + IF synth.pc = "received" /\ synth.e = e THEN 1 ELSE 0
MarksMatchJobs ==
  \A e \in Entities :
    /\ PendingJobs(e) <= 1
    /\ PendingJobs(e) = 1 => e \in queued
    /\ e \in queued => PendingJobs(e) = 1 \/ e \in inflight
    /\ e \in inflight <=> synth.e = e /\ synth.pc # "received"

(***************************************************************************)
(* A synthesis request that was answered with success is never dropped:    *)
(* until a run that starts after it begins, a job, a follow-up mark or a   *)
(* follow-up goroutine stands for it, whatever runs, writes or reads fail. *)
(* Only its last follow-up loses it, by finding the channel full           *)
(* (entity_synthesizer.go:357 ignores that error): it is owed no longer.   *)
(***************************************************************************)
RequestsAreKept == \A e \in owed : e \in queued \/ followups[e] > 0

(***************************************************************************)
(* A fact whose write was answered with success is in its log from then    *)
(* on, or in the write that is putting it there again, although every      *)
(* append rewrites the whole file and callers may leave their writes       *)
(* behind in the queue.  What can still erase it: an append that read the  *)
(* log short, because the read failed (entity_facts.go:206) or met an      *)
(* abandoned write half-way, and a write that failed half-way.  (A fact    *)
(* that Append finds in the file because an abandoned write has landed is  *)
(* answered with success too; a second abandoned write can erase that one.)*)
(***************************************************************************)
ConfirmedFactsStay ==
  \A r \in confirmed : EntityOf[r] \in cut \/ r \in FactsIn(log[EntityOf[r]])

(***************************************************************************)
(* The stamp in a brief never counts more facts than its log holds: else   *)
(* that many later facts would never count as new.  Stale reads, abandoned *)
(* and reordered writes keep to it; only a log that was cut short does not.*)
(***************************************************************************)
CountWithinLog == \A e \in Entities \ cut : brief[e].count <= Len(log[e])

(***************************************************************************)
(* When nothing is under way for an entity, its brief is less than a       *)
(* threshold behind its log, unless a run or a reading of the log failed,  *)
(* a request found the job channel full, a fact was written for a caller   *)
(* that was told it failed, or a writer put back an older brief.  The      *)
(* handler reads the stamp, the log and the synthesizer's marks one after  *)
(* the other, each of which may be stale by the time the next is read, and *)
(* the log may be half written.                                            *)
(***************************************************************************)
AtRest(e) ==
  /\ \A r \in Recorders : EntityOf[r] = e => post[r].pc \in {"idle", "lock", "done"}
  /\ \A i \in DOMAIN requests : requests[i].e # e
  /\ synth.e # e /\ e \notin queued /\ followups[e] = 0
  /\ regen[e].pc = "idle" /\ watch[e].pc = "idle"
BriefsRest ==
  \A e \in Entities \ excused :
    AtRest(e) => NewCount(Len(log[e]), brief[e].count) < Threshold

(***************************************************************************)
(* Every accepted request is served by a run that begins after it, or lost *)
(* by its last follow-up to a full channel; failed runs, writes and reads  *)
(* in between do not discharge it.                                         *)
(***************************************************************************)
RequestsAreServed == \A e \in Entities : e \in owed ~> e \notin owed

(***************************************************************************)
(* docs/specs/WIKI-OBSIDIAN-COMPATIBILITY.md says that user edits to the   *)
(* brief body are never stomped: committed text in a brief is not dropped  *)
(* by an archivist that has read the brief as it stands.                   *)
(***************************************************************************)
UserTextKept ==
  [][\A e \in Entities :
       /\ brief[e].front /\ head[e] = ver[e]
       /\ requests' # requests /\ brief'[e].text < brief[e].text
       => Head(requests).seen # ver[e]]_vars
===============================================================================
