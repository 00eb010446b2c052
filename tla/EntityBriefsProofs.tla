--------------------------- MODULE EntityBriefsProofs ---------------------------
(***************************************************************************)
(* Proofs about EntityBriefs, for any number of entities, recorders, edits *)
(* and callers that stop waiting, any threshold and any size of the two    *)
(* queues: the synthesizer's marks match its channel, accepted requests    *)
(* are kept, confirmed facts stay in the log, and no stamp counts more     *)
(* facts than the log holds.                                               *)
(***************************************************************************)
EXTENDS EntityBriefs, SequenceTheorems, FiniteSetTheorems, TLAPS

-----------------------------------------------------------------------------
(* What the operators of the model return. *)

\* Updating a field of a brief.
LEMMA BodyUpdates ==
  ASSUME NEW b \in Bodies
  PROVE  /\ \A v \in BOOLEAN :
              /\ [b EXCEPT !.had = v] \in Bodies /\ [b EXCEPT !.had = v].count = b.count
              /\ [b EXCEPT !.front = v] \in Bodies /\ [b EXCEPT !.front = v].count = b.count
              /\ [b EXCEPT !.newer = v] \in Bodies /\ [b EXCEPT !.newer = v].count = b.count
              /\ [b EXCEPT !.prose = v] \in Bodies /\ [b EXCEPT !.prose = v].count = b.count
         /\ \A f \in {"plain", "article", "block"} :
              [b EXCEPT !.form = f] \in Bodies /\ [b EXCEPT !.form = f].count = b.count
         /\ \A n \in Nat :
              /\ [b EXCEPT !.text = n] \in Bodies /\ [b EXCEPT !.text = n].count = b.count
              /\ [b EXCEPT !.count = n] \in Bodies /\ [b EXCEPT !.count = n].count = n
  BY DEF Bodies

\* A brief stamped with n facts.
LEMMA StampedBody ==
  ASSUME NEW b \in Bodies, NEW n \in Nat
  PROVE  LET c == [b EXCEPT !.had = TRUE, !.front = TRUE, !.newer = FALSE, !.count = n]
         IN  c \in Bodies /\ c.count = n
<1> DEFINE c1 == [b EXCEPT !.had = TRUE]
           c2 == [c1 EXCEPT !.front = TRUE]
           c3 == [c2 EXCEPT !.newer = FALSE]
           c4 == [c3 EXCEPT !.count = n]
<1>1. c1 \in Bodies
  BY BodyUpdates
<1>2. c2 \in Bodies
  BY <1>1, BodyUpdates
<1>3. c3 \in Bodies
  BY <1>2, BodyUpdates
<1>4. c4 \in Bodies /\ c4.count = n
  BY <1>3, BodyUpdates
<1>5. [b EXCEPT !.had = TRUE, !.front = TRUE, !.newer = FALSE, !.count = n] = c4
  OBVIOUS
<1> QED  BY <1>4, <1>5

LEMMA NoBriefType == NoBrief \in Bodies /\ NoBrief.count = 0
  BY DEF NoBrief, Bodies

\* A person's edit changes no stamp.
LEMMA EditedBody ==
  ASSUME NEW b \in Bodies, spent.inputs \in Nat, NEW c \in Edited(b)
  PROVE  c \in Bodies /\ c.count = b.count
<1>1. PICK p \in BOOLEAN :
        c = [b EXCEPT !.had = TRUE, !.text = spent.inputs + 1, !.prose = p]
  BY DEF Edited
<1> DEFINE c1 == [b EXCEPT !.had = TRUE]
           n == spent.inputs + 1
           c2 == [c1 EXCEPT !.text = n]
           c3 == [c2 EXCEPT !.prose = p]
<1>n. n \in Nat /\ n = spent.inputs + 1
  OBVIOUS
<1> HIDE DEF n
<1>2. c1 \in Bodies /\ c1.count = b.count
  BY DEF Bodies
<1>3. c2 \in Bodies /\ c2.count = b.count
  <2> HIDE DEF c1
  <2> QED  BY <1>2, <1>n DEF Bodies
<1>4. c3 \in Bodies /\ c3.count = b.count
  <2> HIDE DEF c2
  <2> QED  BY <1>3 DEF Bodies
<1>5. c = c3
  BY <1>1, <1>n
<1> QED  BY <1>4, <1>5

\* What the synthesizer writes is stamped with the number of facts it listed.
LEMMA SynthesizedBodyType ==
  ASSUME synth.read \in Bodies, synth.facts \in Seq(Recorders)
  PROVE  SynthesizedBody \in Bodies /\ SynthesizedBody.count = Len(synth.facts)
<1> DEFINE body == IF synth.read.had /\ synth.read.newer THEN synth.read ELSE NoBrief
<1>1. body \in Bodies /\ FactCount \in Nat
  BY NoBriefType DEF FactCount
<1> QED  BY <1>1, StampedBody DEF SynthesizedBody, FactCount

\* So is what the article generator writes.
LEMMA ArticleBodyType ==
  ASSUME NEW e \in Entities, regen[e].read \in Bodies, regen[e].facts \in Seq(Recorders)
  PROVE  ArticleBody(e) \in Bodies /\ ArticleBody(e).count = Len(regen[e].facts)
<1> DEFINE old == regen[e].read
           folds == old.form = "plain" \/ old.prose
           text == IF folds THEN old.text ELSE 0
           prose == folds /\ old.text # 0
           c1 == [NoBrief EXCEPT !.form = "article"]
           c2 == [c1 EXCEPT !.text = text]
           c3 == [c2 EXCEPT !.prose = prose]
           kept == old.had /\ (old.newer \/ old.form = "block")
           body == IF kept THEN [old EXCEPT !.form = "block"]
                   ELSE [NoBrief EXCEPT !.form = "article", !.text = text, !.prose = prose]
<1>1. text \in Nat /\ prose \in BOOLEAN
  BY DEF Bodies
<1> HIDE DEF text, prose
<1>2. c1 \in Bodies
  BY BodyUpdates, NoBriefType
<1>3. c2 \in Bodies
  BY <1>1, <1>2, BodyUpdates
<1>4. c3 \in Bodies
  BY <1>1, <1>3, BodyUpdates
<1>5. body \in Bodies
  BY <1>4, BodyUpdates
<1>6. ArticleBody(e) =
        [body EXCEPT !.had = TRUE, !.front = TRUE, !.newer = FALSE, !.count = Len(regen[e].facts)]
  BY DEF ArticleBody, text, prose
<1>7. Len(regen[e].facts) \in Nat
  OBVIOUS
<1> HIDE DEF body
<1> QED  BY <1>5, <1>6, <1>7, StampedBody, Zenon

\* Updating a field of a task.
LEMMA TaskUpdates ==
  ASSUME NEW P, NEW k \in Tasks(P)
  PROVE  /\ \A p \in P :
              LET u == [k EXCEPT !.pc = p] IN
              u \in Tasks(P) /\ u.pc = p /\ u.e = k.e /\ u.read = k.read /\ u.facts = k.facts
         /\ \A x \in Entities \union {NoOne} :
              LET u == [k EXCEPT !.e = x] IN
              u \in Tasks(P) /\ u.pc = k.pc /\ u.e = x /\ u.read = k.read /\ u.facts = k.facts
         /\ \A b \in Bodies :
              LET u == [k EXCEPT !.read = b] IN
              u \in Tasks(P) /\ u.pc = k.pc /\ u.e = k.e /\ u.read = b /\ u.facts = k.facts
         /\ \A n \in Nat :
              LET u == [k EXCEPT !.seen = n] IN
              u \in Tasks(P) /\ u.pc = k.pc /\ u.e = k.e /\ u.read = k.read /\ u.facts = k.facts
         /\ \A n \in Nat :
              LET u == [k EXCEPT !.sha = n] IN
              u \in Tasks(P) /\ u.pc = k.pc /\ u.e = k.e /\ u.read = k.read /\ u.facts = k.facts
         /\ \A f \in Seq(Recorders) :
              LET u == [k EXCEPT !.facts = f] IN
              u \in Tasks(P) /\ u.pc = k.pc /\ u.e = k.e /\ u.read = k.read /\ u.facts = f
<1> USE DEF Tasks
<1>1. \A p \in P :
        LET u == [k EXCEPT !.pc = p] IN
        u \in Tasks(P) /\ u.pc = p /\ u.e = k.e /\ u.read = k.read /\ u.facts = k.facts
  OBVIOUS
<1>2. \A x \in Entities \union {NoOne} :
        LET u == [k EXCEPT !.e = x] IN
        u \in Tasks(P) /\ u.pc = k.pc /\ u.e = x /\ u.read = k.read /\ u.facts = k.facts
  OBVIOUS
<1>3. \A b \in Bodies :
        LET u == [k EXCEPT !.read = b] IN
        u \in Tasks(P) /\ u.pc = k.pc /\ u.e = k.e /\ u.read = b /\ u.facts = k.facts
  OBVIOUS
<1>4. \A n \in Nat :
        LET u == [k EXCEPT !.seen = n] IN
        u \in Tasks(P) /\ u.pc = k.pc /\ u.e = k.e /\ u.read = k.read /\ u.facts = k.facts
  OBVIOUS
<1>5. \A n \in Nat :
        LET u == [k EXCEPT !.sha = n] IN
        u \in Tasks(P) /\ u.pc = k.pc /\ u.e = k.e /\ u.read = k.read /\ u.facts = k.facts
  OBVIOUS
<1>6. \A f \in Seq(Recorders) :
        LET u == [k EXCEPT !.facts = f] IN
        u \in Tasks(P) /\ u.pc = k.pc /\ u.e = k.e /\ u.read = k.read /\ u.facts = f
  OBVIOUS
<1> QED  BY <1>1, <1>2, <1>3, <1>4, <1>5, <1>6

LEMMA IdleType ==
  ASSUME NEW P, "idle" \in P
  PROVE  /\ Idle \in Tasks(P) /\ Idle.pc = "idle" /\ Idle.e = NoOne
         /\ Idle.read = NoBrief /\ Idle.facts = <<>>
  BY NoBriefType DEF Idle, Tasks

\* A task that has read a brief.
Reads(k, p, b, n) == [k EXCEPT !.pc = p, !.read = b, !.seen = n]
LEMMA TaskReads ==
  ASSUME NEW P, NEW k \in Tasks(P), NEW p \in P, NEW b \in Bodies, NEW n \in Nat
  PROVE  LET u == Reads(k, p, b, n) IN
         u \in Tasks(P) /\ u.pc = p /\ u.e = k.e /\ u.read = b /\ u.facts = k.facts
<1> DEFINE u1 == [k EXCEPT !.pc = p]
           u2 == [u1 EXCEPT !.read = b]
           u3 == [u2 EXCEPT !.seen = n]
<1>1. u1 \in Tasks(P) /\ u1.pc = p /\ u1.e = k.e /\ u1.read = k.read /\ u1.facts = k.facts
  BY TaskUpdates
<1>2. u2 \in Tasks(P) /\ u2.pc = p /\ u2.e = k.e /\ u2.read = b /\ u2.facts = k.facts
  <2> HIDE DEF u1
  <2> QED  BY <1>1, TaskUpdates
<1>3. u3 \in Tasks(P) /\ u3.pc = p /\ u3.e = k.e /\ u3.read = b /\ u3.facts = k.facts
  <2> HIDE DEF u2
  <2> QED  BY <1>2, TaskUpdates
<1>4. Reads(k, p, b, n) = u3
  BY DEF Reads
<1> QED  BY <1>3, <1>4

\* A task that has listed facts.
Lists(k, p, f) == [k EXCEPT !.pc = p, !.facts = f]
LEMMA TaskLists ==
  ASSUME NEW P, NEW k \in Tasks(P), NEW p \in P, NEW f \in Seq(Recorders)
  PROVE  LET u == Lists(k, p, f) IN
         u \in Tasks(P) /\ u.pc = p /\ u.e = k.e /\ u.read = k.read /\ u.facts = f
<1> DEFINE v1 == [k EXCEPT !.pc = p]
           v2 == [v1 EXCEPT !.facts = f]
<1>3. v1 \in Tasks(P) /\ v1.pc = p /\ v1.e = k.e /\ v1.read = k.read
  BY TaskUpdates
<1>4. v2 \in Tasks(P) /\ v2.pc = p /\ v2.e = k.e /\ v2.read = k.read /\ v2.facts = f
  <2> HIDE DEF v1
  <2> QED  BY <1>3, TaskUpdates
<1>5. Lists(k, p, f) = v2
  BY DEF Lists
<1> HIDE DEF v2
<1> QED  BY <1>4, <1>5

\* A task that has taken an entity.
Takes(k, p, x) == [k EXCEPT !.pc = p, !.e = x]
LEMMA TaskTakes ==
  ASSUME NEW P, NEW k \in Tasks(P), NEW p \in P, NEW x \in Entities \union {NoOne}
  PROVE  LET u == Takes(k, p, x) IN
         u \in Tasks(P) /\ u.pc = p /\ u.e = x /\ u.read = k.read /\ u.facts = k.facts
<1> DEFINE u1 == [k EXCEPT !.pc = p]
           u2 == [u1 EXCEPT !.e = x]
<1>1. u1 \in Tasks(P) /\ u1.pc = p /\ u1.read = k.read /\ u1.facts = k.facts
  BY TaskUpdates
<1>2. u2 \in Tasks(P) /\ u2.pc = p /\ u2.e = x /\ u2.read = k.read /\ u2.facts = k.facts
  <2> HIDE DEF u1
  <2> QED  BY <1>1, TaskUpdates
<1>3. Takes(k, p, x) = u2
  BY DEF Takes
<1> QED  BY <1>2, <1>3

\* The editor's copy of an article.
Opens(x, b, n, h) ==
  [Idle EXCEPT !.pc = "open", !.e = x, !.read = b, !.seen = n, !.sha = h]
LEMMA EditorOpens ==
  ASSUME NEW P, {"idle", "open"} \subseteq P, NEW x \in Entities, NEW b \in Bodies,
         NEW n \in Nat, NEW h \in Nat
  PROVE  LET u == Opens(x, b, n, h) IN
         u \in Tasks(P) /\ u.pc = "open" /\ u.e = x /\ u.read = b /\ u.facts = <<>>
<1> DEFINE u0 == [Idle EXCEPT !.pc = "open"]
           u1 == [u0 EXCEPT !.e = x]
           u2 == [u1 EXCEPT !.read = b]
           u3 == [u2 EXCEPT !.seen = n]
           u4 == [u3 EXCEPT !.sha = h]
<1>0. u0 \in Tasks(P) /\ u0.pc = "open" /\ u0.facts = <<>>
  BY IdleType, TaskUpdates
<1>1. u1 \in Tasks(P) /\ u1.pc = "open" /\ u1.e = x /\ u1.facts = <<>>
  <2> HIDE DEF u0
  <2> QED  BY <1>0, TaskUpdates
<1>2. u2 \in Tasks(P) /\ u2.pc = "open" /\ u2.e = x /\ u2.read = b /\ u2.facts = <<>>
  <2> HIDE DEF u1
  <2> QED  BY <1>1, TaskUpdates
<1>3. u3 \in Tasks(P) /\ u3.pc = "open" /\ u3.e = x /\ u3.read = b /\ u3.facts = <<>>
  <2> HIDE DEF u2
  <2> QED  BY <1>2, TaskUpdates
<1>4. u4 \in Tasks(P) /\ u4.pc = "open" /\ u4.e = x /\ u4.read = b /\ u4.facts = <<>>
  <2> HIDE DEF u3
  <2> QED  BY <1>3, TaskUpdates
<1>5. Opens(x, b, n, h) = u4
  BY DEF Opens
<1> QED  BY <1>4, <1>5

-----------------------------------------------------------------------------
(* The inductive invariant. *)

Writes == LogWrites \union BriefWrites
IsLog(i) == requests[i].to = "log"
InJobs(e) == \E i \in DOMAIN jobs : jobs[i] = e

\* A task that is under way knows its entity.
TasksAgree ==
  /\ synth.pc = "idle" <=> synth.e = NoOne
  /\ save.pc # "idle" => save.e \in Entities

\* The one write whose reply the synthesizer gets is the one it waits for.
SynthReply ==
  /\ \A i \in DOMAIN requests :
       requests[i].from = "synth" => synth.pc = "waiting" /\ requests[i].e = synth.e
  /\ \A i, j \in DOMAIN requests :
       requests[i].from = "synth" /\ requests[j].from = "synth" => i = j

\* The marks, without cardinalities.
Marks ==
  /\ \A i, j \in DOMAIN jobs : jobs[i] = jobs[j] => i = j
  /\ \A e \in Entities : InJobs(e) => e \in queued /\ e \notin inflight /\ e # synth.e
  /\ synth.pc = "received" => synth.e \in queued
  /\ \A e \in queued : InJobs(e) \/ synth.e = e
  /\ \A e \in Entities : e \in inflight <=> synth.e = e /\ synth.pc # "received"

\* A recorder that waits holds the log's mutex, and behind its write there is
\* no other.
LogReply ==
  /\ \A r \in Recorders : post[r].pc = "waiting" => logLock = r
  /\ \A i \in DOMAIN requests : IsLog(i) /\ requests[i].from # NoOne =>
       /\ logLock = requests[i].from
       /\ requests[i].e = EntityOf[logLock]
       /\ logLock \in FactsIn(requests[i].body)
       /\ \A j \in DOMAIN requests : j > i => ~IsLog(j)

\* What the write under way puts into the log.
Fills ==
  filling => /\ 1 \in DOMAIN requests /\ IsLog(1)
             /\ log[requests[1].e] = requests[1].body

\* Every write that is still to come carries the confirmed facts, as long as
\* no append has read the log short and no write has failed half-way.
Carried ==
  \A r \in confirmed : EntityOf[r] \notin cut => \A i \in DOMAIN requests :
    IsLog(i) /\ requests[i].e = EntityOf[r] => r \in FactsIn(requests[i].body)

\* The writes in the queue do not shorten the log, in the order they stand.
LogGrows ==
  /\ \A i \in DOMAIN requests : IsLog(i) /\ requests[i].e \notin cut =>
       /\ Len(log[requests[i].e]) <= Len(requests[i].body)
       /\ Len(requests[i].body) <= Len(log[requests[i].e]) + 1
  /\ \A i, j \in DOMAIN requests :
       IsLog(i) /\ IsLog(j) /\ i < j /\ requests[i].e = requests[j].e
       /\ requests[i].e \notin cut =>
         Len(requests[i].body) <= Len(requests[j].body)

\* Nobody has counted more facts than the log holds, nor will anybody stamp
\* more into a brief.
Behind(k, e) == k.read.count <= Len(log[e]) /\ Len(k.facts) <= Len(log[e])
ReadersBehind ==
  /\ \A e \in Entities \ cut : Behind(regen[e], e) /\ Behind(watch[e], e)
  /\ synth.e \in Entities \ cut => Behind(synth, synth.e)
  /\ save.e \in Entities \ cut => Behind(save, save.e)
  /\ \A i \in DOMAIN requests :
       ~IsLog(i) /\ requests[i].e \notin cut => requests[i].body.count <= Len(log[requests[i].e])

\* What every other step rests on: types, and who waits for what.
Base == TypeOK /\ TasksAgree /\ SynthReply

-----------------------------------------------------------------------------
(* Steps on the queue of the wiki worker. *)

\* One more write at the end of the queue.
LEMMA RequestAppends ==
  ASSUME requests \in Seq(Writes), ~Saturated, NEW to, NEW e, NEW body, NEW from,
         NEW seen, NEW sha, Request(to, e, body, from, seen, sha),
         NEW q, q = [to |-> to, e |-> e, body |-> body, from |-> from,
                     seen |-> seen, sha |-> sha],
         q \in Writes
  PROVE  /\ requests' \in Seq(Writes) /\ Len(requests') = Len(requests) + 1
         /\ Len(requests') <= MaxRequests
         /\ \A i \in DOMAIN requests : i \in DOMAIN requests' /\ requests'[i] = requests[i]
         /\ \A i \in DOMAIN requests' \ DOMAIN requests :
              i = Len(requests) + 1 /\ requests'[i] = q
<1>1. requests' = Append(requests, q)
  BY DEF Request
<1>2. Len(requests) < MaxRequests
  BY BoundsAreNat DEF Saturated
<1> QED  BY <1>1, <1>2, BoundsAreNat DEF Writes

\* A caller that gives up leaves its write in the queue, without its name.
LEMMA GiveUpLeaves ==
  ASSUME requests \in Seq(Writes), NEW from, NEW e, GiveUp(from, e)
  PROVE  /\ requests' \in Seq(Writes) /\ Len(requests') = Len(requests)
         /\ DOMAIN requests' = DOMAIN requests
         /\ \A i \in DOMAIN requests :
              /\ requests'[i].to = requests[i].to /\ requests'[i].e = requests[i].e
              /\ requests'[i].body = requests[i].body
              /\ requests'[i].from = IF requests[i].from = from /\ requests[i].e = e
                                      THEN NoOne ELSE requests[i].from
<1> DEFINE left(i) == IF requests[i].from = from /\ requests[i].e = e
                      THEN [requests[i] EXCEPT !.from = NoOne] ELSE requests[i]
<1>1. requests' = [i \in DOMAIN requests |-> left(i)]
  BY DEF GiveUp
<1>2. ASSUME NEW q \in Writes
      PROVE  LET u == [q EXCEPT !.from = NoOne] IN
             u \in Writes /\ u.to = q.to /\ u.e = q.e /\ u.body = q.body /\ u.from = NoOne
  BY <1>2 DEF Writes, LogWrites, BriefWrites
<1>3. \A i \in DOMAIN requests :
        /\ left(i) \in Writes /\ left(i).to = requests[i].to /\ left(i).e = requests[i].e
        /\ left(i).body = requests[i].body
        /\ left(i).from = IF requests[i].from = from /\ requests[i].e = e
                          THEN NoOne ELSE requests[i].from
  <2> SUFFICES ASSUME NEW i \in DOMAIN requests
               PROVE  /\ left(i) \in Writes /\ left(i).to = requests[i].to
                      /\ left(i).e = requests[i].e /\ left(i).body = requests[i].body
                      /\ left(i).from = IF requests[i].from = from /\ requests[i].e = e
                                        THEN NoOne ELSE requests[i].from
    OBVIOUS
  <2>1. requests[i] \in Writes
    OBVIOUS
  <2> QED  BY <2>1, <1>2
<1> HIDE DEF left
<1> QED  BY <1>1, <1>3

\* The worker takes the first write.
LEMMA WorkerTakes ==
  ASSUME requests \in Seq(Writes), requests # <<>>, requests' = Tail(requests)
  PROVE  /\ requests' \in Seq(Writes) /\ Len(requests') = Len(requests) - 1
         /\ Head(requests) = requests[1] /\ 1 \in DOMAIN requests
         /\ \A i \in DOMAIN requests' :
              i \in Nat \ {0} /\ i + 1 \in DOMAIN requests /\ requests'[i] = requests[i + 1]
  OBVIOUS

\* Counting an input or a caller that gives up.
LEMMA SpentType ==
  ASSUME spent \in [inputs : Nat, giveUps : Nat]
  PROVE  /\ \A kind : Input(kind) => spent' \in [inputs : Nat, giveUps : Nat]
         /\ \A from, e : GiveUp(from, e) => spent' \in [inputs : Nat, giveUps : Nat]
         /\ \A ok \in BOOLEAN : GitResult(ok) => spent' \in [inputs : Nat, giveUps : Nat]
         /\ spent.inputs \in Nat
<1>1. \A kind : Input(kind) => spent' \in [inputs : Nat, giveUps : Nat]
  BY DEF Input
<1>2. \A from, e : GiveUp(from, e) => spent' \in [inputs : Nat, giveUps : Nat]
  BY DEF GiveUp
<1> QED  BY <1>1, <1>2 DEF GitResult

\* A handler moves on, with the stamp it has read or without.
Moved(r, p) == [post EXCEPT ![r].pc = p]
MovedOn(r, p, n) == [post EXCEPT ![r].pc = p, ![r].prior = n]
LEMMA PostMoves ==
  ASSUME post \in [Recorders -> Posts], NEW r \in Recorders,
         NEW p \in {"idle", "lock", "waiting", "brief", "list", "trigger", "done"}
  PROVE  /\ LET u == Moved(r, p) IN
            /\ u \in [Recorders -> Posts] /\ u[r].pc = p
            /\ \A s \in Recorders \ {r} : u[s] = post[s]
         /\ \A n \in Nat :
              LET u == MovedOn(r, p, n) IN
              /\ u \in [Recorders -> Posts] /\ u[r].pc = p /\ u[r].prior = n
              /\ \A s \in Recorders \ {r} : u[s] = post[s]
<1>1. [post[r] EXCEPT !.pc = p] \in Posts /\ [post[r] EXCEPT !.pc = p].pc = p
  BY DEF Posts
<1>2. [post EXCEPT ![r].pc = p] = [post EXCEPT ![r] = [post[r] EXCEPT !.pc = p]]
  OBVIOUS
<1>3. ASSUME NEW n \in Nat
      PROVE  LET u == [post EXCEPT ![r].pc = p, ![r].prior = n] IN
             /\ u \in [Recorders -> Posts] /\ u[r].pc = p /\ u[r].prior = n
             /\ \A s \in Recorders \ {r} : u[s] = post[s]
  <2> DEFINE k == [post[r] EXCEPT !.pc = p]
             h == [k EXCEPT !.prior = n]
  <2>1. k \in Posts /\ k.pc = p
    BY <1>1
  <2>2. h \in Posts /\ h.pc = p /\ h.prior = n
    <3> HIDE DEF k
    <3> QED  BY <2>1 DEF Posts
  <2>3. [post EXCEPT ![r].pc = p, ![r].prior = n] = [post EXCEPT ![r] = h]
    OBVIOUS
  <2> HIDE DEF h
  <2> QED  BY <2>2, <2>3
<1>4. LET u == [post EXCEPT ![r].pc = p] IN
      /\ u \in [Recorders -> Posts] /\ u[r].pc = p
      /\ \A s \in Recorders \ {r} : u[s] = post[s]
  <2> DEFINE k == [post[r] EXCEPT !.pc = p]
  <2> HIDE DEF k
  <2>1. k \in Posts /\ k.pc = p /\ [post EXCEPT ![r].pc = p] = [post EXCEPT ![r] = k]
    BY <1>1, <1>2 DEF k
  <2> QED  BY <2>1
<1> QED  BY <1>3, <1>4 DEF Moved, MovedOn

\* What a reader may find of a log.
LEMMA PrefixTypes ==
  ASSUME NEW S, NEW s \in Seq(S)
  PROVE  /\ s \in Prefixes(s) /\ <<>> \in Prefixes(s)
         /\ \A t \in Prefixes(s) : t \in Seq(S) /\ Len(t) \in Nat /\ Len(t) <= Len(s)
<1>1. ASSUME NEW n \in 0 .. Len(s)
      PROVE  SubSeq(s, 1, n) \in Seq(S) /\ Len(SubSeq(s, 1, n)) = n
  BY <1>1, SubSeqProperties
<1>2. SubSeq(s, 1, Len(s)) = s /\ Len(s) \in 0 .. Len(s)
  BY SubSeqFull
<1>3. SubSeq(s, 1, 0) = <<>> /\ 0 \in 0 .. Len(s)
  BY SubSeqEmpty
<1>4. ASSUME NEW t \in Prefixes(s)
      PROVE  t \in Seq(S) /\ Len(t) \in Nat /\ Len(t) <= Len(s)
  <2>1. PICK n \in 0 .. Len(s) : t = SubSeq(s, 1, n)
    BY <1>4 DEF Prefixes
  <2> QED  BY <1>1, <2>1
<1> QED  BY <1>2, <1>3, <1>4 DEF Prefixes
LEMMA SeenTypes ==
  ASSUME TypeOK, NEW e \in Entities
  PROVE  /\ log[e] \in Seq(Recorders) /\ Seen(e) \subseteq Prefixes(log[e])
         /\ <<>> \in Prefixes(log[e])
         /\ \A t \in Prefixes(log[e]) :
              t \in Seq(Recorders) /\ Len(t) \in Nat /\ Len(t) <= Len(log[e])
<1>1. log[e] \in Seq(Recorders)
  BY DEF TypeOK
<1> QED  BY <1>1, PrefixTypes DEF Seen

\* A synthesis request keeps the types of what it changes.
LEMMA EnqueueTypes ==
  ASSUME TypeOK, NEW e \in Entities, NEW lost, EnqueueSynthesis(e, lost)
  PROVE  /\ jobs' \in Seq(Entities) /\ Len(jobs') <= MaxJobs
         /\ queued' \subseteq Entities /\ inflight' = inflight
         /\ owed' \subseteq Entities /\ excused' \subseteq Entities
         /\ confirmed' = confirmed /\ cut' = cut
<1>1. jobs' = jobs \/ (jobs' = Append(jobs, e) /\ HasRoom)
  <2>1. CASE Coalesces(e)
    BY <2>1 DEF EnqueueSynthesis
  <2>2. CASE ~Coalesces(e)
    BY <2>2 DEF EnqueueSynthesis
  <2> QED  BY <2>1, <2>2
<1>2. jobs' \in Seq(Entities) /\ Len(jobs') <= MaxJobs
  <2>1. jobs \in Seq(Entities) /\ Len(jobs) <= MaxJobs
    BY DEF TypeOK
  <2>2. MaxJobs \in Nat
    BY BoundsAreNat
  <2>3. CASE jobs' = jobs
    BY <2>1, <2>3
  <2>4. CASE jobs' = Append(jobs, e) /\ HasRoom
    BY <2>1, <2>2, <2>4 DEF HasRoom
  <2> QED  BY <1>1, <2>3, <2>4
<1>3. /\ queued' \in {queued, queued \union {e}}
      /\ owed' \in {owed \union {e}, owed \ lost}
      /\ excused' \in {excused, excused \union {e}}
      /\ inflight' = inflight /\ confirmed' = confirmed /\ cut' = cut
  BY DEF EnqueueSynthesis
<1> QED  BY <1>2, <1>3 DEF TypeOK

-----------------------------------------------------------------------------
(* Steps of the tasks that read a brief and write it back. *)

\* What a task holds after a step.
Holds(k, p, e, b, f) == k.pc = p /\ k.e = e /\ k.read = b /\ k.facts = f

\* The synthesizer, whose entity is known while it is not idle.
LEMMA SynthSteps ==
  ASSUME Base
  PROVE  /\ synth.pc # "idle" => synth.e \in Entities
         /\ synth.read \in Bodies /\ synth.facts \in Seq(Recorders)
         /\ Receive => synth' \in SynthTasks /\ Head(jobs) \in Entities
                       /\ Holds(synth', "received", Head(jobs), NoBrief, <<>>)
         /\ SynthReadBrief => synth' \in SynthTasks
                       /\ Holds(synth', "facts", synth.e, brief[synth.e], synth.facts)
         /\ SynthListFacts => synth' \in SynthTasks /\ synth'.pc \in {"llm", "finish"}
                       /\ (\E f \in Prefixes(log[synth.e]) :
                              Holds(synth', synth'.pc, synth.e, synth.read, f))
         /\ \A p \in {"brief", "waiting", "finish"} :
              LET u == [synth EXCEPT !.pc = p] IN
              u \in SynthTasks /\ Holds(u, p, synth.e, synth.read, synth.facts)
<1> USE DEF SynthTasks, Holds
<1> DEFINE P == {"idle", "received", "brief", "facts", "llm", "waiting", "finish"}
<1>1. synth \in Tasks(P)
  BY DEF Base, TypeOK
<1> HIDE DEF P
<1>2. /\ synth.e \in Entities \union {NoOne} /\ synth.read \in Bodies
      /\ synth.facts \in Seq(Recorders) /\ synth.pc \in P
  BY <1>1 DEF Tasks
<1>3. synth.pc # "idle" => synth.e \in Entities
  BY <1>2 DEF Base, TasksAgree
<1>4. ASSUME Receive
      PROVE  synth' \in Tasks(P) /\ Head(jobs) \in Entities
             /\ Holds(synth', "received", Head(jobs), NoBrief, <<>>)
  <2>1. Head(jobs) \in Entities
    BY <1>4 DEF Receive, Base, TypeOK
  <2>2. Idle \in Tasks(P) /\ Idle.read = NoBrief /\ Idle.facts = <<>> /\ "received" \in P
    BY IdleType DEF P
  <2>3. synth' = Takes(Idle, "received", Head(jobs))
    BY <1>4 DEF Receive, Takes
  <2> QED  BY <2>1, <2>2, <2>3, TaskTakes
<1>5. ASSUME SynthReadBrief
      PROVE  synth' \in Tasks(P)
             /\ Holds(synth', "facts", synth.e, brief[synth.e], synth.facts)
  <2>1. brief[synth.e] \in Bodies /\ ver[synth.e] \in Nat /\ "facts" \in P
    BY <1>5, <1>3 DEF SynthReadBrief, Base, TypeOK, P
  <2>2. synth' = Reads(synth, "facts", brief[synth.e], ver[synth.e])
    BY <1>5 DEF SynthReadBrief, Reads
  <2> QED  BY <1>1, <2>1, <2>2, TaskReads
<1>6. ASSUME SynthListFacts
      PROVE  synth' \in Tasks(P) /\ synth'.pc \in {"llm", "finish"}
             /\ \E f \in Prefixes(log[synth.e]) :
                  Holds(synth', synth'.pc, synth.e, synth.read, f)
  <2>1. /\ <<>> \in Prefixes(log[synth.e]) /\ Seen(synth.e) \subseteq Prefixes(log[synth.e])
        /\ \A f \in Prefixes(log[synth.e]) : f \in Seq(Recorders)
    BY <1>6, <1>3, SeenTypes DEF SynthListFacts, Base
  <2>2. \A f : \E p \in {"llm", "finish"} : Listed(f) = Lists(synth, p, f)
    BY DEF Listed, Lists
  <2>3. [synth EXCEPT !.facts = <<>>, !.pc = "finish"] = Lists(synth, "finish", <<>>)
    BY DEF Lists
  <2>4. \/ \E f \in Prefixes(log[synth.e]) : synth' = Listed(f)
        \/ synth' = Lists(synth, "finish", <<>>)
    BY <1>6, <2>1, <2>3 DEF SynthListFacts
  <2>5. PICK f \in Prefixes(log[synth.e]), p \in {"llm", "finish"} :
          synth' = Lists(synth, p, f)
    BY <2>1, <2>2, <2>4
  <2>6. p \in P /\ f \in Seq(Recorders)
    BY <2>1 DEF P
  <2> QED  BY <1>1, <2>5, <2>6, TaskLists
<1>7. \A p \in {"brief", "waiting", "finish"} :
        LET u == [synth EXCEPT !.pc = p] IN
        u \in Tasks(P) /\ Holds(u, p, synth.e, synth.read, synth.facts)
  BY <1>1, TaskUpdates DEF P
<1> QED  BY <1>2, <1>3, <1>4, <1>5, <1>6, <1>7 DEF P

\* The article generator and the watcher of an entity.
LEMMA RegenSteps ==
  ASSUME Base, NEW e \in Entities
  PROVE  /\ regen[e].read \in Bodies /\ regen[e].facts \in Seq(Recorders)
         /\ RegenListFacts(e) =>
              /\ regen' \in [Entities -> RegenTasks]
              /\ regen'[e].read = NoBrief /\ regen'[e].facts \in Prefixes(log[e])
              /\ \A d \in Entities \ {e} : regen'[d] = regen[d]
         /\ RegenReadBrief(e) =>
              /\ regen' \in [Entities -> RegenTasks]
              /\ regen'[e].read = brief[e] /\ regen'[e].facts = regen[e].facts
              /\ \A d \in Entities \ {e} : regen'[d] = regen[d]
         /\ regen' \in {[regen EXCEPT ![e] = Idle],
                         [regen EXCEPT ![e] = [Idle EXCEPT !.pc = "waiting"]]} =>
              /\ regen' \in [Entities -> RegenTasks]
              /\ regen'[e].read = NoBrief /\ regen'[e].facts = <<>>
              /\ \A d \in Entities \ {e} : regen'[d] = regen[d]
<1> DEFINE P == {"idle", "brief", "write", "waiting"}
<1>1. regen \in [Entities -> Tasks(P)] /\ RegenTasks = Tasks(P)
  BY DEF Base, TypeOK, RegenTasks
<1>p. {"idle", "brief", "write", "waiting"} \subseteq P
  OBVIOUS
<1> HIDE DEF P
<1>2. regen[e].read \in Bodies /\ regen[e].facts \in Seq(Recorders)
  BY <1>1 DEF Tasks
<1>3. /\ brief[e] \in Bodies /\ ver[e] \in Nat /\ log[e] \in Seq(Recorders)
      /\ Idle \in Tasks(P) /\ Idle.read = NoBrief /\ Idle.facts = <<>>
  BY <1>p, IdleType DEF Base, TypeOK
<1>4. ASSUME NEW k \in Tasks(P), regen' = [regen EXCEPT ![e] = k]
      PROVE  /\ regen' \in [Entities -> RegenTasks] /\ regen'[e] = k
             /\ \A d \in Entities \ {e} : regen'[d] = regen[d]
  BY <1>1, <1>4
<1>5. ASSUME RegenListFacts(e)
      PROVE  /\ regen' \in [Entities -> RegenTasks]
             /\ regen'[e].read = NoBrief /\ regen'[e].facts \in Prefixes(log[e])
             /\ \A d \in Entities \ {e} : regen'[d] = regen[d]
  <2>0. PICK lines \in Prefixes(log[e]) :
          regen' = [regen EXCEPT ![e] = [Idle EXCEPT !.pc = "brief", !.facts = lines]]
    BY <1>5 DEF RegenListFacts
  <2> DEFINE k == Lists(Idle, "brief", lines)
  <2>1. regen' = [regen EXCEPT ![e] = k]
    BY <2>0 DEF Lists
  <2>2. k \in Tasks(P) /\ k.read = NoBrief /\ k.facts = lines
    <3>1. "brief" \in P /\ lines \in Seq(Recorders)
      BY <1>p, SeenTypes DEF Base
    <3>2. k \in Tasks(P) /\ k.read = Idle.read /\ k.facts = lines
      BY <1>3, <3>1, TaskLists
    <3> QED  BY <1>3, <3>2
  <2> HIDE DEF k
  <2> QED  BY <2>1, <2>2, <1>4
<1>6. ASSUME RegenReadBrief(e)
      PROVE  /\ regen' \in [Entities -> RegenTasks]
             /\ regen'[e].read = brief[e] /\ regen'[e].facts = regen[e].facts
             /\ \A d \in Entities \ {e} : regen'[d] = regen[d]
  <2> DEFINE k == Reads(regen[e], "write", brief[e], ver[e])
  <2>1. regen' = [regen EXCEPT ![e] = k]
    BY <1>6, <1>1 DEF RegenReadBrief, Reads
  <2>2. k \in Tasks(P) /\ k.read = brief[e] /\ k.facts = regen[e].facts
    <3>1. "write" \in P /\ regen[e] \in Tasks(P)
      BY <1>p, <1>1
    <3> QED  BY <1>3, <3>1, TaskReads
  <2> HIDE DEF k
  <2> QED  BY <2>1, <2>2, <1>4
<1>7. ASSUME regen' \in {[regen EXCEPT ![e] = Idle],
                         [regen EXCEPT ![e] = [Idle EXCEPT !.pc = "waiting"]]}
      PROVE  /\ regen' \in [Entities -> RegenTasks]
             /\ regen'[e].read = NoBrief /\ regen'[e].facts = <<>>
             /\ \A d \in Entities \ {e} : regen'[d] = regen[d]
  <2> DEFINE k == [Idle EXCEPT !.pc = "waiting"]
  <2>1. k \in Tasks(P) /\ k.read = NoBrief /\ k.facts = <<>>
    BY <1>3, <1>p, TaskUpdates
  <2>2. regen' = [regen EXCEPT ![e] = Idle] \/ regen' = [regen EXCEPT ![e] = k]
    BY <1>7
  <2> HIDE DEF k
  <2> QED  BY <1>3, <1>4, <2>1, <2>2
<1> QED  BY <1>2, <1>5, <1>6, <1>7

LEMMA WatchSteps ==
  ASSUME Base, NEW e \in Entities
  PROVE  /\ watch[e].read \in Bodies
         /\ WatcherRead(e) =>
              /\ watch' \in [Entities -> WatchTasks]
              /\ watch'[e].read = brief[e] /\ watch'[e].facts = <<>>
              /\ \A d \in Entities \ {e} : watch'[d] = watch[d]
         /\ WatcherCheck(e) =>
              /\ watch' \in [Entities -> WatchTasks]
              /\ \/ watch'[e].read = NoBrief /\ watch'[e].facts = <<>>
                 \/ watch'[e].read = watch[e].read /\ watch'[e].facts = watch[e].facts
              /\ \A d \in Entities \ {e} : watch'[d] = watch[d]
         /\ WatcherCommit(e) =>
              /\ watch' \in [Entities -> WatchTasks]
              /\ watch'[e].read = NoBrief /\ watch'[e].facts = <<>>
              /\ \A d \in Entities \ {e} : watch'[d] = watch[d]
<1> DEFINE P == {"idle", "check", "commit"}
<1>1. watch \in [Entities -> Tasks(P)] /\ WatchTasks = Tasks(P)
  BY DEF Base, TypeOK, WatchTasks
<1>p. "idle" \in P /\ "check" \in P /\ "commit" \in P
  OBVIOUS
<1> HIDE DEF P
<1>2. watch[e].read \in Bodies /\ watch[e] \in Tasks(P)
  BY <1>1 DEF Tasks
<1>3. /\ brief[e] \in Bodies /\ ver[e] \in Nat
      /\ Idle \in Tasks(P) /\ Idle.read = NoBrief /\ Idle.facts = <<>>
  BY <1>p, IdleType DEF Base, TypeOK
<1>4. ASSUME NEW k \in Tasks(P), watch' = [watch EXCEPT ![e] = k]
      PROVE  /\ watch' \in [Entities -> WatchTasks] /\ watch'[e] = k
             /\ \A d \in Entities \ {e} : watch'[d] = watch[d]
  BY <1>1, <1>4
<1>5. ASSUME WatcherRead(e)
      PROVE  /\ watch' \in [Entities -> WatchTasks]
             /\ watch'[e].read = brief[e] /\ watch'[e].facts = <<>>
             /\ \A d \in Entities \ {e} : watch'[d] = watch[d]
  <2> DEFINE k == Reads(Idle, "check", brief[e], ver[e])
  <2>1. watch' = [watch EXCEPT ![e] = k]
    BY <1>5 DEF WatcherRead, Reads
  <2>2. k \in Tasks(P) /\ k.read = brief[e] /\ k.facts = <<>>
    BY <1>3, <1>p, TaskReads
  <2> HIDE DEF k
  <2> QED  BY <2>1, <2>2, <1>4
<1>6. ASSUME WatcherCheck(e)
      PROVE  /\ watch' \in [Entities -> WatchTasks]
             /\ \/ watch'[e].read = NoBrief /\ watch'[e].facts = <<>>
                \/ watch'[e].read = watch[e].read /\ watch'[e].facts = watch[e].facts
             /\ \A d \in Entities \ {e} : watch'[d] = watch[d]
  <2> DEFINE k == [watch[e] EXCEPT !.pc = "commit"]
  <2>1. watch' = [watch EXCEPT ![e] = Idle] \/ watch' = [watch EXCEPT ![e] = k]
    BY <1>6, <1>1 DEF WatcherCheck
  <2>2. k \in Tasks(P) /\ k.read = watch[e].read /\ k.facts = watch[e].facts
    BY <1>2, <1>p, TaskUpdates
  <2> HIDE DEF k
  <2> QED  BY <2>1, <2>2, <1>3, <1>4
<1>7. ASSUME WatcherCommit(e)
      PROVE  /\ watch' \in [Entities -> WatchTasks]
             /\ watch'[e].read = NoBrief /\ watch'[e].facts = <<>>
             /\ \A d \in Entities \ {e} : watch'[d] = watch[d]
  <2>1. watch' = [watch EXCEPT ![e] = Idle]
    BY <1>7 DEF WatcherCommit
  <2> QED  BY <2>1, <1>3, <1>4
<1> QED  BY <1>2, <1>5, <1>6, <1>7

\* The web editor.
LEMMA SaveSteps ==
  ASSUME Base
  PROVE  /\ save.read \in Bodies /\ save.seen \in Nat /\ save.sha \in Nat
         /\ save.facts \in Seq(Recorders)
         /\ Idle \in SaveTasks /\ Holds(Idle, "idle", NoOne, NoBrief, <<>>)
         /\ \A e \in Entities : OpenEditor(e) =>
              save' \in SaveTasks /\ Holds(save', "open", e, brief[e], <<>>)
         /\ LET u == [save EXCEPT !.pc = "waiting"] IN
            u \in SaveTasks /\ Holds(u, "waiting", save.e, save.read, save.facts)
<1> USE DEF SaveTasks, Holds
<1> DEFINE P == {"idle", "open", "waiting"}
<1>1. save \in Tasks(P)
  BY DEF Base, TypeOK
<1>2. {"idle", "open"} \subseteq P /\ "idle" \in P /\ "waiting" \in P
  OBVIOUS
<1> HIDE DEF P
<1>3. save.read \in Bodies /\ save.seen \in Nat /\ save.sha \in Nat /\ save.facts \in Seq(Recorders)
  BY <1>1 DEF Tasks
<1>4. Idle \in Tasks(P) /\ Holds(Idle, "idle", NoOne, NoBrief, <<>>)
  BY <1>2, IdleType
<1>5. ASSUME NEW e \in Entities, OpenEditor(e)
      PROVE  save' \in Tasks(P) /\ Holds(save', "open", e, brief[e], <<>>)
  <2>1. brief[e] \in Bodies /\ ver[e] \in Nat /\ head[e] \in Nat
    BY DEF Base, TypeOK
  <2>2. save' = Opens(e, brief[e], ver[e], head[e])
    BY <1>5 DEF OpenEditor, Opens
  <2> QED  BY <1>2, <2>1, <2>2, EditorOpens
<1>6. LET u == [save EXCEPT !.pc = "waiting"] IN
      u \in Tasks(P) /\ Holds(u, "waiting", save.e, save.read, save.facts)
  BY <1>1, <1>2, TaskUpdates
<1> QED  BY <1>3, <1>4, <1>5, <1>6 DEF P

\* A brief is written, whether or not git accepts it.
LEMMA CommitWrites ==
  ASSUME TypeOK, NEW e \in Entities, NEW body \in Bodies, NEW ok \in BOOLEAN,
         Commit(e, body, ok)
  PROVE  /\ brief' \in [Entities -> Bodies] /\ brief'[e] = body
         /\ \A d \in Entities \ {e} : brief'[d] = brief[d]
         /\ ver' \in [Entities -> Nat] /\ head' \in [Entities -> Nat]
         /\ armed' \subseteq Entities /\ log' = log /\ filling' = filling
         /\ spent' \in [inputs : Nat, giveUps : Nat]
<1>1. /\ brief \in [Entities -> Bodies] /\ ver \in [Entities -> Nat]
      /\ head \in [Entities -> Nat] /\ armed \subseteq Entities
      /\ spent \in [inputs : Nat, giveUps : Nat]
  BY DEF TypeOK
<1>2. spent' \in [inputs : Nat, giveUps : Nat]
  BY <1>1, SpentType DEF Commit
<1>3. brief' = [brief EXCEPT ![e] = body] /\ armed' = armed \union {e} /\ log' = log
      /\ filling' = filling
  BY DEF Commit
<1>4. ver' \in [Entities -> Nat]
  BY <1>1 DEF Commit
<1>5. head' \in [Entities -> Nat]
  BY <1>1 DEF Commit
<1> QED  BY <1>1, <1>2, <1>3, <1>4, <1>5

-----------------------------------------------------------------------------
(* Every step keeps the types. *)

\* What stands in the queue.
LEMMA WriteTypes ==
  ASSUME NEW q \in Writes
  PROVE  /\ q.e \in Entities
         /\ q.to = "log" => q.body \in Seq(Recorders) /\ q.from \in Recorders \union {NoOne}
         /\ q.to # "log" => q.body \in Bodies /\ q.to \in {"brief", "edit"}
                            /\ q.from \in {"synth", "regen", "editor", NoOne}
  BY DEF Writes, LogWrites, BriefWrites

\* The two kinds of write.
LEMMA WriteKinds ==
  ASSUME NEW e \in Entities, NEW seen \in Nat, NEW sha \in Nat
  PROVE  /\ \A body \in Seq(Recorders), from \in Recorders :
              [to |-> "log", e |-> e, body |-> body, from |-> from,
               seen |-> seen, sha |-> sha] \in Writes
         /\ \A to \in {"brief", "edit"}, body \in Bodies, from \in {"synth", "regen", "editor"} :
              [to |-> to, e |-> e, body |-> body, from |-> from,
               seen |-> seen, sha |-> sha] \in Writes
<1>1. \A body \in Seq(Recorders), from \in Recorders :
        [to |-> "log", e |-> e, body |-> body, from |-> from,
         seen |-> seen, sha |-> sha] \in LogWrites
  BY DEF LogWrites
<1>2. \A to \in {"brief", "edit"}, body \in Bodies, from \in {"synth", "regen", "editor"} :
        [to |-> to, e |-> e, body |-> body, from |-> from,
         seen |-> seen, sha |-> sha] \in BriefWrites
  BY DEF BriefWrites
<1> QED  BY <1>1, <1>2 DEF Writes

\* A fact's own write.
LEMMA FactWrites ==
  ASSUME Base, NEW r \in Recorders, NEW seen \in Seq(Recorders), ~Saturated,
         EnqueueEntityFact(r, seen)
  PROVE  /\ requests' \in Seq(Writes) /\ Len(requests') <= MaxRequests
         /\ \A i \in DOMAIN requests : i \in DOMAIN requests' /\ requests'[i] = requests[i]
         /\ \A i \in DOMAIN requests' \ DOMAIN requests :
              /\ i = Len(requests) + 1
              /\ requests'[i].to = "log" /\ requests'[i].e = EntityOf[r]
              /\ requests'[i].body = Append(seen, r) /\ requests'[i].from = r
<1> DEFINE e == EntityOf[r]
           b == Append(seen, r)
           q == [to |-> "log", e |-> e, body |-> b, from |-> r, seen |-> 0, sha |-> 0]
<1>1. e \in Entities /\ requests \in Seq(Writes)
  BY EntityOfType DEF Base, TypeOK, Writes
<1>2. b \in Seq(Recorders)
  BY <1>1
<1>3. Request("log", e, b, r, 0, 0)
  BY DEF EnqueueEntityFact
<1> HIDE DEF e, b
<1>4. q \in Writes /\ q.to = "log" /\ q.e = e /\ q.body = b /\ q.from = r
  BY <1>1, <1>2, WriteKinds
<1>5. /\ requests' \in Seq(Writes) /\ Len(requests') <= MaxRequests
      /\ \A i \in DOMAIN requests : i \in DOMAIN requests' /\ requests'[i] = requests[i]
      /\ \A i \in DOMAIN requests' \ DOMAIN requests :
           i = Len(requests) + 1 /\ requests'[i] = q
  BY <1>1, <1>3, <1>4, RequestAppends
<1> HIDE DEF q
<1> QED  BY <1>4, <1>5 DEF e, b

\* A write of a brief.
LEMMA BriefWrite ==
  ASSUME Base, ~Saturated, NEW to \in {"brief", "edit"}, NEW e \in Entities,
         NEW body \in Bodies, NEW from \in {"synth", "regen", "editor"},
         NEW seen \in Nat, NEW sha \in Nat, Request(to, e, body, from, seen, sha)
  PROVE  /\ requests' \in Seq(Writes) /\ Len(requests') <= MaxRequests
         /\ \A i \in DOMAIN requests : i \in DOMAIN requests' /\ requests'[i] = requests[i]
         /\ \A i \in DOMAIN requests' \ DOMAIN requests :
              /\ i = Len(requests) + 1
              /\ requests'[i].to = to /\ requests'[i].e = e
              /\ requests'[i].body = body /\ requests'[i].from = from
<1> DEFINE q == [to |-> to, e |-> e, body |-> body, from |-> from, seen |-> seen, sha |-> sha]
<1>1. requests \in Seq(Writes)
  BY DEF Base, TypeOK, Writes
<1>2. q \in Writes
  BY WriteKinds
<1>3. q.to = to /\ q.e = e /\ q.body = body /\ q.from = from
  OBVIOUS
<1>4. /\ requests' \in Seq(Writes) /\ Len(requests') <= MaxRequests
      /\ \A i \in DOMAIN requests : i \in DOMAIN requests' /\ requests'[i] = requests[i]
      /\ \A i \in DOMAIN requests' \ DOMAIN requests :
           i = Len(requests) + 1 /\ requests'[i] = q
  BY <1>1, <1>2, RequestAppends
<1> HIDE DEF q
<1> QED  BY <1>3, <1>4

\* A fact is answered as it stands, or refused, or written behind what was read.
AppendQuiet(r) ==
  /\ post' \in {Moved(r, "brief"), Moved(r, "idle")}
  /\ UNCHANGED <<logLock, requests, cut>>
AppendSends(r, seen) ==
  /\ ~Saturated /\ logLock = NoOne /\ seen \in Prefixes(log[EntityOf[r]])
  /\ EnqueueEntityFact(r, seen)
  /\ cut' = IF seen = log[EntityOf[r]] THEN cut ELSE cut \union {EntityOf[r]}
LEMMA AppendCases ==
  ASSUME spent \in [inputs : Nat, giveUps : Nat], NEW r \in Recorders, AppendFact(r)
  PROVE  /\ spent' \in [inputs : Nat, giveUps : Nat]
         /\ AppendQuiet(r) \/ (\E seen : AppendSends(r, seen))
<1> DEFINE e == EntityOf[r]
<1>1. /\ logLock = NoOne
      /\ \E seen \in Prefixes(log[e]) :
           /\ ReadExisting(e, seen)
           /\ \/ /\ post' = [post EXCEPT ![r].pc = "brief"]
                 /\ UNCHANGED <<logLock, requests, cut>>
              \/ /\ post' = [post EXCEPT ![r].pc = "idle"]
                 /\ UNCHANGED <<logLock, requests, cut>>
              \/ /\ ~Saturated
                 /\ EnqueueEntityFact(r, seen)
                 /\ cut' = IF seen = log[e] THEN cut ELSE cut \union {e}
  BY DEF AppendFact
<1>2. PICK seen \in Prefixes(log[e]) :
           /\ ReadExisting(e, seen)
           /\ \/ /\ post' = [post EXCEPT ![r].pc = "brief"]
                 /\ UNCHANGED <<logLock, requests, cut>>
              \/ /\ post' = [post EXCEPT ![r].pc = "idle"]
                 /\ UNCHANGED <<logLock, requests, cut>>
              \/ /\ ~Saturated
                 /\ EnqueueEntityFact(r, seen)
                 /\ cut' = IF seen = log[e] THEN cut ELSE cut \union {e}
  BY <1>1
<1>3. spent' \in [inputs : Nat, giveUps : Nat]
  BY <1>2, SpentType DEF ReadExisting
<1>4. AppendQuiet(r) \/ AppendSends(r, seen)
  BY <1>1, <1>2 DEF AppendQuiet, AppendSends, Moved
<1> QED  BY <1>3, <1>4

\* The handlers of POST /entity/fact.
LEMMA HandlerTypes ==
  ASSUME Base, NEW r \in Recorders, PostFact(r) \/ Handler(r) \/ AppendGivesUp(r)
  PROVE  TypeOK'
<1> USE DEF files, queue, history
<1>1. /\ TypeOK /\ post \in [Recorders -> Posts] /\ requests \in Seq(Writes)
      /\ spent \in [inputs : Nat, giveUps : Nat] /\ EntityOf[r] \in Entities
  BY EntityOfType DEF Base, TypeOK, Writes
<1>2. CASE PostFact(r)
  <2> DEFINE k == [pc |-> "lock", again |-> TRUE, prior |-> 0]
  <2>1. k \in Posts
    BY DEF Posts
  <2>2. post' = [post EXCEPT ![r] = k]
    BY <1>2 DEF PostFact
  <2> HIDE DEF k
  <2>3. post' \in [Recorders -> Posts]
    BY <1>1, <2>1, <2>2
  <2>4. spent' \in [inputs : Nat, giveUps : Nat]
    BY <1>1, <1>2, SpentType DEF PostFact
  <2> QED  BY <1>1, <1>2, <2>3, <2>4 DEF PostFact, TypeOK
<1>3. CASE AppendFact(r)
  <2>0. /\ spent' \in [inputs : Nat, giveUps : Nat]
        /\ AppendQuiet(r) \/ (\E seen : AppendSends(r, seen))
    BY <1>1, <1>3, AppendCases
  <2>1. CASE AppendQuiet(r)
    <3>1. post' \in [Recorders -> Posts]
      BY <1>1, <2>1, PostMoves DEF AppendQuiet
    <3> QED  BY <1>1, <1>3, <2>0, <2>1, <3>1 DEF AppendFact, TypeOK, AppendQuiet
  <2>2. ASSUME NEW seen, AppendSends(r, seen)
        PROVE  TypeOK'
    <3>0. post' = Moved(r, "waiting") /\ logLock' = r
      BY <2>2 DEF AppendSends, EnqueueEntityFact, Moved
    <3>1. post' \in [Recorders -> Posts] /\ logLock' = r
      BY <1>1, <3>0, PostMoves
    <3>2. requests' \in Seq(Writes) /\ Len(requests') <= MaxRequests
      BY <1>1, <2>2, SeenTypes, FactWrites DEF AppendSends
    <3>3. cut' \subseteq Entities
      BY <1>1, <2>2 DEF AppendSends, TypeOK
    <3> QED  BY <1>1, <1>3, <2>0, <3>1, <3>2, <3>3 DEF AppendFact, TypeOK, Writes
  <2> QED  BY <2>0, <2>1, <2>2
<1>4. CASE ReadPriorCount(r)
  <2>1. brief[EntityOf[r]].count \in Nat
    BY <1>1 DEF TypeOK, Bodies
  <2>2. post' \in [Recorders -> Posts]
    <3> DEFINE n == brief[EntityOf[r]].count
    <3>1. post' = MovedOn(r, "list", n) /\ n \in Nat
      BY <1>4, <2>1 DEF ReadPriorCount, MovedOn
    <3> HIDE DEF n
    <3> QED  BY <1>1, <3>1, PostMoves
  <2> QED  BY <1>1, <1>4, <2>2 DEF ReadPriorCount, TypeOK
<1>5. CASE CheckThreshold(r)
  <2>1. post' \in [Recorders -> Posts]
    <3>1. PICK p \in {"trigger", "done"} : post' = Moved(r, p)
      BY <1>5 DEF CheckThreshold, Moved
    <3> QED  BY <1>1, <3>1, PostMoves
  <2>2. spent' \in [inputs : Nat, giveUps : Nat] /\ excused' \subseteq Entities
    BY <1>1, <1>5, SpentType DEF CheckThreshold, TypeOK
  <2> QED  BY <1>1, <1>5, <2>1, <2>2 DEF CheckThreshold, TypeOK
<1>6. CASE TriggerSynthesis(r)
  <2>1. post' \in [Recorders -> Posts]
    <3>1. post' = Moved(r, "done")
      BY <1>6 DEF TriggerSynthesis, Moved
    <3> QED  BY <1>1, <3>1, PostMoves
  <2>2. /\ jobs' \in Seq(Entities) /\ Len(jobs') <= MaxJobs
        /\ queued' \subseteq Entities /\ inflight' = inflight
        /\ owed' \subseteq Entities /\ excused' \subseteq Entities
        /\ confirmed' = confirmed /\ cut' = cut
    BY <1>1, <1>6, EnqueueTypes DEF TriggerSynthesis
  <2> QED  BY <1>1, <1>6, <2>1, <2>2 DEF TriggerSynthesis, TypeOK
<1>7. CASE AppendGivesUp(r)
  <2>1. post' \in [Recorders -> Posts]
    <3>1. post' = Moved(r, "idle")
      BY <1>7 DEF AppendGivesUp, Moved
    <3> QED  BY <1>1, <3>1, PostMoves
  <2>2. requests' \in Seq(Writes) /\ Len(requests') = Len(requests)
    BY <1>1, <1>7, GiveUpLeaves DEF AppendGivesUp
  <2>3. spent' \in [inputs : Nat, giveUps : Nat]
    BY <1>1, <1>7, SpentType DEF AppendGivesUp
  <2> QED  BY <1>1, <1>7, <2>1, <2>2, <2>3 DEF AppendGivesUp, TypeOK, Writes
<1> QED  BY <1>2, <1>3, <1>4, <1>5, <1>6, <1>7 DEF Handler

\* Requests for a synthesis, and the synthesis worker.
LEMMA SynthesizerTypes ==
  ASSUME Base, Synthesizer \/ SynthGivesUp \/ (\E e \in Entities : AskSynthesis(e))
  PROVE  TypeOK'
<1> USE DEF files, queue, history
<1>1. /\ TypeOK /\ requests \in Seq(Writes)
      /\ spent \in [inputs : Nat, giveUps : Nat]
      /\ synth.pc # "idle" => synth.e \in Entities
      /\ \A p \in {"brief", "waiting", "finish"} : [synth EXCEPT !.pc = p] \in SynthTasks
  BY SynthSteps DEF Base, TypeOK, Writes
<1>2. ASSUME NEW e \in Entities, AskSynthesis(e)
      PROVE  TypeOK'
  <2>1. /\ jobs' \in Seq(Entities) /\ Len(jobs') <= MaxJobs
        /\ queued' \subseteq Entities /\ inflight' = inflight
        /\ owed' \subseteq Entities /\ excused' \subseteq Entities
        /\ confirmed' = confirmed /\ cut' = cut
    BY <1>1, <1>2, EnqueueTypes DEF AskSynthesis
  <2>2. spent' \in [inputs : Nat, giveUps : Nat]
    BY <1>1, <1>2, SpentType DEF AskSynthesis
  <2> QED  BY <1>1, <1>2, <2>1, <2>2 DEF AskSynthesis, TypeOK
<1>3. ASSUME NEW e \in Entities, FollowUp(e)
      PROVE  TypeOK'
  <2>1. /\ jobs' \in Seq(Entities) /\ Len(jobs') <= MaxJobs
        /\ queued' \subseteq Entities /\ inflight' = inflight
        /\ owed' \subseteq Entities /\ excused' \subseteq Entities
        /\ confirmed' = confirmed /\ cut' = cut
    BY <1>1, <1>3, EnqueueTypes DEF FollowUp
  <2>2. followups' \in [Entities -> Nat]
    <3>1. followups \in [Entities -> Nat]
      BY <1>1 DEF TypeOK
    <3>2. followups[e] - 1 \in Nat
      BY <1>3, <3>1 DEF FollowUp
    <3> QED  BY <1>3, <3>1, <3>2 DEF FollowUp
  <2> QED  BY <1>1, <1>3, <2>1, <2>2 DEF FollowUp, TypeOK
<1>4. CASE Receive
  <2>1. synth' \in SynthTasks
    BY <1>4, SynthSteps
  <2>2. jobs' \in Seq(Entities) /\ Len(jobs') <= MaxJobs
    <3>1. jobs \in Seq(Entities) /\ Len(jobs) <= MaxJobs /\ jobs # <<>> /\ jobs' = Tail(jobs)
      BY <1>1, <1>4 DEF Receive, TypeOK
    <3>2. MaxJobs \in Nat
      BY BoundsAreNat
    <3> QED  BY <3>1, <3>2
  <2> QED  BY <1>1, <1>4, <2>1, <2>2 DEF Receive, TypeOK
<1>5. CASE BeginRun
  <2>1. synth' \in SynthTasks /\ synth.e \in Entities
    BY <1>1, <1>5 DEF BeginRun
  <2> QED  BY <1>1, <1>5, <2>1 DEF BeginRun, TypeOK
<1>6. CASE SynthReadBrief
  <2>1. synth' \in SynthTasks
    BY <1>6, SynthSteps
  <2> QED  BY <1>1, <1>6, <2>1 DEF SynthReadBrief, TypeOK
<1>7. CASE SynthListFacts
  <2>1. synth' \in SynthTasks
    BY <1>7, SynthSteps
  <2>2. spent' \in [inputs : Nat, giveUps : Nat] /\ excused' \subseteq Entities
    BY <1>1, <1>7, SpentType DEF SynthListFacts, TypeOK
  <2> QED  BY <1>1, <1>7, <2>1, <2>2 DEF SynthListFacts, TypeOK
<1>8. CASE SynthWrite
  <2>1. synth' \in SynthTasks /\ synth.e \in Entities
    BY <1>1, <1>8 DEF SynthWrite
  <2>2. spent' \in [inputs : Nat, giveUps : Nat]
    BY <1>1, <1>8, SpentType DEF SynthWrite
  <2>3. requests' \in Seq(Writes) /\ Len(requests') <= MaxRequests
    <3>1. CASE UNCHANGED requests
      BY <1>1, <3>1 DEF TypeOK
    <3>2. CASE ~Saturated /\ Request("brief", synth.e, SynthesizedBody, "synth", synth.seen, 0)
      <4>1. SynthesizedBody \in Bodies
        BY SynthSteps, SynthesizedBodyType
      <4>2. synth.seen \in Nat
        BY <1>1 DEF TypeOK, SynthTasks, Tasks
      <4> QED  BY <2>1, <3>2, <4>1, <4>2, BriefWrite
    <3> QED  BY <1>8, <3>1, <3>2 DEF SynthWrite
  <2>4. excused' \subseteq Entities
    BY <1>1, <1>8, <2>1 DEF SynthWrite, TypeOK
  <2> QED  BY <1>1, <1>8, <2>1, <2>2, <2>3, <2>4 DEF SynthWrite, TypeOK, Writes
<1>9. CASE FinishRun
  <2>1. synth' \in SynthTasks /\ synth.e \in Entities
    BY <1>1, <1>9, IdleType DEF FinishRun, SynthTasks
  <2>2. followups' \in [Entities -> Nat]
    <3>1. followups \in [Entities -> Nat]
      BY <1>1 DEF TypeOK
    <3>2. followups[synth.e] + 1 \in Nat
      BY <2>1, <3>1
    <3> QED  BY <1>9, <2>1, <3>1, <3>2 DEF FinishRun
  <2> QED  BY <1>1, <1>9, <2>1, <2>2 DEF FinishRun, TypeOK
<1>10. CASE SynthGivesUp
  <2>1. synth' \in SynthTasks /\ synth.e \in Entities
    BY <1>1, <1>10 DEF SynthGivesUp
  <2>2. requests' \in Seq(Writes) /\ Len(requests') = Len(requests)
    BY <1>1, <1>10, GiveUpLeaves DEF SynthGivesUp
  <2>3. spent' \in [inputs : Nat, giveUps : Nat]
    BY <1>1, <1>10, SpentType DEF SynthGivesUp
  <2> QED  BY <1>1, <1>10, <2>1, <2>2, <2>3 DEF SynthGivesUp, TypeOK, Writes
<1> QED  BY <1>2, <1>3, <1>4, <1>5, <1>6, <1>7, <1>8, <1>9, <1>10 DEF Synthesizer

\* What the watcher commits is the brief it has read, stamped.
LEMMA WatcherBody ==
  ASSUME Base, NEW e \in Entities
  PROVE  LET b == [watch[e].read EXCEPT !.newer = @ \/ watch[e].read.front] IN
         b \in Bodies /\ b.count = watch[e].read.count
<1> DEFINE k == watch[e].read
           n == k.newer \/ k.front
<1>1. k \in Bodies
  BY WatchSteps
<1>2. n \in BOOLEAN
  BY <1>1 DEF Bodies
<1> HIDE DEF k, n
<1>3. [k EXCEPT !.newer = n] \in Bodies /\ [k EXCEPT !.newer = n].count = k.count
  BY <1>1, <1>2, BodyUpdates
<1> QED  BY <1>3 DEF k, n

\* The article generator, the watcher and the people behind it.
LEMMA WriterTypes ==
  ASSUME Base, NEW e \in Entities,
         \/ RegenListFacts(e) \/ Generator(e) \/ RegenGivesUp(e)
         \/ ObsidianEdit(e) \/ Watcher(e)
  PROVE  TypeOK'
<1> USE DEF files, queue, history
<1>1. /\ TypeOK /\ requests \in Seq(Writes)
      /\ spent \in [inputs : Nat, giveUps : Nat] /\ spent.inputs \in Nat
      /\ brief \in [Entities -> Bodies] /\ ver \in [Entities -> Nat]
      /\ regen[e].read \in Bodies /\ regen[e].facts \in Seq(Recorders)
      /\ regen[e].seen \in Nat
  BY RegenSteps DEF Base, TypeOK, Writes, RegenTasks, Tasks
<1>2. CASE RegenListFacts(e)
  <2>1. regen' \in [Entities -> RegenTasks]
    BY <1>2, RegenSteps
  <2>2. spent' \in [inputs : Nat, giveUps : Nat]
    BY <1>1, <1>2, SpentType DEF RegenListFacts
  <2> QED  BY <1>1, <1>2, <2>1, <2>2 DEF RegenListFacts, TypeOK
<1>3. CASE RegenReadBrief(e)
  <2>1. regen' \in [Entities -> RegenTasks]
    BY <1>3, RegenSteps
  <2> QED  BY <1>1, <1>3, <2>1 DEF RegenReadBrief, TypeOK
<1>4. CASE RegenWrite(e)
  <2>1. regen' \in [Entities -> RegenTasks]
    BY <1>4, RegenSteps DEF RegenWrite
  <2>2. requests' \in Seq(Writes) /\ Len(requests') <= MaxRequests
    <3>1. CASE UNCHANGED requests
      BY <1>1, <3>1 DEF TypeOK
    <3>2. CASE ~Saturated /\ Request("brief", e, ArticleBody(e), "regen", regen[e].seen, 0)
      BY <1>1, <3>2, ArticleBodyType, BriefWrite
    <3> QED  BY <1>4, <3>1, <3>2 DEF RegenWrite
  <2> QED  BY <1>1, <1>4, <2>1, <2>2 DEF RegenWrite, TypeOK, Writes
<1>5. CASE RegenGivesUp(e)
  <2>1. regen' \in [Entities -> RegenTasks]
    BY <1>5, RegenSteps DEF RegenGivesUp
  <2>2. requests' \in Seq(Writes) /\ Len(requests') = Len(requests)
    BY <1>1, <1>5, GiveUpLeaves DEF RegenGivesUp
  <2>3. spent' \in [inputs : Nat, giveUps : Nat]
    BY <1>1, <1>5, SpentType DEF RegenGivesUp
  <2> QED  BY <1>1, <1>5, <2>1, <2>2, <2>3 DEF RegenGivesUp, TypeOK, Writes
<1>6. CASE ObsidianEdit(e)
  <2>1. PICK body \in Edited(brief[e]) : brief' = [brief EXCEPT ![e] = body]
    BY <1>6 DEF ObsidianEdit
  <2>2. body \in Bodies
    BY <1>1, EditedBody
  <2>3. brief' \in [Entities -> Bodies] /\ ver' \in [Entities -> Nat]
    BY <1>1, <1>6, <2>1, <2>2 DEF ObsidianEdit
  <2>4. spent' \in [inputs : Nat, giveUps : Nat]
    BY <1>1, <1>6, SpentType DEF ObsidianEdit
  <2>5. armed' \subseteq Entities
    BY <1>1, <1>6 DEF ObsidianEdit, TypeOK
  <2> QED  BY <1>1, <1>6, <2>3, <2>4, <2>5 DEF ObsidianEdit, TypeOK
<1>7. CASE WatcherRead(e)
  <2>1. watch' \in [Entities -> WatchTasks]
    BY <1>7, WatchSteps
  <2> QED  BY <1>1, <1>7, <2>1 DEF WatcherRead, TypeOK
<1>8. CASE WatcherCheck(e)
  <2>1. watch' \in [Entities -> WatchTasks]
    BY <1>8, WatchSteps
  <2> QED  BY <1>1, <1>8, <2>1 DEF WatcherCheck, TypeOK
<1>9. CASE WatcherCommit(e)
  <2>1. watch' \in [Entities -> WatchTasks]
    BY <1>9, WatchSteps
  <2>2. /\ brief' \in [Entities -> Bodies] /\ ver' \in [Entities -> Nat]
        /\ head' \in [Entities -> Nat] /\ armed' \subseteq Entities
        /\ log' = log /\ filling' = filling
        /\ spent' \in [inputs : Nat, giveUps : Nat]
    <3> DEFINE b == [watch[e].read EXCEPT !.newer = @ \/ watch[e].read.front]
    <3>1. b \in Bodies
      BY WatcherBody
    <3>2. \E ok \in BOOLEAN : Commit(e, b, ok)
      BY <1>9 DEF WatcherCommit
    <3> HIDE DEF b
    <3> QED  BY <1>1, <3>1, <3>2, CommitWrites
  <2>3. excused' \subseteq Entities
    BY <1>1, <1>9 DEF WatcherCommit, Undoes, TypeOK
  <2> QED  BY <1>1, <1>9, <2>1, <2>2, <2>3 DEF WatcherCommit, TypeOK
<1> QED  BY <1>2, <1>3, <1>4, <1>5, <1>6, <1>7, <1>8, <1>9 DEF Generator, Watcher

\* The web editor.
LEMMA EditorTypes ==
  ASSUME Base, (\E e \in Entities : OpenEditor(e)) \/ SaveEdit \/ SaveGivesUp
  PROVE  TypeOK'
<1> USE DEF files, queue, history
<1>1. /\ TypeOK /\ requests \in Seq(Writes)
      /\ spent \in [inputs : Nat, giveUps : Nat] /\ spent.inputs \in Nat
      /\ save.pc # "idle" => save.e \in Entities
  BY DEF Base, TypeOK, Writes, TasksAgree
<1>2. ASSUME NEW e \in Entities, OpenEditor(e)
      PROVE  TypeOK'
  <2>1. save' \in SaveTasks
    BY <1>2, SaveSteps
  <2> QED  BY <1>1, <1>2, <2>1 DEF OpenEditor, TypeOK
<1>3. CASE SaveEdit
  <2>1. save' \in SaveTasks
    BY <1>3, SaveSteps DEF SaveEdit
  <2>2. requests' \in Seq(Writes) /\ Len(requests') <= MaxRequests
    <3>1. CASE UNCHANGED requests
      BY <1>1, <3>1 DEF TypeOK
    <3>2. CASE ~Saturated /\ \E body \in Edited(save.read) :
                 Request("edit", save.e, body, "editor", save.seen, save.sha)
      <4>1. PICK body \in Edited(save.read) :
              Request("edit", save.e, body, "editor", save.seen, save.sha)
        BY <3>2
      <4>2. body \in Bodies /\ save.seen \in Nat /\ save.sha \in Nat
        BY <1>1, SaveSteps, EditedBody
      <4>3. save.e \in Entities
        BY <1>1, <1>3 DEF SaveEdit
      <4> QED  BY <3>2, <4>1, <4>2, <4>3, BriefWrite
    <3> QED  BY <1>3, <3>1, <3>2 DEF SaveEdit
  <2>3. spent' \in [inputs : Nat, giveUps : Nat]
    BY <1>1, <1>3, SpentType DEF SaveEdit
  <2> QED  BY <1>1, <1>3, <2>1, <2>2, <2>3 DEF SaveEdit, TypeOK, Writes
<1>4. CASE SaveGivesUp
  <2>1. save' \in SaveTasks
    BY <1>4, SaveSteps DEF SaveGivesUp
  <2>2. requests' \in Seq(Writes) /\ Len(requests') = Len(requests)
    BY <1>1, <1>4, GiveUpLeaves DEF SaveGivesUp
  <2>3. spent' \in [inputs : Nat, giveUps : Nat]
    BY <1>1, <1>4, SpentType DEF SaveGivesUp
  <2> QED  BY <1>1, <1>4, <2>1, <2>2, <2>3 DEF SaveGivesUp, TypeOK, Writes
<1> QED  BY <1>2, <1>3, <1>4

\* The wiki worker's first write.
LEMMA FirstWrite ==
  ASSUME Base, requests # <<>>, requests' = Tail(requests)
  PROVE  /\ requests' \in Seq(Writes) /\ Len(requests') <= MaxRequests
         /\ Head(requests) = requests[1] /\ 1 \in DOMAIN requests
         /\ Head(requests) \in Writes
         /\ \A i \in DOMAIN requests' :
              i \in Nat \ {0} /\ i + 1 \in DOMAIN requests /\ requests'[i] = requests[i + 1]
<1>1. requests \in Seq(Writes) /\ Len(requests) <= MaxRequests
  BY DEF Base, TypeOK, Writes
<1>2. MaxRequests \in Nat
  BY BoundsAreNat
<1>3. /\ requests' \in Seq(Writes) /\ Len(requests') = Len(requests) - 1
      /\ Head(requests) = requests[1] /\ 1 \in DOMAIN requests
      /\ \A i \in DOMAIN requests' :
           i \in Nat \ {0} /\ i + 1 \in DOMAIN requests /\ requests'[i] = requests[i + 1]
  BY <1>1, WorkerTakes
<1>4. Len(requests') <= MaxRequests /\ Head(requests) \in Writes
  BY <1>1, <1>2, <1>3
<1> QED  BY <1>3, <1>4

\* A fact's write ends, one way or the other.
LEMMA FactEnds ==
  ASSUME TypeOK, ProcessFact \/ FailFactWrite
  PROVE  /\ requests # <<>> /\ Head(requests).to = "log" /\ requests' = Tail(requests)
         /\ spent' \in [inputs : Nat, giveUps : Nat]
         /\ \E ok \in BOOLEAN : FactReply(ok) /\ (ok => ProcessFact)
         /\ \/ ProcessFact /\ log' = log /\ cut' = cut
            \/ FailFactWrite /\ FactReply(FALSE) /\ log' = log /\ cut' = cut
            \/ /\ FailFactWrite /\ FactReply(FALSE)
               /\ \E part \in Prefixes(Head(requests).body) :
                    log' = [log EXCEPT ![Head(requests).e] = part]
               /\ cut' = cut \union {Head(requests).e}
<1>1. spent \in [inputs : Nat, giveUps : Nat]
  BY DEF TypeOK
<1>2. CASE ProcessFact
  <2>1. PICK ok \in BOOLEAN : GitResult(ok) /\ FactReply(ok)
    BY <1>2 DEF ProcessFact
  <2>2. spent' \in [inputs : Nat, giveUps : Nat] /\ requests' = Tail(requests)
    BY <1>1, <2>1, SpentType DEF FactReply
  <2> QED  BY <1>2, <2>1, <2>2 DEF ProcessFact
<1>3. CASE FailFactWrite
  <2>1. Input("diskFails") /\ FactReply(FALSE)
    BY <1>3 DEF FailFactWrite
  <2>2. spent' \in [inputs : Nat, giveUps : Nat] /\ requests' = Tail(requests)
    BY <1>1, <2>1, SpentType DEF FactReply
  <2> QED  BY <1>3, <2>1, <2>2 DEF FailFactWrite
<1> QED  BY <1>2, <1>3

\* A write of a log begins.
LEMMA FactStarts ==
  ASSUME Base, StartFactWrite
  PROVE  /\ Head(requests) = requests[1] /\ 1 \in DOMAIN requests /\ Head(requests) \in Writes
         /\ Head(requests).e \in Entities /\ Head(requests).body \in Seq(Recorders)
         /\ log' = [log EXCEPT ![Head(requests).e] = Head(requests).body]
         /\ log' \in [Entities -> Seq(Recorders)]
<1>1. requests \in Seq(Writes) /\ requests # <<>> /\ Head(requests).to = "log"
  BY DEF StartFactWrite, Base, TypeOK, Writes
<1>2. Head(requests) = requests[1] /\ 1 \in DOMAIN requests /\ Head(requests) \in Writes
  BY <1>1
<1>3. Head(requests).e \in Entities /\ Head(requests).body \in Seq(Recorders)
  BY <1>1, <1>2, WriteTypes
<1>4. log' = [log EXCEPT ![Head(requests).e] = Head(requests).body]
  BY DEF StartFactWrite
<1>5. log \in [Entities -> Seq(Recorders)]
  BY DEF Base, TypeOK
<1> QED  BY <1>2, <1>3, <1>4, <1>5

LEMMA WorkerTypes ==
  ASSUME Base, Worker
  PROVE  TypeOK'
<1> USE DEF files, queue, history
<1>0. CASE StartFactWrite
  <2>1. log' \in [Entities -> Seq(Recorders)] /\ filling' \in BOOLEAN
    BY <1>0, FactStarts DEF StartFactWrite
  <2> QED  BY <1>0, <2>1 DEF StartFactWrite, Base, TypeOK
<1> SUFFICES ASSUME ProcessFact \/ FailFactWrite \/ ProcessBrief \/ RefuseEdit
             PROVE  TypeOK'
  BY <1>0 DEF Worker
<1> DEFINE q == Head(requests)
<1>1. /\ TypeOK /\ requests # <<>> /\ requests' = Tail(requests)
      /\ spent \in [inputs : Nat, giveUps : Nat] /\ post \in [Recorders -> Posts]
      /\ synth \in SynthTasks /\ regen \in [Entities -> RegenTasks] /\ save \in SaveTasks
  BY FactEnds DEF Base, TypeOK, ProcessBrief, RefuseEdit
<1>2. /\ requests' \in Seq(Writes) /\ Len(requests') <= MaxRequests
      /\ q \in Writes /\ q.e \in Entities
      /\ q.to = "log" => q.body \in Seq(Recorders) /\ q.from \in Recorders \union {NoOne}
      /\ q.to # "log" => q.body \in Bodies
  BY <1>1, FirstWrite, WriteTypes
<1>3. /\ Idle \in SaveTasks
      /\ [synth EXCEPT !.pc = "finish"] \in SynthTasks
      /\ \A e \in Entities : [regen EXCEPT ![e] = Idle] \in [Entities -> RegenTasks]
  <2>1. Idle \in SaveTasks /\ [synth EXCEPT !.pc = "finish"] \in SynthTasks
    BY SaveSteps, SynthSteps
  <2>2. Idle \in RegenTasks
    BY IdleType DEF RegenTasks
  <2> QED  BY <1>1, <2>1, <2>2
<1>4. CASE ProcessFact \/ FailFactWrite
  <2> HIDE DEF q
  <2>0. /\ q.to = "log" /\ spent' \in [inputs : Nat, giveUps : Nat]
        /\ \/ log' = log /\ cut' = cut
           \/ /\ \E part \in Prefixes(q.body) : log' = [log EXCEPT ![q.e] = part]
              /\ cut' = cut \union {q.e}
    BY <1>1, <1>4, FactEnds DEF q
  <2>1. /\ logLock' \in {NoOne, logLock} /\ filling' = FALSE
        /\ UNCHANGED <<brief, ver, head, armed, watch, queue, synth, regen, save, owed>>
    BY <1>1, <1>4, FactEnds DEF FactReply
  <2>2. PICK ok \in BOOLEAN :
          /\ post' = [r \in Recorders |->
               IF r # q.from THEN post[r]
               ELSE [post[r] EXCEPT !.pc = IF ok THEN "brief" ELSE "idle"]]
          /\ confirmed' = IF ok THEN confirmed \union ({q.from} \ {NoOne})
                          ELSE confirmed
          /\ excused' = IF ok /\ q.from # NoOne THEN excused
                        ELSE excused \union {q.e}
    BY <1>1, <1>4, FactEnds DEF FactReply, q
  <2>4. post' \in [Recorders -> Posts]
    <3>1. \A r \in Recorders : [post[r] EXCEPT !.pc = IF ok THEN "brief" ELSE "idle"] \in Posts
      <4> DEFINE p == IF ok THEN "brief" ELSE "idle"
      <4>1. p \in {"brief", "idle"}
        OBVIOUS
      <4> HIDE DEF p
      <4>2. ASSUME NEW k \in Posts PROVE [k EXCEPT !.pc = p] \in Posts
        BY <4>1 DEF Posts
      <4>3. \A r \in Recorders : [post[r] EXCEPT !.pc = p] \in Posts
        BY <1>1, <4>2
      <4> QED  BY <4>3 DEF p
    <3> QED  BY <1>1, <2>2, <3>1
  <2>5. log' \in [Entities -> Seq(Recorders)] /\ logLock' \in Recorders \union {NoOne}
    <3>1. \A part \in Prefixes(q.body) : part \in Seq(Recorders)
      BY <1>2, <2>0, PrefixTypes
    <3> QED  BY <1>1, <1>2, <2>0, <2>1, <3>1 DEF TypeOK
  <2>6. confirmed' \subseteq Recorders /\ excused' \subseteq Entities /\ cut' \subseteq Entities
    BY <1>1, <1>2, <2>0, <2>2 DEF TypeOK
  <2> QED  BY <1>1, <1>2, <2>0, <2>1, <2>4, <2>5, <2>6 DEF TypeOK, Writes
<1>5. CASE ProcessBrief
  <2> HIDE DEF q
  <2>1. PICK ok \in BOOLEAN :
          /\ Commit(q.e, q.body, ok)
          /\ excused' = excused \union Undoes(q.e, q.body) \union (IF ok THEN {} ELSE {q.e})
    BY <1>5 DEF ProcessBrief, q
  <2>2. q.to # "log"
    BY <1>5 DEF ProcessBrief, q
  <2>3. /\ brief' \in [Entities -> Bodies] /\ ver' \in [Entities -> Nat]
        /\ head' \in [Entities -> Nat] /\ armed' \subseteq Entities
        /\ log' = log /\ filling' = filling
        /\ spent' \in [inputs : Nat, giveUps : Nat]
    BY <1>1, <1>2, <2>1, <2>2, CommitWrites
  <2>4. excused' \subseteq Entities
    BY <1>1, <1>2, <2>1 DEF Undoes, TypeOK
  <2>5. synth' \in SynthTasks /\ regen' \in [Entities -> RegenTasks] /\ save' \in SaveTasks
    BY <1>1, <1>2, <1>3, <1>5 DEF ProcessBrief, q
  <2>6. UNCHANGED <<post, logLock, watch, queue, confirmed, owed, cut>>
    BY <1>5 DEF ProcessBrief
  <2> QED  BY <1>1, <1>2, <2>3, <2>4, <2>5, <2>6 DEF TypeOK, Writes
<1>6. CASE RefuseEdit
  <2>1. save' \in SaveTasks
    BY <1>1, <1>3, <1>6 DEF RefuseEdit
  <2> QED  BY <1>1, <1>2, <1>6, <2>1 DEF RefuseEdit, TypeOK, Writes
<1> QED  BY <1>4, <1>5, <1>6

LEMMA TypeStep ==
  ASSUME Base, [Next]_vars
  PROVE  TypeOK'
<1>1. CASE Next
  BY <1>1, HandlerTypes, SynthesizerTypes, WriterTypes, EditorTypes, WorkerTypes DEF Next
<1>2. CASE UNCHANGED vars
  BY <1>2 DEF Base, TypeOK, vars, files, queue, history
<1> QED  BY <1>1, <1>2

-----------------------------------------------------------------------------
(* Who waits for what. *)

\* Writes of others do not touch the synthesizer's.
LEMMA OthersWrite ==
  ASSUME SynthReply, synth' = synth,
         \A i \in DOMAIN requests' : requests'[i].from = "synth" =>
           i \in DOMAIN requests /\ requests[i].from = "synth" /\ requests'[i].e = requests[i].e
  PROVE  SynthReply'
  BY DEF SynthReply

LEMMA TaskStep ==
  ASSUME Base, [Next]_vars
  PROVE  TasksAgree' /\ SynthReply'
<1> USE DEF files, queue, history
<1>1. /\ TypeOK /\ TasksAgree /\ SynthReply /\ requests \in Seq(Writes)
      /\ NoOne # "synth" /\ "synth" \notin Recorders /\ NoOne \notin Entities
  BY NamesDiffer DEF Base, TypeOK, Writes
<1>2. CASE UNCHANGED <<synth, save, requests>>
  BY <1>1, <1>2, OthersWrite DEF TasksAgree
<1>3. ASSUME NEW from, NEW e, from # "synth", GiveUp(from, e), synth' = synth
      PROVE  SynthReply'
  <2>1. /\ DOMAIN requests' = DOMAIN requests
        /\ \A i \in DOMAIN requests :
             /\ requests'[i].e = requests[i].e
             /\ requests'[i].from = IF requests[i].from = from /\ requests[i].e = e
                                     THEN NoOne ELSE requests[i].from
    BY <1>1, <1>3, GiveUpLeaves
  <2> QED  BY <1>1, <1>3, <2>1, OthersWrite
<1>4. ASSUME NEW from, from # "synth", synth' = synth,
             \A i \in DOMAIN requests : i \in DOMAIN requests' /\ requests'[i] = requests[i],
             \A i \in DOMAIN requests' \ DOMAIN requests : requests'[i].from = from
      PROVE  SynthReply'
  BY <1>1, <1>4, OthersWrite
<1>5. ASSUME NEW r \in Recorders, PostFact(r) \/ Handler(r) \/ AppendGivesUp(r)
      PROVE  TasksAgree' /\ SynthReply'
  <2>1. synth' = synth /\ save' = save
    BY <1>5 DEF PostFact, Handler, AppendFact, AppendGivesUp, ReadPriorCount, CheckThreshold,
                TriggerSynthesis
  <2>2. ASSUME NEW seen, AppendSends(r, seen)
        PROVE  TasksAgree' /\ SynthReply'
    <3>1. /\ \A i \in DOMAIN requests : i \in DOMAIN requests' /\ requests'[i] = requests[i]
          /\ \A i \in DOMAIN requests' \ DOMAIN requests : requests'[i].from = r
      BY <1>1, <2>2, EntityOfType, SeenTypes, FactWrites DEF AppendSends
    <3>2. SynthReply'
      BY <1>1, <1>4, <2>1, <3>1
    <3> QED  BY <1>1, <2>1, <3>2 DEF TasksAgree
  <2>3. CASE AppendGivesUp(r)
    <3>1. SynthReply'
      BY <1>1, <1>3, <2>1, <2>3 DEF AppendGivesUp
    <3> QED  BY <1>1, <2>1, <3>1 DEF TasksAgree
  <2>4. CASE UNCHANGED requests
    BY <1>2, <2>1, <2>4
  <2>5. AppendFact(r) => UNCHANGED requests \/ (\E seen : AppendSends(r, seen))
    BY <1>1, AppendCases DEF AppendQuiet, TypeOK
  <2> QED  BY <1>5, <2>2, <2>3, <2>4, <2>5 DEF PostFact, Handler, ReadPriorCount,
                CheckThreshold, TriggerSynthesis
<1>6. ASSUME NEW e \in Entities,
             \/ RegenListFacts(e) \/ Generator(e) \/ RegenGivesUp(e)
             \/ ObsidianEdit(e) \/ Watcher(e) \/ AskSynthesis(e) \/ FollowUp(e)
      PROVE  TasksAgree' /\ SynthReply'
  <2>1. synth' = synth /\ save' = save
    BY <1>6 DEF RegenListFacts, Generator, RegenReadBrief, RegenWrite, RegenGivesUp,
                ObsidianEdit, Watcher, WatcherRead, WatcherCheck, WatcherCommit, AskSynthesis,
                FollowUp
  <2>2. CASE ~Saturated /\ Request("brief", e, ArticleBody(e), "regen", regen[e].seen, 0)
    <3>1. regen[e].seen \in Nat
      BY <1>1 DEF TypeOK, RegenTasks, Tasks
    <3>2. ArticleBody(e) \in Bodies
      BY RegenSteps, ArticleBodyType
    <3>3. /\ \A i \in DOMAIN requests : i \in DOMAIN requests' /\ requests'[i] = requests[i]
          /\ \A i \in DOMAIN requests' \ DOMAIN requests : requests'[i].from = "regen"
      BY <2>2, <3>1, <3>2, BriefWrite
    <3>4. SynthReply'
      BY <1>4, <2>1, <3>3
    <3> QED  BY <1>1, <2>1, <3>4 DEF TasksAgree
  <2>3. CASE RegenGivesUp(e)
    <3>1. SynthReply'
      BY <1>3, <2>1, <2>3 DEF RegenGivesUp
    <3> QED  BY <1>1, <2>1, <3>1 DEF TasksAgree
  <2>4. CASE UNCHANGED requests
    BY <1>2, <2>1, <2>4
  <2> QED  BY <1>6, <2>2, <2>3, <2>4 DEF RegenListFacts, Generator, RegenReadBrief, RegenWrite,
                ObsidianEdit, Watcher, WatcherRead, WatcherCheck, WatcherCommit, AskSynthesis,
                FollowUp
<1>7. ASSUME NEW e \in Entities, OpenEditor(e)
      PROVE  TasksAgree' /\ SynthReply'
  <2>1. synth' = synth /\ requests' = requests /\ save'.e = e
    BY <1>7, SaveSteps DEF OpenEditor, Holds
  <2> QED  BY <1>1, <2>1, OthersWrite DEF TasksAgree
<1>8. CASE SaveEdit \/ SaveGivesUp
  <2>1. synth' = synth
    BY <1>8 DEF SaveEdit, SaveGivesUp
  <2>2. save'.pc # "idle" => save'.e \in Entities
    <3>1. Idle.pc = "idle" /\ [save EXCEPT !.pc = "waiting"].e = save.e
      BY SaveSteps DEF Holds
    <3>2. save.pc # "idle" /\ save' \in {Idle, [save EXCEPT !.pc = "waiting"]}
      BY <1>8 DEF SaveEdit, SaveGivesUp
    <3> QED  BY <1>1, <3>1, <3>2 DEF TasksAgree
  <2>3. SynthReply'
    <3>1. CASE UNCHANGED requests
      BY <1>1, <2>1, <3>1, OthersWrite
    <3>2. CASE ~Saturated /\ SaveEdit /\ \E body \in Edited(save.read) :
                 Request("edit", save.e, body, "editor", save.seen, save.sha)
      <4>1. PICK body \in Edited(save.read) :
              Request("edit", save.e, body, "editor", save.seen, save.sha)
        BY <3>2
      <4>2. body \in Bodies /\ save.seen \in Nat /\ save.sha \in Nat
        BY <1>1, SaveSteps, EditedBody, SpentType DEF TypeOK
      <4>3. save.e \in Entities
        BY <1>1, <3>2 DEF SaveEdit, TasksAgree
      <4>4. /\ \A i \in DOMAIN requests : i \in DOMAIN requests' /\ requests'[i] = requests[i]
            /\ \A i \in DOMAIN requests' \ DOMAIN requests : requests'[i].from = "editor"
        BY <3>2, <4>1, <4>2, <4>3, BriefWrite
      <4> QED  BY <1>4, <2>1, <4>4
    <3>3. CASE SaveGivesUp
      BY <1>3, <2>1, <3>3 DEF SaveGivesUp
    <3> QED  BY <1>8, <3>1, <3>2, <3>3 DEF SaveEdit
  <2> QED  BY <1>1, <2>1, <2>2, <2>3 DEF TasksAgree
<1>9. CASE Receive \/ BeginRun \/ SynthReadBrief \/ SynthListFacts \/ FinishRun
  <2>1. requests' = requests /\ save' = save /\ synth.pc # "waiting"
    BY <1>9 DEF Receive, BeginRun, SynthReadBrief, SynthListFacts, FinishRun
  <2>2. SynthReply'
    BY <1>1, <2>1 DEF SynthReply
  <2>3. synth'.pc = "idle" <=> synth'.e = NoOne
    <3>1. CASE Receive
      BY <1>1, <3>1, SynthSteps DEF Holds
    <3>2. CASE BeginRun
      <4>1. synth' = [synth EXCEPT !.pc = "brief"] /\ synth.pc = "received"
        BY <3>2 DEF BeginRun
      <4> QED  BY <1>1, <4>1, SynthSteps DEF Holds, TasksAgree
    <3>3. CASE SynthReadBrief
      BY <1>1, <3>3, SynthSteps DEF Holds, TasksAgree, SynthReadBrief
    <3>4. CASE SynthListFacts
      BY <1>1, <3>4, SynthSteps DEF Holds, TasksAgree, SynthListFacts
    <3>5. CASE FinishRun
      BY <3>5, SaveSteps DEF Holds, FinishRun
    <3> QED  BY <1>9, <3>1, <3>2, <3>3, <3>4, <3>5
  <2> QED  BY <1>1, <2>1, <2>2, <2>3 DEF TasksAgree
<1>10. CASE SynthWrite \/ SynthGivesUp
  <2>1. /\ save' = save /\ synth.e \in Entities /\ synth.pc # "idle"
        /\ synth' \in {[synth EXCEPT !.pc = "finish"], [synth EXCEPT !.pc = "waiting"]}
    BY <1>10, SynthSteps DEF SynthWrite, SynthGivesUp
  <2>2. synth'.pc \in {"waiting", "finish"} /\ synth'.e = synth.e
    BY <2>1, SynthSteps DEF Holds
  <2>3. SynthReply'
    <3>1. CASE SynthWrite /\ UNCHANGED requests
      BY <1>1, <3>1 DEF SynthWrite, SynthReply
    <3>2. CASE /\ SynthWrite /\ ~Saturated
               /\ Request("brief", synth.e, SynthesizedBody, "synth", synth.seen, 0)
               /\ synth' = [synth EXCEPT !.pc = "waiting"]
      <4>1. SynthesizedBody \in Bodies
        BY SynthSteps, SynthesizedBodyType
      <4>2. synth.seen \in Nat
        BY <1>1 DEF TypeOK, SynthTasks, Tasks
      <4>3. /\ \A i \in DOMAIN requests : i \in DOMAIN requests' /\ requests'[i] = requests[i]
            /\ \A i \in DOMAIN requests' \ DOMAIN requests :
                 i = Len(requests) + 1 /\ requests'[i].e = synth.e
        BY <2>1, <3>2, <4>1, <4>2, BriefWrite
      <4>4. \A i \in DOMAIN requests : requests[i].from # "synth"
        BY <1>1, <3>2 DEF SynthWrite, SynthReply
      <4>5. synth'.pc = "waiting" /\ synth'.e = synth.e
        BY <3>2, SynthSteps DEF Holds
      <4> QED  BY <4>3, <4>4, <4>5 DEF SynthReply
    <3>3. CASE SynthGivesUp
      <4>1. GiveUp("synth", synth.e)
        BY <3>3 DEF SynthGivesUp
      <4>2. /\ DOMAIN requests' = DOMAIN requests
            /\ \A i \in DOMAIN requests :
                 requests'[i].from = IF requests[i].from = "synth" /\ requests[i].e = synth.e
                                      THEN NoOne ELSE requests[i].from
        BY <1>1, <4>1, GiveUpLeaves
      <4>3. \A i \in DOMAIN requests' : requests'[i].from # "synth"
        BY <1>1, <4>2 DEF SynthReply
      <4> QED  BY <4>3 DEF SynthReply
    <3> QED  BY <1>10, <3>1, <3>2, <3>3 DEF SynthWrite
  <2> QED  BY <1>1, <2>1, <2>2, <2>3 DEF TasksAgree
<1>11. CASE StartFactWrite
  BY <1>2, <1>11 DEF StartFactWrite
<1>12. CASE ProcessFact \/ FailFactWrite \/ ProcessBrief \/ RefuseEdit
  <2> DEFINE q == Head(requests)
  <2>1. requests # <<>> /\ requests' = Tail(requests)
    BY <1>1, <1>12, FactEnds DEF ProcessBrief, RefuseEdit
  <2>2. /\ q = requests[1] /\ 1 \in DOMAIN requests /\ q \in Writes
        /\ \A i \in DOMAIN requests' :
             i \in Nat \ {0} /\ i + 1 \in DOMAIN requests /\ requests'[i] = requests[i + 1]
    BY <2>1, FirstWrite
  <2>3. save' \in {save, Idle}
    BY <1>1, <1>12, FactEnds DEF FactReply, ProcessBrief, RefuseEdit
  <2>4. save'.pc # "idle" => save'.e \in Entities
    BY <1>1, <2>3, SaveSteps DEF TasksAgree, Holds
  <2>5. \/ synth' = synth
        \/ q.from = "synth" /\ synth' = [synth EXCEPT !.pc = "finish"]
    BY <1>1, <1>12, FactEnds DEF FactReply, ProcessBrief, RefuseEdit
  <2> HIDE DEF q
  <2>6. CASE q.from = "synth"
    <3>1. synth.pc = "waiting"
      BY <1>1, <2>2, <2>6 DEF SynthReply
    <3>2. \A i \in DOMAIN requests' : requests'[i].from # "synth"
      <4> SUFFICES ASSUME NEW i \in DOMAIN requests', requests'[i].from = "synth"
                   PROVE  FALSE
        OBVIOUS
      <4>1. i + 1 \in DOMAIN requests /\ requests[i + 1].from = "synth" /\ i + 1 # 1
        BY <2>2
      <4> QED  BY <1>1, <2>2, <2>6, <4>1 DEF SynthReply
    <3>3. synth'.e = synth.e /\ synth'.pc # "idle"
      BY <2>5, <3>1, SynthSteps DEF Holds
    <3> QED  BY <1>1, <2>4, <3>1, <3>2, <3>3 DEF SynthReply, TasksAgree
  <2>7. CASE q.from # "synth"
    <3>1. synth' = synth
      BY <2>5, <2>7
    <3>2. SynthReply'
      <4>1. ASSUME NEW i \in DOMAIN requests', requests'[i].from = "synth"
            PROVE  synth'.pc = "waiting" /\ requests'[i].e = synth'.e
        BY <1>1, <2>2, <3>1, <4>1 DEF SynthReply
      <4>2. ASSUME NEW i \in DOMAIN requests', NEW j \in DOMAIN requests',
                   requests'[i].from = "synth", requests'[j].from = "synth"
            PROVE  i = j
        <5>1. i + 1 = j + 1
          BY <1>1, <2>2, <4>2 DEF SynthReply
        <5>2. i \in Nat /\ j \in Nat
          BY <2>2
        <5> QED  BY <5>1, <5>2
      <4> QED  BY <4>1, <4>2 DEF SynthReply
    <3> QED  BY <1>1, <2>4, <3>1, <3>2 DEF TasksAgree
  <2> QED  BY <2>6, <2>7
<1>13. CASE UNCHANGED vars
  BY <1>2, <1>13 DEF vars
<1> QED  BY <1>5, <1>6, <1>7, <1>8, <1>9, <1>10, <1>11, <1>12, <1>13
         DEF Next, Synthesizer, Worker

LEMMA BaseStep ==
  ASSUME Base, [Next]_vars
  PROVE  Base'
  BY TypeStep, TaskStep DEF Base

LEMMA BaseInit ==
  ASSUME Init
  PROVE  Base
<1>1. Idle \in SynthTasks /\ Idle \in RegenTasks /\ Idle \in WatchTasks /\ Idle \in SaveTasks
      /\ Idle.pc = "idle" /\ Idle.e = NoOne
  BY IdleType DEF SynthTasks, RegenTasks, WatchTasks, SaveTasks
<1>2. [pc |-> "idle", again |-> FALSE, prior |-> 0] \in Posts
  BY DEF Posts
<1>3. MaxRequests \in Nat /\ MaxJobs \in Nat
  BY BoundsAreNat
<1>4. TypeOK
  <2>0. /\ log = [e \in Entities |-> <<>>] /\ filling = FALSE
        /\ confirmed = {} /\ owed = {} /\ excused = {} /\ cut = {}
    BY DEF Init
  <2>1. /\ log \in [Entities -> Seq(Recorders)] /\ filling \in BOOLEAN
        /\ confirmed \subseteq Recorders /\ owed \subseteq Entities
        /\ excused \subseteq Entities /\ cut \subseteq Entities
    <3>1. <<>> \in Seq(Recorders)
      OBVIOUS
    <3> QED  BY <2>0, <3>1
  <2> QED  BY <1>1, <1>2, <1>3, <2>1, NoBriefType DEF Init, TypeOK
<1>5. TasksAgree /\ SynthReply
  BY <1>1 DEF Init, TasksAgree, SynthReply
<1> QED  BY <1>4, <1>5 DEF Base

-----------------------------------------------------------------------------
(* The synthesizer's marks. *)

\* Where an entity stands in the channel after a send.
LEMMA JobAppends ==
  ASSUME jobs \in Seq(Entities), NEW e \in Entities, jobs' = Append(jobs, e)
  PROVE  /\ \A d : InJobs(d)' <=> InJobs(d) \/ d = e
         /\ (~InJobs(e) /\ \A i, j \in DOMAIN jobs : jobs[i] = jobs[j] => i = j) =>
              \A i, j \in DOMAIN jobs' : jobs'[i] = jobs'[j] => i = j
<1> DEFINE n == Len(jobs)
<1>1. n \in Nat /\ DOMAIN jobs = 1..n /\ DOMAIN jobs' = 1..(n + 1)
  OBVIOUS
<1>2. /\ \A i \in 1..n : jobs'[i] = jobs[i]
      /\ jobs'[n + 1] = e
  OBVIOUS
<1> HIDE DEF n
<1>3. \A i \in 1..(n + 1) : i \in 1..n \/ i = n + 1
  BY <1>1
<1>4. n + 1 \in 1..(n + 1) /\ \A i \in 1..n : i \in 1..(n + 1)
  BY <1>1
<1>5. \A d : InJobs(d)' <=> InJobs(d) \/ d = e
  BY <1>1, <1>2, <1>3, <1>4 DEF InJobs
<1>6. ASSUME ~InJobs(e), \A i, j \in DOMAIN jobs : jobs[i] = jobs[j] => i = j
      PROVE  \A i, j \in DOMAIN jobs' : jobs'[i] = jobs'[j] => i = j
  BY <1>1, <1>2, <1>3, <1>6 DEF InJobs
<1> QED  BY <1>5, <1>6

\* And after a receive.
LEMMA JobTaken ==
  ASSUME jobs \in Seq(Entities), jobs # <<>>, jobs' = Tail(jobs),
         \A i, j \in DOMAIN jobs : jobs[i] = jobs[j] => i = j
  PROVE  /\ InJobs(Head(jobs))
         /\ \A d : InJobs(d)' <=> InJobs(d) /\ d # Head(jobs)
         /\ \A i, j \in DOMAIN jobs' : jobs'[i] = jobs'[j] => i = j
<1> DEFINE n == Len(jobs)
<1>1. /\ n \in Nat \ {0} /\ DOMAIN jobs = 1..n /\ DOMAIN jobs' = 1..(n - 1)
      /\ Head(jobs) = jobs[1] /\ 1 \in 1..n
  OBVIOUS
<1>2. \A i \in 1..(n - 1) : jobs'[i] = jobs[i + 1]
  OBVIOUS
<1> HIDE DEF n
<1>3. \A i \in 1..(n - 1) : i + 1 \in 1..n /\ i + 1 # 1
  BY <1>1
<1>4. \A k \in 1..n : k = 1 \/ (k - 1 \in 1..(n - 1) /\ (k - 1) + 1 = k)
  BY <1>1
<1>5. \A d : InJobs(d)' => InJobs(d) /\ d # Head(jobs)
  BY <1>1, <1>2, <1>3 DEF InJobs
<1>6. ASSUME NEW d, InJobs(d), d # Head(jobs)
      PROVE  InJobs(d)'
  <2>1. PICK k \in 1..n : jobs[k] = d
    BY <1>1, <1>6 DEF InJobs
  <2>2. k - 1 \in 1..(n - 1) /\ (k - 1) + 1 = k
    BY <1>1, <1>4, <1>6, <2>1
  <2>3. jobs'[k - 1] = d
    BY <1>2, <2>1, <2>2
  <2> QED  BY <1>1, <2>2, <2>3 DEF InJobs
<1>7. ASSUME NEW i \in DOMAIN jobs', NEW j \in DOMAIN jobs', jobs'[i] = jobs'[j]
      PROVE  i = j
  <2>1. i \in 1..(n - 1) /\ j \in 1..(n - 1) /\ jobs[i + 1] = jobs[j + 1]
    BY <1>1, <1>2, <1>7
  <2>2. i + 1 = j + 1
    BY <1>1, <1>3, <2>1
  <2> QED  BY <1>1, <2>1, <2>2
<1>8. InJobs(Head(jobs))
  BY <1>1 DEF InJobs
<1> QED  BY <1>5, <1>6, <1>7, <1>8

\* A step that leaves the channel, the marks and the run alone.
LEMMA MarksFrame ==
  ASSUME Marks, UNCHANGED <<jobs, queued, inflight>>, synth'.e = synth.e,
         synth'.pc = "received" <=> synth.pc = "received"
  PROVE  Marks'
<1>1. \A d : InJobs(d)' <=> InJobs(d)
  BY DEF InJobs
<1>2. /\ \A e \in Entities : InJobs(e)' => e \in queued' /\ e \notin inflight' /\ e # synth'.e
      /\ \A e \in queued' : InJobs(e)' \/ synth'.e = e
  BY <1>1 DEF Marks
<1> QED  BY <1>1, <1>2 DEF Marks

LEMMA MarksEnqueue ==
  ASSUME Base, Marks, NEW e \in Entities, NEW lost, EnqueueSynthesis(e, lost), synth' = synth
  PROVE  Marks'
<1>1. jobs \in Seq(Entities) /\ queued \subseteq Entities /\ inflight' = inflight
  BY DEF Base, TypeOK, EnqueueSynthesis
<1>2. CASE Coalesces(e)
  <2>1. jobs' = jobs /\ queued' = queued \union {e}
    BY <1>2 DEF EnqueueSynthesis
  <2>2. \A d : InJobs(d)' <=> InJobs(d)
    BY <2>1 DEF InJobs
  <2>3. InJobs(e) \/ synth.e = e
    BY <1>2 DEF Coalesces, Marks
  <2> QED  BY <1>1, <2>1, <2>2, <2>3 DEF Marks
<1>3. CASE ~Coalesces(e) /\ HasRoom
  <2>1. jobs' = Append(jobs, e) /\ queued' = queued \union {e}
    BY <1>3 DEF EnqueueSynthesis
  <2>2. e \notin queued /\ e \notin inflight
    BY <1>3 DEF Coalesces
  <2>3. ~InJobs(e) /\ e # synth.e
    BY <2>2 DEF Marks
  <2>4. /\ \A d : InJobs(d)' <=> InJobs(d) \/ d = e
        /\ \A i, j \in DOMAIN jobs' : jobs'[i] = jobs'[j] => i = j
    BY <1>1, <2>1, <2>3, JobAppends DEF Marks
  <2> QED  BY <1>1, <2>1, <2>2, <2>3, <2>4 DEF Marks
<1>4. CASE ~Coalesces(e) /\ ~HasRoom
  <2>1. jobs' = jobs /\ queued' = queued
    BY <1>4 DEF EnqueueSynthesis
  <2> QED  BY <1>1, <2>1, MarksFrame
<1> QED  BY <1>2, <1>3, <1>4

LEMMA MarksStep ==
  ASSUME Base, Marks, [Next]_vars
  PROVE  Marks'
<1> USE DEF files, queue, history
<1>1. /\ jobs \in Seq(Entities) /\ queued \subseteq Entities /\ inflight \subseteq Entities
      /\ synth.pc # "idle" => synth.e \in Entities
      /\ synth.pc = "idle" <=> synth.e = NoOne
      /\ NoOne \notin Entities
  BY SynthSteps, NamesDiffer DEF Base, TypeOK, TasksAgree
<1>2. CASE UNCHANGED <<jobs, queued, inflight, synth>>
  BY <1>2, MarksFrame
<1>3. CASE Receive
  <2> DEFINE e == Head(jobs)
  <2>1. /\ jobs # <<>> /\ jobs' = Tail(jobs) /\ synth.pc = "idle"
        /\ queued' = queued /\ inflight' = inflight
    BY <1>3 DEF Receive
  <2>2. e \in Entities /\ synth'.pc = "received" /\ synth'.e = e
    BY <1>3, SynthSteps DEF Holds
  <2>3. /\ InJobs(e)
        /\ \A d : InJobs(d)' <=> InJobs(d) /\ d # e
        /\ \A i, j \in DOMAIN jobs' : jobs'[i] = jobs'[j] => i = j
    BY <1>1, <2>1, JobTaken DEF Marks
  <2> HIDE DEF e
  <2>4. \A d \in Entities : d \notin inflight
    BY <1>1, <2>1 DEF Marks
  <2> QED  BY <1>1, <2>1, <2>2, <2>3, <2>4 DEF Marks
<1>4. CASE BeginRun
  <2>1. /\ jobs' = jobs /\ queued' = queued \ {synth.e} /\ inflight' = inflight \union {synth.e}
        /\ synth.pc = "received" /\ synth' = [synth EXCEPT !.pc = "brief"]
    BY <1>4 DEF BeginRun
  <2>2. synth'.pc = "brief" /\ synth'.e = synth.e
    BY <2>1, SynthSteps DEF Holds
  <2>3. \A d : InJobs(d)' <=> InJobs(d)
    BY <2>1 DEF InJobs
  <2> QED  BY <1>1, <2>1, <2>2, <2>3 DEF Marks
<1>5. CASE FinishRun
  <2>1. /\ jobs' = jobs /\ queued' = queued \ {synth.e} /\ inflight' = inflight \ {synth.e}
        /\ synth.pc = "finish" /\ synth' = Idle
    BY <1>5 DEF FinishRun
  <2>2. synth'.pc = "idle" /\ synth'.e = NoOne
    BY <2>1, SaveSteps DEF Holds
  <2>3. \A d : InJobs(d)' <=> InJobs(d)
    BY <2>1 DEF InJobs
  <2> QED  BY <1>1, <2>1, <2>2, <2>3 DEF Marks
<1>6. CASE SynthReadBrief \/ SynthListFacts \/ SynthWrite \/ SynthGivesUp
  <2>1. UNCHANGED <<jobs, queued, inflight>> /\ synth.pc # "received"
    BY <1>6 DEF SynthReadBrief, SynthListFacts, SynthWrite, SynthGivesUp
  <2>2. synth'.e = synth.e /\ synth'.pc # "received"
    <3>1. CASE SynthReadBrief \/ SynthListFacts
      BY <3>1, SynthSteps DEF Holds
    <3>2. CASE SynthWrite \/ SynthGivesUp
      <4>1. synth' \in {[synth EXCEPT !.pc = "finish"], [synth EXCEPT !.pc = "waiting"]}
        BY <3>2 DEF SynthWrite, SynthGivesUp
      <4> QED  BY <4>1, SynthSteps DEF Holds
    <3> QED  BY <1>6, <3>1, <3>2
  <2> QED  BY <2>1, <2>2, MarksFrame
<1>7. CASE Worker
  <2>1. UNCHANGED <<jobs, queued, inflight>>
    BY <1>7 DEF Worker, StartFactWrite, ProcessFact, FailFactWrite, FactReply, ProcessBrief,
                RefuseEdit
  <2>2. \/ synth' = synth
        \/ /\ requests # <<>> /\ requests' = Tail(requests)
           /\ Head(requests).from = "synth" /\ synth' = [synth EXCEPT !.pc = "finish"]
    BY <1>7 DEF Worker, StartFactWrite, ProcessFact, FailFactWrite, FactReply, ProcessBrief,
                RefuseEdit
  <2>3. CASE /\ requests # <<>> /\ requests' = Tail(requests)
             /\ Head(requests).from = "synth" /\ synth' = [synth EXCEPT !.pc = "finish"]
    <3>1. Head(requests) = requests[1] /\ 1 \in DOMAIN requests
      BY <2>3, FirstWrite
    <3>2. synth.pc = "waiting"
      BY <2>3, <3>1 DEF Base, SynthReply
    <3>3. synth'.pc = "finish" /\ synth'.e = synth.e
      BY <2>3, SynthSteps DEF Holds
    <3> QED  BY <2>1, <3>2, <3>3, MarksFrame
  <2> QED  BY <1>2, <2>1, <2>2, <2>3
<1>8. ASSUME NEW e \in Entities, NEW lost, EnqueueSynthesis(e, lost), synth' = synth
      PROVE  Marks'
  BY <1>8, MarksEnqueue
<1>9. ASSUME NEW r \in Recorders, PostFact(r) \/ Handler(r) \/ AppendGivesUp(r)
      PROVE  Marks'
  <2>1. CASE TriggerSynthesis(r)
    BY <1>8, <2>1, EntityOfType DEF TriggerSynthesis
  <2>2. CASE ~TriggerSynthesis(r)
    BY <1>2, <1>9, <2>2 DEF PostFact, Handler, AppendFact, AppendGivesUp, ReadPriorCount,
                            CheckThreshold
  <2> QED  BY <2>1, <2>2
<1>10. ASSUME NEW e \in Entities, AskSynthesis(e) \/ FollowUp(e)
       PROVE  Marks'
  BY <1>8, <1>10 DEF AskSynthesis, FollowUp
<1>11. ASSUME NEW e \in Entities,
              \/ RegenListFacts(e) \/ Generator(e) \/ RegenGivesUp(e)
              \/ ObsidianEdit(e) \/ Watcher(e) \/ OpenEditor(e)
       PROVE  Marks'
  BY <1>2, <1>11 DEF RegenListFacts, Generator, RegenReadBrief, RegenWrite, RegenGivesUp,
                 ObsidianEdit, Watcher, WatcherRead, WatcherCheck, WatcherCommit, OpenEditor
<1>12. CASE SaveEdit \/ SaveGivesUp \/ UNCHANGED vars
  BY <1>2, <1>12 DEF SaveEdit, SaveGivesUp, vars
<1> QED  BY <1>3, <1>4, <1>5, <1>6, <1>7, <1>9, <1>10, <1>11, <1>12 DEF Next, Synthesizer

\* The marks as the property counts them.
LEMMA MarksCount ==
  ASSUME Base, Marks
  PROVE  MarksMatchJobs
<1> SUFFICES ASSUME NEW e \in Entities
             PROVE  /\ PendingJobs(e) <= 1
                    /\ PendingJobs(e) = 1 => e \in queued
                    /\ e \in queued => PendingJobs(e) = 1 \/ e \in inflight
                    /\ e \in inflight <=> synth.e = e /\ synth.pc # "received"
  BY DEF MarksMatchJobs
<1> DEFINE S == {i \in DOMAIN jobs : jobs[i] = e}
           here == synth.pc = "received" /\ synth.e = e
<1>1. InJobs(e) => Cardinality(S) = 1
  <2> SUFFICES ASSUME InJobs(e) PROVE Cardinality(S) = 1
    OBVIOUS
  <2>1. PICK i \in DOMAIN jobs : jobs[i] = e
    BY DEF InJobs
  <2>2. S = {i}
    BY <2>1 DEF Marks
  <2> QED  BY <2>2, FS_Singleton
<1>2. ~InJobs(e) => Cardinality(S) = 0
  <2> SUFFICES ASSUME ~InJobs(e) PROVE Cardinality(S) = 0
    OBVIOUS
  <2>1. S = {}
    BY DEF InJobs
  <2> QED  BY <2>1, FS_EmptySet
<1>3. PendingJobs(e) = Cardinality(S) + IF here THEN 1 ELSE 0
  BY DEF PendingJobs
<1>4. ~(InJobs(e) /\ here)
  BY DEF Marks
<1> DEFINE c == Cardinality(S)
<1>5. c \in {0, 1} /\ (c = 1 <=> InJobs(e)) /\ PendingJobs(e) = c + IF here THEN 1 ELSE 0
  BY <1>1, <1>2, <1>3
<1> HIDE DEF c, S
<1>6. PendingJobs(e) <= 1 /\ (PendingJobs(e) = 1 <=> InJobs(e) \/ here)
  BY <1>4, <1>5
<1> QED  BY <1>6 DEF Marks

LEMMA MarksInit ==
  ASSUME Init
  PROVE  Marks
<1>1. Idle.e = NoOne /\ Idle.pc = "idle"
  BY IdleType
<1> QED  BY <1>1, NamesDiffer DEF Init, Marks, InJobs

(***************************************************************************)
(* The synthesizer's two maps tell the truth about its channel, with any   *)
(* number of entities, requests and follow-ups: one pending job per        *)
(* entity at most, a mark for each, and in flight the running one.         *)
(***************************************************************************)
THEOREM MarksAreTrue == Spec => []MarksMatchJobs
<1>1. Init => Base /\ Marks
  BY BaseInit, MarksInit
<1>2. Base /\ Marks /\ [Next]_vars => (Base /\ Marks)'
  BY BaseStep, MarksStep
<1>3. Base /\ Marks => MarksMatchJobs
  BY MarksCount
<1> QED  BY <1>1, <1>2, <1>3, PTL DEF Spec

(***************************************************************************)
(* The handlers, the two archivists, the watcher, the editor and the wiki  *)
(* worker keep their types; neither queue outgrows its buffer.             *)
(***************************************************************************)
THEOREM TypesAreKept == Spec => []TypeOK
<1>1. Init => Base
  BY BaseInit
<1>2. Base /\ [Next]_vars => Base'
  BY BaseStep
<1>3. Base => TypeOK
  BY DEF Base
<1> QED  BY <1>1, <1>2, <1>3, PTL DEF Spec

-----------------------------------------------------------------------------
(* Accepted synthesis requests. *)

LEMMA KeptEnqueue ==
  ASSUME Base, RequestsAreKept, NEW e \in Entities, NEW lost, EnqueueSynthesis(e, lost),
         \A d \in Entities \ {e} : followups'[d] = followups[d],
         followups'[e] = followups[e] \/ followups'[e] > 0 \/ e \in lost
  PROVE  RequestsAreKept'
<1>1. queued \subseteq queued' /\ owed \subseteq Entities
  BY DEF EnqueueSynthesis, Base, TypeOK
<1>2. owed' = owed \ lost \/ (owed' = owed \union {e} /\ e \in queued')
  BY DEF EnqueueSynthesis
<1> QED  BY <1>1, <1>2 DEF RequestsAreKept

LEMMA KeptStep ==
  ASSUME Base, RequestsAreKept, [Next]_vars
  PROVE  RequestsAreKept'
<1> USE DEF files, queue, history
<1>1. /\ owed \subseteq Entities /\ followups \in [Entities -> Nat]
      /\ synth.pc # "idle" => synth.e \in Entities
  BY SynthSteps DEF Base, TypeOK
<1>2. CASE UNCHANGED <<queued, followups, owed>>
  BY <1>2 DEF RequestsAreKept
<1>3. ASSUME NEW e \in Entities, EnqueueSynthesis(e, {}), followups' = followups
      PROVE  RequestsAreKept'
  BY <1>3, KeptEnqueue
<1>4. ASSUME NEW e \in Entities, FollowUp(e)
      PROVE  RequestsAreKept'
  <2> DEFINE lost == IF followups[e] = 1 THEN {e} ELSE {}
  <2>1. /\ EnqueueSynthesis(e, lost) /\ followups[e] > 0
        /\ \A d \in Entities \ {e} : followups'[d] = followups[d]
        /\ followups'[e] = followups[e] - 1
    BY <1>1, <1>4 DEF FollowUp
  <2>2. followups'[e] > 0 \/ e \in lost
    BY <1>1, <2>1
  <2> HIDE DEF lost
  <2> QED  BY <2>1, <2>2, KeptEnqueue
<1>5. CASE BeginRun
  <2>1. /\ queued' = queued \ {synth.e} /\ owed' = owed \ {synth.e}
        /\ followups' = followups
    BY <1>5 DEF BeginRun
  <2> QED  BY <2>1 DEF RequestsAreKept
<1>6. CASE FinishRun
  <2>1. /\ queued' = queued \ {synth.e} /\ owed' = owed /\ excused' = excused
        /\ followups' = IF synth.e \in queued
                        THEN [followups EXCEPT ![synth.e] = @ + 1] ELSE followups
        /\ synth.e \in Entities
    BY <1>1, <1>6 DEF FinishRun, NeedsFollowUp
  <2>2. CASE synth.e \in queued
    <3>1. followups'[synth.e] > 0 /\ \A d \in Entities \ {synth.e} : followups'[d] = followups[d]
      BY <1>1, <2>1, <2>2
    <3> QED  BY <1>1, <2>1, <2>2, <3>1 DEF RequestsAreKept
  <2>3. CASE synth.e \notin queued
    BY <1>1, <2>1, <2>3 DEF RequestsAreKept
  <2> QED  BY <2>2, <2>3
<1>7. CASE Receive \/ SynthReadBrief \/ SynthListFacts \/ SynthWrite \/ SynthGivesUp
  BY <1>2, <1>7 DEF Receive, SynthReadBrief, SynthListFacts, SynthWrite, SynthGivesUp
<1>8. CASE Worker
  BY <1>2, <1>8 DEF Worker, StartFactWrite, ProcessFact, FailFactWrite, FactReply,
                    ProcessBrief, RefuseEdit
<1>9. ASSUME NEW r \in Recorders, PostFact(r) \/ Handler(r) \/ AppendGivesUp(r)
      PROVE  RequestsAreKept'
  <2>1. CASE TriggerSynthesis(r)
    BY <1>3, <2>1, EntityOfType DEF TriggerSynthesis
  <2>2. CASE ~TriggerSynthesis(r)
    BY <1>2, <1>9, <2>2 DEF PostFact, Handler, AppendFact, AppendGivesUp, ReadPriorCount,
                            CheckThreshold
  <2> QED  BY <2>1, <2>2
<1>10. ASSUME NEW e \in Entities, AskSynthesis(e)
       PROVE  RequestsAreKept'
  BY <1>3, <1>10 DEF AskSynthesis
<1>11. ASSUME NEW e \in Entities,
              \/ RegenListFacts(e) \/ Generator(e) \/ RegenGivesUp(e)
              \/ ObsidianEdit(e) \/ Watcher(e) \/ OpenEditor(e)
       PROVE  RequestsAreKept'
  BY <1>2, <1>11 DEF RegenListFacts, Generator, RegenReadBrief, RegenWrite, RegenGivesUp,
                 ObsidianEdit, Watcher, WatcherRead, WatcherCheck, WatcherCommit, OpenEditor
<1>12. CASE SaveEdit \/ SaveGivesUp \/ UNCHANGED vars
  BY <1>2, <1>12 DEF SaveEdit, SaveGivesUp, vars
<1> QED  BY <1>4, <1>5, <1>6, <1>7, <1>8, <1>9, <1>10, <1>11, <1>12 DEF Next, Synthesizer

(***************************************************************************)
(* An accepted synthesis request is never dropped, whatever runs, writes   *)
(* and reads fail: until a run begins after it, a mark or a follow-up      *)
(* goroutine stands for it.  Only its last follow-up can lose it, by       *)
(* finding the channel full; then it is owed no longer.                    *)
(***************************************************************************)
THEOREM RequestsStayKept == Spec => []RequestsAreKept
<1>1. Init => Base /\ RequestsAreKept
  BY BaseInit DEF Init, RequestsAreKept
<1>2. Base /\ RequestsAreKept /\ [Next]_vars => (Base /\ RequestsAreKept)'
  BY BaseStep, KeptStep
<1> QED  BY <1>1, <1>2, PTL DEF Spec

-----------------------------------------------------------------------------
(* The steps on the fact logs. *)

\* A step that neither writes a log nor asks for it to be written.
SameWrite(i) ==
  /\ i \in DOMAIN requests /\ requests[i].to = "log"
  /\ requests'[i].e = requests[i].e /\ requests'[i].body = requests[i].body
  /\ requests'[i].from = requests[i].from
QuietLog ==
  /\ UNCHANGED <<logLock, log, filling, confirmed, cut>>
  /\ \A r \in Recorders : post'[r].pc = "waiting" => post[r].pc = "waiting"
  /\ \A i \in DOMAIN requests' : requests'[i].to = "log" => SameWrite(i)
  /\ \A i \in DOMAIN requests :
       i \in DOMAIN requests' /\ (requests[i].to = "log" => requests'[i].to = "log")

\* The log changes hands only where its mutex does.
LEMMA LogSteps ==
  ASSUME Base, [Next]_vars
  PROVE  \/ \E r \in Recorders : \E seen : AppendFact(r) /\ AppendSends(r, seen)
         \/ \E r \in Recorders : AppendGivesUp(r)
         \/ Worker
         \/ QuietLog
<1> USE DEF files, queue, history
<1>1. /\ TypeOK /\ post \in [Recorders -> Posts] /\ requests \in Seq(Writes)
      /\ spent \in [inputs : Nat, giveUps : Nat] /\ spent.inputs \in Nat
      /\ \A x \in {"synth", "regen", "editor"} : x \notin Recorders /\ x # NoOne
      /\ \A i \in DOMAIN requests : requests[i] \in Writes
      /\ save.pc # "idle" => save.e \in Entities
  BY NamesDiffer, SpentType DEF Base, TypeOK, Writes, TasksAgree
<1>2. UNCHANGED requests =>
        /\ \A i \in DOMAIN requests' : requests'[i].to = "log" => SameWrite(i)
        /\ \A i \in DOMAIN requests :
             i \in DOMAIN requests' /\ (requests[i].to = "log" => requests'[i].to = "log")
  BY DEF SameWrite
<1>3. ASSUME UNCHANGED <<post, logLock, log, filling, confirmed, cut, requests>>
      PROVE  QuietLog
  BY <1>2, <1>3 DEF QuietLog
<1>4. ASSUME UNCHANGED <<post, logLock, log, filling, confirmed, cut>>,
             \A i \in DOMAIN requests : i \in DOMAIN requests' /\ requests'[i] = requests[i],
             \A i \in DOMAIN requests' \ DOMAIN requests : requests'[i].to \in {"brief", "edit"}
      PROVE  QuietLog
  BY <1>4 DEF QuietLog, SameWrite
<1>5. ASSUME UNCHANGED <<post, logLock, log, filling, confirmed, cut>>, NEW e,
             NEW from \in {"synth", "regen", "editor"}, GiveUp(from, e)
      PROVE  QuietLog
  <2>1. /\ DOMAIN requests' = DOMAIN requests
        /\ \A i \in DOMAIN requests :
             /\ requests'[i].to = requests[i].to /\ requests'[i].e = requests[i].e
             /\ requests'[i].body = requests[i].body
             /\ requests'[i].from = IF requests[i].from = from /\ requests[i].e = e
                                     THEN NoOne ELSE requests[i].from
    BY <1>1, <1>5, GiveUpLeaves
  <2>2. \A i \in DOMAIN requests : requests[i].to = "log" => requests[i].from # from
    BY <1>1, WriteTypes
  <2> QED  BY <1>5, <2>1, <2>2 DEF QuietLog, SameWrite
<1>6. ASSUME NEW r \in Recorders, PostFact(r) \/ Handler(r), AppendFact(r) => AppendQuiet(r)
      PROVE  QuietLog
  <2>1. UNCHANGED <<logLock, log, filling, confirmed, cut, requests>>
    <3>1. CASE AppendFact(r)
      BY <1>6, <3>1 DEF AppendFact, AppendQuiet
    <3> QED  BY <1>6, <3>1 DEF PostFact, Handler, ReadPriorCount, CheckThreshold,
                TriggerSynthesis, EnqueueSynthesis
  <2>2. \A s \in Recorders : post'[s].pc = "waiting" => post[s].pc = "waiting"
    <3>1. CASE PostFact(r)
      <4> DEFINE k == [pc |-> "lock", again |-> TRUE, prior |-> 0]
      <4>1. post' = [post EXCEPT ![r] = k] /\ k.pc = "lock"
        BY <3>1 DEF PostFact
      <4> HIDE DEF k
      <4> QED  BY <1>1, <4>1
    <3>2. ASSUME NEW p \in {"idle", "brief", "trigger", "done"}, post' = Moved(r, p)
          PROVE  \A s \in Recorders : post'[s].pc = "waiting" => post[s].pc = "waiting"
      <4>1. post'[r].pc = p /\ \A s \in Recorders \ {r} : post'[s] = post[s]
        BY <1>1, <3>2, PostMoves
      <4> QED  BY <4>1
    <3>3. CASE AppendFact(r)
      <4>1. post' \in {Moved(r, "brief"), Moved(r, "idle")}
        BY <1>6, <3>3 DEF AppendQuiet
      <4> QED  BY <3>2, <4>1
    <3>4. CASE ReadPriorCount(r)
      <4> DEFINE n == brief[EntityOf[r]].count
      <4>1. n \in Nat
        BY <1>1, EntityOfType DEF TypeOK, Bodies
      <4>2. post' = MovedOn(r, "list", n)
        BY <3>4 DEF ReadPriorCount, MovedOn
      <4> HIDE DEF n
      <4>3. post'[r].pc = "list" /\ \A s \in Recorders \ {r} : post'[s] = post[s]
        BY <1>1, <4>1, <4>2, PostMoves
      <4> QED  BY <4>3
    <3>5. CASE CheckThreshold(r)
      <4>1. post' \in {Moved(r, "trigger"), Moved(r, "done")}
        BY <3>5 DEF CheckThreshold, Moved
      <4> QED  BY <3>2, <4>1
    <3>6. CASE TriggerSynthesis(r)
      <4>1. post' = Moved(r, "done")
        BY <3>6 DEF TriggerSynthesis, Moved
      <4> QED  BY <3>2, <4>1
    <3> QED  BY <1>6, <3>1, <3>3, <3>4, <3>5, <3>6 DEF Handler
  <2> QED  BY <1>2, <2>1, <2>2 DEF QuietLog
<1>7. CASE Receive \/ BeginRun \/ SynthReadBrief \/ SynthListFacts \/ FinishRun
  BY <1>3, <1>7 DEF Receive, BeginRun, SynthReadBrief, SynthListFacts, FinishRun
<1>8. CASE SynthWrite
  <2>1. UNCHANGED <<post, logLock, log, filling, confirmed, cut>> /\ synth.e \in Entities
    BY <1>8, SynthSteps DEF SynthWrite
  <2>2. CASE UNCHANGED requests
    BY <1>3, <2>1, <2>2
  <2>3. CASE ~Saturated /\ Request("brief", synth.e, SynthesizedBody, "synth", synth.seen, 0)
    <3>1. SynthesizedBody \in Bodies /\ synth.seen \in Nat
      BY <1>1, SynthSteps, SynthesizedBodyType DEF TypeOK, SynthTasks, Tasks
    <3>2. /\ \A i \in DOMAIN requests : i \in DOMAIN requests' /\ requests'[i] = requests[i]
          /\ \A i \in DOMAIN requests' \ DOMAIN requests : requests'[i].to = "brief"
      BY <2>1, <2>3, <3>1, BriefWrite
    <3> QED  BY <1>4, <2>1, <3>2
  <2> QED  BY <1>8, <2>2, <2>3 DEF SynthWrite
<1>9. ASSUME NEW e \in Entities, RegenWrite(e)
      PROVE  QuietLog
  <2>1. UNCHANGED <<post, logLock, log, filling, confirmed, cut>>
    BY <1>9 DEF RegenWrite
  <2>2. CASE UNCHANGED requests
    BY <1>3, <2>1, <2>2
  <2>3. CASE ~Saturated /\ Request("brief", e, ArticleBody(e), "regen", regen[e].seen, 0)
    <3>1. ArticleBody(e) \in Bodies /\ regen[e].seen \in Nat
      BY <1>1, RegenSteps, ArticleBodyType DEF TypeOK, RegenTasks, Tasks
    <3>2. /\ \A i \in DOMAIN requests : i \in DOMAIN requests' /\ requests'[i] = requests[i]
          /\ \A i \in DOMAIN requests' \ DOMAIN requests : requests'[i].to = "brief"
      BY <2>1, <2>3, <3>1, BriefWrite
    <3> QED  BY <1>4, <2>1, <3>2
  <2> QED  BY <1>9, <2>2, <2>3 DEF RegenWrite
<1>10. CASE SaveEdit
  <2>1. UNCHANGED <<post, logLock, log, filling, confirmed, cut>> /\ save.e \in Entities
    BY <1>1, <1>10 DEF SaveEdit
  <2>2. CASE UNCHANGED requests
    BY <1>3, <2>1, <2>2
  <2>3. CASE ~Saturated /\ \E body \in Edited(save.read) :
               Request("edit", save.e, body, "editor", save.seen, save.sha)
    <3>1. PICK body \in Edited(save.read) :
            Request("edit", save.e, body, "editor", save.seen, save.sha)
      BY <2>3
    <3>2. body \in Bodies /\ save.seen \in Nat /\ save.sha \in Nat
      BY <1>1, SaveSteps, EditedBody
    <3>3. /\ \A i \in DOMAIN requests : i \in DOMAIN requests' /\ requests'[i] = requests[i]
          /\ \A i \in DOMAIN requests' \ DOMAIN requests : requests'[i].to = "edit"
      BY <2>1, <2>3, <3>1, <3>2, BriefWrite
    <3> QED  BY <1>4, <2>1, <3>3
  <2> QED  BY <1>10, <2>2, <2>3 DEF SaveEdit
<1>11. CASE SynthGivesUp \/ SaveGivesUp
  BY <1>5, <1>11 DEF SynthGivesUp, SaveGivesUp
<1>12. ASSUME NEW e \in Entities, RegenGivesUp(e)
       PROVE  QuietLog
  BY <1>5, <1>12 DEF RegenGivesUp
<1>13. ASSUME NEW e \in Entities,
              \/ AskSynthesis(e) \/ FollowUp(e) \/ RegenListFacts(e) \/ RegenReadBrief(e)
              \/ ObsidianEdit(e) \/ Watcher(e) \/ OpenEditor(e)
       PROVE  QuietLog
  <2>1. UNCHANGED <<post, logLock, log, filling, confirmed, cut, requests>>
    BY <1>13 DEF AskSynthesis, FollowUp, EnqueueSynthesis, RegenListFacts, RegenReadBrief,
                 ObsidianEdit, Watcher, WatcherRead, WatcherCheck, WatcherCommit, Commit,
                 OpenEditor
  <2> QED  BY <1>2, <2>1 DEF QuietLog
<1>14. CASE UNCHANGED vars
  BY <1>3, <1>14 DEF vars
<1>15. ASSUME NEW r \in Recorders, AppendFact(r)
       PROVE  AppendQuiet(r) \/ (\E seen : AppendSends(r, seen))
  BY <1>1, <1>15, AppendCases
<1> QED  BY <1>6, <1>7, <1>8, <1>9, <1>10, <1>11, <1>12, <1>13, <1>14, <1>15
         DEF Next, Synthesizer, Generator, Handler

\* Confirmed facts: what the log holds, and what its writes in the queue hold.
FactInv == LogReply /\ Fills /\ Carried /\ ConfirmedFactsStay

\* The writes behind the first one.
LEMMA BehindFirst ==
  ASSUME Base, ProcessFact \/ FailFactWrite \/ ProcessBrief \/ RefuseEdit
  PROVE  LET q == Head(requests) IN
         /\ q = requests[1] /\ 1 \in DOMAIN requests /\ q.e \in Entities
         /\ q.to = "log" => q.body \in Seq(Recorders) /\ q.from \in Recorders \union {NoOne}
         /\ \A i \in DOMAIN requests' :
              /\ i \in Nat /\ i + 1 \in DOMAIN requests /\ i + 1 > 1
              /\ requests'[i] = requests[i + 1]
<1>1. requests # <<>> /\ requests' = Tail(requests)
  BY FactEnds DEF Base, ProcessBrief, RefuseEdit
<1>2. /\ Head(requests) = requests[1] /\ 1 \in DOMAIN requests /\ Head(requests) \in Writes
      /\ \A i \in DOMAIN requests' :
           i \in Nat \ {0} /\ i + 1 \in DOMAIN requests /\ requests'[i] = requests[i + 1]
  BY <1>1, FirstWrite
<1>3. \A i \in DOMAIN requests' : i \in Nat /\ i + 1 > 1
  BY <1>2
<1> QED  BY <1>2, <1>3, WriteTypes

LEMMA FactQuiet ==
  ASSUME Base, FactInv, QuietLog
  PROVE  FactInv'
<1>1. \A i \in DOMAIN requests' : IsLog(i)' => SameWrite(i) /\ IsLog(i)
  BY DEF QuietLog, IsLog, SameWrite
<1>2. UNCHANGED <<logLock, log, filling, confirmed, cut>>
  BY DEF QuietLog
<1>3. LogReply'
  <2>1. \A r \in Recorders : post'[r].pc = "waiting" => logLock' = r
    BY <1>2 DEF QuietLog, FactInv, LogReply
  <2>2. ASSUME NEW i \in DOMAIN requests', IsLog(i)', requests'[i].from # NoOne
        PROVE  /\ logLock' = requests'[i].from
               /\ requests'[i].e = EntityOf[logLock']
               /\ logLock' \in FactsIn(requests'[i].body)
               /\ \A j \in DOMAIN requests' : j > i => ~IsLog(j)'
    <3>1. SameWrite(i) /\ IsLog(i)
      BY <1>1, <2>2
    <3>2. /\ logLock = requests[i].from
          /\ requests[i].e = EntityOf[logLock]
          /\ logLock \in FactsIn(requests[i].body)
          /\ \A j \in DOMAIN requests : j > i => ~IsLog(j)
      BY <2>2, <3>1 DEF FactInv, LogReply, SameWrite
    <3>3. \A j \in DOMAIN requests' : j > i => ~IsLog(j)'
      BY <1>1, <3>2 DEF SameWrite
    <3> QED  BY <1>2, <3>1, <3>2, <3>3 DEF SameWrite
  <2> QED  BY <2>1, <2>2 DEF LogReply
<1>4. Carried'
  BY <1>1, <1>2 DEF FactInv, Carried, SameWrite
<1>5. ConfirmedFactsStay'
  BY <1>2 DEF FactInv, ConfirmedFactsStay
<1>6. Fills'
  BY <1>1, <1>2 DEF FactInv, Fills, QuietLog, IsLog, SameWrite
<1> QED  BY <1>3, <1>4, <1>5, <1>6 DEF FactInv

\* An appended line leaves the others in the file.
LEMMA AppendedFacts ==
  ASSUME NEW s \in Seq(Recorders), NEW r \in Recorders
  PROVE  r \in FactsIn(Append(s, r)) /\ \A f \in FactsIn(s) : f \in FactsIn(Append(s, r))
<1> DEFINE t == Append(s, r)
           n == Len(s)
<1>1. /\ n \in Nat /\ DOMAIN s = 1..n /\ DOMAIN t = 1..(n + 1)
      /\ t[n + 1] = r /\ \A i \in 1..n : t[i] = s[i]
  OBVIOUS
<1> HIDE DEF t, n
<1>2. n + 1 \in DOMAIN t /\ \A i \in DOMAIN s : i \in DOMAIN t /\ t[i] = s[i]
  BY <1>1
<1>3. r \in FactsIn(t) /\ \A f \in FactsIn(s) : f \in FactsIn(t)
  BY <1>1, <1>2 DEF FactsIn
<1> QED  BY <1>3 DEF t

\* A recorder that takes the mutex finds no write that anybody waits for.
LEMMA FactEnqueue ==
  ASSUME Base, FactInv, NEW r \in Recorders, NEW seen, AppendFact(r), AppendSends(r, seen)
  PROVE  FactInv'
<1> USE DEF files, queue, history
<1> DEFINE e == EntityOf[r]
<1>0. /\ ~Saturated /\ logLock = NoOne /\ EnqueueEntityFact(r, seen)
      /\ cut' = IF seen = log[e] THEN cut ELSE cut \union {e}
      /\ e \in Entities /\ seen \in Seq(Recorders)
  BY EntityOfType, SeenTypes DEF AppendSends, Base
<1>1. /\ logLock = NoOne /\ logLock' = r /\ log' = log /\ filling' = filling
      /\ confirmed' = confirmed /\ NoOne \notin Recorders
      /\ confirmed \subseteq Recorders /\ requests \in Seq(Writes)
  BY <1>0, NamesDiffer DEF AppendFact, EnqueueEntityFact, Base, TypeOK, Writes
<1>2. /\ \A i \in DOMAIN requests : i \in DOMAIN requests' /\ requests'[i] = requests[i]
      /\ \A i \in DOMAIN requests' \ DOMAIN requests :
           /\ i = Len(requests) + 1
           /\ requests'[i].to = "log" /\ requests'[i].e = e
           /\ requests'[i].body = Append(seen, r) /\ requests'[i].from = r
      /\ requests' \in Seq(Writes)
  BY <1>0, FactWrites
<1>3. \A i \in DOMAIN requests : IsLog(i) => requests[i].from = NoOne
  BY <1>1 DEF FactInv, LogReply, Base, TypeOK
<1>4. \A s \in Recorders : post'[s].pc = "waiting" => s = r
  <2>1. \A s \in Recorders : post[s].pc # "waiting"
    BY <1>1 DEF FactInv, LogReply
  <2>2. post' = Moved(r, "waiting")
    BY <1>0 DEF EnqueueEntityFact, Moved
  <2>3. \A s \in Recorders \ {r} : post'[s] = post[s]
    BY <2>2, PostMoves DEF Base, TypeOK
  <2> QED  BY <2>1, <2>3
<1>5. r \in FactsIn(Append(seen, r)) /\ \A f \in FactsIn(seen) : f \in FactsIn(Append(seen, r))
  BY <1>0, AppendedFacts
<1> HIDE DEF e
<1>6. LogReply'
  <2>1. ASSUME NEW i \in DOMAIN requests', IsLog(i)', requests'[i].from # NoOne
        PROVE  /\ logLock' = requests'[i].from
               /\ requests'[i].e = EntityOf[logLock']
               /\ logLock' \in FactsIn(requests'[i].body)
               /\ \A j \in DOMAIN requests' : j > i => ~IsLog(j)'
    <3>1. i \notin DOMAIN requests
      BY <1>2, <1>3, <2>1 DEF IsLog
    <3>2. \A j \in DOMAIN requests' : ~(j > i)
      <4>1. i = Len(requests) + 1
        BY <1>2, <3>1
      <4>2. DOMAIN requests = 1..Len(requests) /\ Len(requests) \in Nat
        BY <1>1
      <4> QED  BY <1>2, <4>1, <4>2
    <3> QED  BY <1>1, <1>2, <1>5, <3>1, <3>2 DEF e
  <2> QED  BY <1>1, <1>4, <2>1 DEF LogReply
<1>7. Carried'
  <2>1. ASSUME NEW s \in confirmed, EntityOf[s] \notin cut', NEW i \in DOMAIN requests',
               IsLog(i)', requests'[i].e = EntityOf[s]
        PROVE  s \in FactsIn(requests'[i].body)
    <3>0. EntityOf[s] \notin cut
      BY <1>0, <2>1
    <3>1. CASE i \in DOMAIN requests
      BY <1>2, <2>1, <3>0, <3>1 DEF FactInv, Carried, IsLog
    <3>2. CASE i \notin DOMAIN requests
      <4>1. requests'[i].e = e /\ requests'[i].body = Append(seen, r)
        BY <1>2, <3>2
      <4>2. seen = log[e]
        BY <1>0, <2>1, <4>1
      <4>3. s \in FactsIn(log[e])
        BY <2>1, <3>0, <4>1 DEF FactInv, ConfirmedFactsStay
      <4> QED  BY <1>5, <4>1, <4>2, <4>3
    <3> QED  BY <3>1, <3>2
  <2> QED  BY <1>1, <2>1 DEF Carried
<1>8. ConfirmedFactsStay'
  BY <1>0, <1>1 DEF FactInv, ConfirmedFactsStay
<1>9. Fills'
  BY <1>1, <1>2 DEF FactInv, Fills, IsLog
<1> QED  BY <1>6, <1>7, <1>8, <1>9 DEF FactInv

\* A recorder that gives up takes its name off the one write that bears it.
LEMMA FactGiveUp ==
  ASSUME Base, FactInv, NEW r \in Recorders, AppendGivesUp(r)
  PROVE  FactInv'
<1> USE DEF files, queue, history
<1>1. /\ logLock = r /\ logLock' = NoOne /\ log' = log /\ confirmed' = confirmed
      /\ filling' = filling /\ cut' = cut
      /\ requests \in Seq(Writes) /\ GiveUp(r, EntityOf[r])
  BY DEF AppendGivesUp, FactInv, LogReply, Base, TypeOK, Writes
<1>2. /\ DOMAIN requests' = DOMAIN requests
      /\ \A i \in DOMAIN requests :
           /\ requests'[i].to = requests[i].to /\ requests'[i].e = requests[i].e
           /\ requests'[i].body = requests[i].body
           /\ requests'[i].from = IF requests[i].from = r /\ requests[i].e = EntityOf[r]
                                   THEN NoOne ELSE requests[i].from
  BY <1>1, GiveUpLeaves
<1>3. \A i \in DOMAIN requests' : IsLog(i)' => IsLog(i) /\ requests'[i].from = NoOne
  BY <1>1, <1>2 DEF FactInv, LogReply, IsLog
<1>4. \A s \in Recorders : post'[s].pc # "waiting"
  <2>1. post' = Moved(r, "idle")
    BY DEF AppendGivesUp, Moved
  <2>2. post'[r].pc = "idle" /\ \A s \in Recorders \ {r} : post'[s] = post[s]
    BY <2>1, PostMoves DEF Base, TypeOK
  <2> QED  BY <1>1, <2>2 DEF FactInv, LogReply
<1>5. LogReply'
  BY <1>3, <1>4 DEF LogReply
<1>6. Carried'
  BY <1>1, <1>2, <1>3 DEF FactInv, Carried
<1>7. ConfirmedFactsStay'
  BY <1>1 DEF FactInv, ConfirmedFactsStay
<1>8. Fills'
  BY <1>1, <1>2 DEF FactInv, Fills, IsLog
<1> QED  BY <1>5, <1>6, <1>7, <1>8 DEF FactInv

\* The worker writes what carries the confirmed facts.
LEMMA FactStart ==
  ASSUME Base, FactInv, StartFactWrite
  PROVE  FactInv'
<1> USE DEF files, queue, history
<1> DEFINE q == Head(requests)
<1>1. /\ q = requests[1] /\ 1 \in DOMAIN requests /\ q.e \in Entities
      /\ log' = [log EXCEPT ![q.e] = q.body] /\ log \in [Entities -> Seq(Recorders)]
  BY FactStarts DEF Base, TypeOK
<1>2. UNCHANGED <<post, logLock, requests, confirmed, cut>> /\ q.to = "log"
  BY DEF StartFactWrite
<1> HIDE DEF q
<1>3. IsLog(1) /\ log'[q.e] = q.body /\ \A d \in Entities \ {q.e} : log'[d] = log[d]
  BY <1>1, <1>2 DEF IsLog
<1>4. LogReply' /\ Carried'
  BY <1>2 DEF FactInv, LogReply, Carried, IsLog
<1>5. Fills'
  BY <1>1, <1>2, <1>3 DEF Fills, IsLog
<1>6. ConfirmedFactsStay'
  <2>1. ASSUME NEW r \in confirmed, EntityOf[r] \notin cut
        PROVE  r \in FactsIn(log'[EntityOf[r]])
    <3>1. EntityOf[r] \in Entities
      BY EntityOfType DEF Base, TypeOK
    <3>2. CASE EntityOf[r] = q.e
      BY <1>1, <1>3, <2>1, <3>2 DEF FactInv, Carried
    <3>3. CASE EntityOf[r] # q.e
      BY <1>3, <2>1, <3>1, <3>3 DEF FactInv, ConfirmedFactsStay
    <3> QED  BY <3>2, <3>3
  <2> QED  BY <1>2, <2>1 DEF ConfirmedFactsStay
<1> QED  BY <1>4, <1>5, <1>6 DEF FactInv

LEMMA FactWorker ==
  ASSUME Base, FactInv, ProcessFact \/ FailFactWrite \/ ProcessBrief \/ RefuseEdit
  PROVE  FactInv'
<1> USE DEF files, queue, history
<1> DEFINE q == Head(requests)
<1>1. /\ q = requests[1] /\ 1 \in DOMAIN requests /\ q.e \in Entities
      /\ q.to = "log" => q.body \in Seq(Recorders) /\ q.from \in Recorders \union {NoOne}
      /\ \A i \in DOMAIN requests' :
           /\ i \in Nat /\ i + 1 \in DOMAIN requests /\ i + 1 > 1
           /\ requests'[i] = requests[i + 1]
  BY BehindFirst
<1>2. \A i \in DOMAIN requests' : IsLog(i)' <=> IsLog(i + 1)
  BY <1>1 DEF IsLog
<1>3. NoOne \notin Recorders /\ log \in [Entities -> Seq(Recorders)] /\ confirmed \subseteq Recorders
  BY NamesDiffer DEF Base, TypeOK
<1>4. ASSUME NEW i \in DOMAIN requests', IsLog(i)', requests'[i].from # NoOne
      PROVE  /\ logLock = requests'[i].from
             /\ requests'[i].e = EntityOf[logLock]
             /\ logLock \in FactsIn(requests'[i].body)
             /\ \A j \in DOMAIN requests' : j > i => ~IsLog(j)'
  <2>1. /\ logLock = requests[i + 1].from
        /\ requests[i + 1].e = EntityOf[logLock]
        /\ logLock \in FactsIn(requests[i + 1].body)
        /\ \A j \in DOMAIN requests : j > i + 1 => ~IsLog(j)
    BY <1>1, <1>2, <1>4 DEF FactInv, LogReply
  <2>2. ASSUME NEW j \in DOMAIN requests', j > i
        PROVE  ~IsLog(j)'
    <3>1. j + 1 \in DOMAIN requests /\ j + 1 > i + 1
      BY <1>1, <2>2
    <3> QED  BY <1>2, <2>1, <3>1
  <2> QED  BY <1>1, <2>1, <2>2
<1>5. CASE ProcessBrief \/ RefuseEdit
  <2>1. UNCHANGED <<post, logLock, log, filling, confirmed, cut>>
    BY <1>5 DEF ProcessBrief, RefuseEdit, Commit
  <2>2. LogReply'
    BY <1>4, <2>1 DEF FactInv, LogReply
  <2>3. Carried'
    BY <1>1, <1>2, <2>1 DEF FactInv, Carried
  <2>4. ConfirmedFactsStay'
    BY <2>1 DEF FactInv, ConfirmedFactsStay
  <2>5. Fills'
    <3>1. ~IsLog(1)
      BY <1>1, <1>5 DEF ProcessBrief, RefuseEdit, IsLog
    <3> QED  BY <2>1, <3>1 DEF FactInv, Fills
  <2> QED  BY <2>2, <2>3, <2>4, <2>5 DEF FactInv
<1>6. CASE ProcessFact \/ FailFactWrite
  <2> HIDE DEF q
  <2>0. /\ q.to = "log"
        /\ \/ log' = log /\ cut' = cut
           \/ /\ \E part \in Prefixes(q.body) : log' = [log EXCEPT ![q.e] = part]
              /\ cut' = cut \union {q.e}
    BY <1>6, FactEnds DEF Base, q
  <2>1. logLock' = (IF q.from = logLock THEN NoOne ELSE logLock) /\ filling' = FALSE
    BY <1>6, FactEnds DEF Base, FactReply, q
  <2>2. PICK ok \in BOOLEAN :
          /\ ok => ProcessFact
          /\ post' = [r \in Recorders |->
               IF r # q.from THEN post[r]
               ELSE [post[r] EXCEPT !.pc = IF ok THEN "brief" ELSE "idle"]]
          /\ confirmed' = IF ok THEN confirmed \union ({q.from} \ {NoOne})
                          ELSE confirmed
    BY <1>6, FactEnds DEF Base, FactReply, q
  <2>3. IsLog(1) /\ cut \subseteq cut' /\ Fills'
        /\ \A d \in Entities \ cut' : log'[d] = log[d]
    BY <1>1, <1>3, <2>0, <2>1 DEF IsLog, Fills
  <2>4. \A r \in confirmed : EntityOf[r] \in cut' \/ r \in FactsIn(log'[EntityOf[r]])
    BY <1>3, <2>3, EntityOfType DEF FactInv, ConfirmedFactsStay
  <2>5. CASE q.from = NoOne
    <3>1. logLock' = logLock /\ confirmed' = confirmed
      BY <2>1, <2>2, <2>5
    <3>2. \A r \in Recorders : post'[r] = post[r]
      BY <1>3, <2>2, <2>5
    <3>3. LogReply'
      BY <1>4, <3>1, <3>2 DEF FactInv, LogReply
    <3>4. Carried'
      BY <1>1, <1>2, <2>3, <3>1 DEF FactInv, Carried
    <3>5. ConfirmedFactsStay'
      BY <2>4, <3>1 DEF ConfirmedFactsStay
    <3> QED  BY <2>3, <3>3, <3>4, <3>5 DEF FactInv
  <2>6. CASE q.from # NoOne
    <3>1. /\ logLock = q.from /\ q.e = EntityOf[logLock] /\ logLock \in FactsIn(q.body)
          /\ \A j \in DOMAIN requests : j > 1 => ~IsLog(j)
          /\ q.from \in Recorders
      BY <1>1, <2>0, <2>3, <2>6 DEF FactInv, LogReply
    <3>2. \A i \in DOMAIN requests' : ~IsLog(i)'
      BY <1>1, <1>2, <3>1
    <3>3. \A r \in Recorders : post'[r].pc # "waiting"
      <4>1. \A r \in Recorders : r # q.from => post'[r] = post[r] /\ post[r].pc # "waiting"
        BY <2>2, <3>1 DEF FactInv, LogReply
      <4>2. post'[q.from].pc # "waiting"
        <5> DEFINE p == IF ok THEN "brief" ELSE "idle"
                   k == post[q.from]
        <5>1. k \in Posts /\ p \in {"brief", "idle"}
          BY <3>1 DEF Base, TypeOK
        <5>2. post'[q.from] = [k EXCEPT !.pc = p]
          BY <2>2, <3>1
        <5> HIDE DEF p, k
        <5>3. [k EXCEPT !.pc = p].pc = p
          BY <5>1 DEF Posts
        <5> QED  BY <5>1, <5>2, <5>3
      <4> QED  BY <4>1, <4>2
    <3>4. LogReply' /\ Carried'
      BY <3>2, <3>3 DEF LogReply, Carried
    <3>5. \A r \in confirmed' : r \in confirmed \/ (r = logLock /\ ok)
      BY <2>2, <3>1
    <3>6. ok => logLock \in FactsIn(log'[EntityOf[logLock]])
      <4> SUFFICES ASSUME ok PROVE logLock \in FactsIn(log'[EntityOf[logLock]])
        OBVIOUS
      <4>1. filling /\ log' = log
        BY <2>2 DEF ProcessFact
      <4>2. log[q.e] = q.body
        BY <1>1, <4>1 DEF FactInv, Fills
      <4> QED  BY <3>1, <4>1, <4>2
    <3>7. ConfirmedFactsStay'
      BY <2>4, <3>5, <3>6 DEF ConfirmedFactsStay
    <3> QED  BY <2>3, <3>4, <3>7 DEF FactInv
  <2> QED  BY <2>5, <2>6
<1> QED  BY <1>5, <1>6

LEMMA FactInit ==
  ASSUME Init
  PROVE  FactInv
<1> DEFINE k == [pc |-> "idle", again |-> FALSE, prior |-> 0]
<1>1. k.pc = "idle" /\ post = [r \in Recorders |-> k]
  BY DEF Init
<1> HIDE DEF k
<1> QED  BY <1>1 DEF Init, FactInv, LogReply, Fills, Carried, ConfirmedFactsStay

(***************************************************************************)
(* A fact whose own write was answered with success stays in its log,      *)
(* although every append rewrites the whole file from what its caller had  *)
(* read and callers leave writes behind in the queue: the log's mutex is   *)
(* held until the reply.  An entity is exempt once an append has read its  *)
(* log short (the read failed, or met an abandoned write half-way) or a    *)
(* write of it has failed half-way: such an append or write can erase      *)
(* confirmed facts.                                                        *)
(***************************************************************************)
THEOREM FactsAreKept == Spec => []ConfirmedFactsStay
<1>1. Init => Base /\ FactInv
  BY BaseInit, FactInit
<1>2. Base /\ FactInv /\ [Next]_vars => (Base /\ FactInv)'
  BY BaseStep, LogSteps, FactQuiet, FactEnqueue, FactGiveUp, FactStart, FactWorker DEF Worker
<1>3. FactInv => ConfirmedFactsStay
  BY DEF FactInv
<1> QED  BY <1>1, <1>2, <1>3, PTL DEF Spec

-----------------------------------------------------------------------------
(* The stamps. *)

\* Which steps touch what the stamps go through.
LEMMA WhoChanges ==
  ASSUME Base, [Next]_vars
  PROVE  /\ log' = log \/ StartFactWrite \/ FailFactWrite
         /\ cut \subseteq cut'
         /\ \/ brief' = brief \/ ProcessBrief
            \/ \E e \in Entities : ObsidianEdit(e) \/ WatcherCommit(e)
         /\ watch' = watch \/ \E e \in Entities : Watcher(e)
         /\ \/ regen' = regen \/ ProcessBrief
            \/ \E e \in Entities : RegenListFacts(e) \/ Generator(e) \/ RegenGivesUp(e)
         /\ \/ synth' = synth \/ ProcessBrief \/ Receive \/ BeginRun \/ SynthReadBrief
            \/ SynthListFacts \/ SynthWrite \/ SynthGivesUp \/ FinishRun
         /\ \/ save' = save \/ save' = Idle \/ SaveEdit
            \/ \E e \in Entities : OpenEditor(e)
         /\ \/ requests' = requests \/ SynthWrite \/ SaveEdit
            \/ ProcessFact \/ FailFactWrite \/ ProcessBrief \/ RefuseEdit
            \/ \E from, e : GiveUp(from, e)
            \/ \E r \in Recorders : \E seen : AppendSends(r, seen)
            \/ \E e \in Entities : RegenWrite(e)
<1> USE DEF files, queue, history
<1>1. CASE Worker
  BY <1>1 DEF Worker, StartFactWrite, ProcessFact, FailFactWrite, FactReply, ProcessBrief,
              RefuseEdit, Commit
<1>2. CASE Receive \/ BeginRun \/ SynthReadBrief \/ SynthListFacts \/ FinishRun
  BY <1>2 DEF Receive, BeginRun, SynthReadBrief, SynthListFacts, FinishRun
<1>3. CASE SynthWrite \/ SynthGivesUp \/ SaveEdit \/ SaveGivesUp
  BY <1>3 DEF SynthWrite, SynthGivesUp, SaveEdit, SaveGivesUp
<1>4. ASSUME NEW r \in Recorders, PostFact(r) \/ Handler(r) \/ AppendGivesUp(r)
      PROVE  /\ UNCHANGED <<log, brief, watch, regen, synth, save>> /\ cut \subseteq cut'
             /\ \/ requests' = requests \/ GiveUp(r, EntityOf[r])
                \/ \E seen : AppendSends(r, seen)
  <2>1. CASE AppendFact(r)
    <3>1. AppendQuiet(r) \/ (\E seen : AppendSends(r, seen))
      BY <2>1, AppendCases DEF Base, TypeOK
    <3> QED  BY <2>1, <3>1 DEF AppendFact, AppendQuiet, AppendSends
  <2> QED  BY <1>4, <2>1 DEF PostFact, Handler, AppendGivesUp, ReadPriorCount, CheckThreshold,
              TriggerSynthesis, EnqueueSynthesis
<1>5. ASSUME NEW e \in Entities, AskSynthesis(e) \/ FollowUp(e)
      PROVE  UNCHANGED <<log, brief, watch, regen, synth, save, requests, cut>>
  BY <1>5 DEF AskSynthesis, FollowUp, EnqueueSynthesis
<1>6. ASSUME NEW e \in Entities, RegenListFacts(e) \/ Generator(e) \/ RegenGivesUp(e)
      PROVE  /\ UNCHANGED <<log, brief, watch, synth, save, cut>>
             /\ requests' = requests \/ GiveUp("regen", e) \/ RegenWrite(e)
  BY <1>6 DEF RegenListFacts, Generator, RegenReadBrief, RegenWrite, RegenGivesUp
<1>7. ASSUME NEW e \in Entities, ObsidianEdit(e) \/ Watcher(e) \/ OpenEditor(e)
      PROVE  /\ UNCHANGED <<log, regen, synth, requests, cut>>
             /\ brief' = brief \/ ObsidianEdit(e) \/ WatcherCommit(e)
             /\ watch' = watch \/ Watcher(e)
             /\ save' = save \/ OpenEditor(e)
  BY <1>7 DEF ObsidianEdit, Watcher, WatcherRead, WatcherCheck, WatcherCommit, Commit, OpenEditor
<1>8. CASE UNCHANGED vars
  BY <1>8 DEF vars
<1> QED  BY <1>1, <1>2, <1>3, <1>4, <1>5, <1>6, <1>7, <1>8 DEF Next, Synthesizer

\* A log write in the queue has a length.
LEMMA WriteLengths ==
  ASSUME Base
  PROVE  /\ \A e \in Entities : Len(log[e]) \in Nat
         /\ \A i \in DOMAIN requests :
              /\ requests[i].e \in Entities
              /\ IsLog(i) => Len(requests[i].body) \in Nat
              /\ ~IsLog(i) => requests[i].body \in Bodies /\ requests[i].body.count \in Nat
<1>1. log \in [Entities -> Seq(Recorders)] /\ requests \in Seq(Writes)
  BY DEF Base, TypeOK, Writes
<1>2. \A i \in DOMAIN requests : requests[i] \in Writes
  BY <1>1
<1>3. \A i \in DOMAIN requests :
        /\ requests[i].e \in Entities
        /\ IsLog(i) => requests[i].body \in Seq(Recorders)
        /\ ~IsLog(i) => requests[i].body \in Bodies
  BY <1>2, WriteTypes DEF IsLog
<1> QED  BY <1>1, <1>3 DEF Bodies

\* No write shortens a log.
LEMMA LogGrowsStep ==
  ASSUME Base, LogGrows, [Next]_vars
  PROVE  LogGrows' /\ \A e \in Entities \ cut' : Len(log[e]) <= Len(log'[e])
<1> USE DEF files, queue, history
<1>1. /\ \A e \in Entities : Len(log[e]) \in Nat
      /\ \A i \in DOMAIN requests :
           requests[i].e \in Entities /\ (IsLog(i) => Len(requests[i].body) \in Nat)
      /\ log \in [Entities -> Seq(Recorders)] /\ requests \in Seq(Writes)
  BY WriteLengths DEF Base, TypeOK, Writes
<1>0. cut \subseteq cut'
  BY WhoChanges
<1>2. ASSUME log' = log,
             \A i \in DOMAIN requests' : IsLog(i)' =>
               /\ i \in DOMAIN requests /\ IsLog(i)
               /\ requests'[i].e = requests[i].e /\ requests'[i].body = requests[i].body
      PROVE  LogGrows' /\ \A e \in Entities \ cut' : Len(log[e]) <= Len(log'[e])
  <2>1. LogGrows'
    BY <1>0, <1>2 DEF LogGrows
  <2> QED  BY <1>1, <1>2, <2>1
<1>3. CASE QuietLog
  <2>1. log' = log
    BY <1>3 DEF QuietLog
  <2>2. \A i \in DOMAIN requests' : IsLog(i)' =>
          /\ i \in DOMAIN requests /\ IsLog(i)
          /\ requests'[i].e = requests[i].e /\ requests'[i].body = requests[i].body
    BY <1>3 DEF QuietLog, SameWrite, IsLog
  <2> QED  BY <1>2, <2>1, <2>2
<1>4. ASSUME NEW r \in Recorders, AppendGivesUp(r)
      PROVE  LogGrows' /\ \A e \in Entities \ cut' : Len(log[e]) <= Len(log'[e])
  <2>1. log' = log /\ GiveUp(r, EntityOf[r])
    BY <1>4 DEF AppendGivesUp
  <2>2. \A i \in DOMAIN requests' : IsLog(i)' =>
          /\ i \in DOMAIN requests /\ IsLog(i)
          /\ requests'[i].e = requests[i].e /\ requests'[i].body = requests[i].body
    BY <1>1, <2>1, GiveUpLeaves DEF IsLog
  <2> QED  BY <1>2, <2>1, <2>2
<1>5. ASSUME NEW r \in Recorders, NEW seen, AppendFact(r), AppendSends(r, seen)
      PROVE  LogGrows' /\ \A e \in Entities \ cut' : Len(log[e]) <= Len(log'[e])
  <2> DEFINE e == EntityOf[r]
             n == Len(requests) + 1
  <2>1. log' = log /\ e \in Entities
    BY <1>5, EntityOfType DEF AppendFact
  <2>2. /\ \A i \in DOMAIN requests : i \in DOMAIN requests' /\ requests'[i] = requests[i]
        /\ \A i \in DOMAIN requests' \ DOMAIN requests :
             /\ i = n /\ requests'[i].e = e
             /\ requests'[i].body = Append(seen, r)
    BY <1>5, <2>1, SeenTypes, FactWrites DEF AppendSends, Base
  <2>3. e \notin cut' => Len(Append(seen, r)) = Len(log[e]) + 1
    <3>1. e \notin cut' => seen = log[e]
      BY <1>5 DEF AppendSends
    <3> QED  BY <1>1, <2>1, <3>1
  <2>4. \A i \in DOMAIN requests : i < n
    BY <1>1
  <2> HIDE DEF e, n
  <2>5. ASSUME NEW i \in DOMAIN requests', IsLog(i)', requests'[i].e \notin cut'
        PROVE  /\ Len(log'[requests'[i].e]) <= Len(requests'[i].body)
               /\ Len(requests'[i].body) <= Len(log'[requests'[i].e]) + 1
    <3>1. CASE i \in DOMAIN requests
      BY <1>0, <2>1, <2>2, <2>5, <3>1 DEF LogGrows, IsLog
    <3>2. CASE i \notin DOMAIN requests
      BY <1>1, <2>1, <2>2, <2>3, <2>5, <3>2
    <3> QED  BY <3>1, <3>2
  <2>6. ASSUME NEW i \in DOMAIN requests', NEW j \in DOMAIN requests',
               IsLog(i)', IsLog(j)', i < j, requests'[i].e = requests'[j].e,
               requests'[i].e \notin cut'
        PROVE  Len(requests'[i].body) <= Len(requests'[j].body)
    <3>1. CASE i \in DOMAIN requests /\ j \in DOMAIN requests
      BY <1>0, <2>2, <2>6, <3>1 DEF LogGrows, IsLog
    <3>2. CASE i \in DOMAIN requests /\ j \notin DOMAIN requests
      <4>1. IsLog(i) /\ requests'[i] = requests[i] /\ requests[i].e = e
            /\ Len(requests'[j].body) = Len(log[e]) + 1 /\ e \notin cut
        BY <1>0, <2>2, <2>3, <2>6, <3>2 DEF IsLog
      <4>2. Len(requests[i].body) <= Len(log[e]) + 1
        BY <3>2, <4>1 DEF LogGrows
      <4> QED  BY <4>1, <4>2
    <3>3. CASE i \notin DOMAIN requests
      <4>1. i = n
        BY <2>2, <3>3
      <4>2. j = n
        BY <2>2, <2>4, <2>6, <1>1, <4>1 DEF n
      <4> QED  BY <2>6, <4>1, <4>2, <1>1 DEF n
    <3> QED  BY <3>1, <3>2, <3>3
  <2> QED  BY <1>1, <2>1, <2>5, <2>6 DEF LogGrows
<1>6. CASE StartFactWrite
  <2> DEFINE q == Head(requests)
  <2>1. /\ q = requests[1] /\ 1 \in DOMAIN requests /\ q.e \in Entities
        /\ log' = [log EXCEPT ![q.e] = q.body]
        /\ requests' = requests /\ cut' = cut /\ IsLog(1)
    BY <1>6, FactStarts DEF StartFactWrite, IsLog
  <2> HIDE DEF q
  <2>2. log'[q.e] = q.body /\ \A d \in Entities \ {q.e} : log'[d] = log[d]
    BY <1>1, <2>1
  <2>3. Len(q.body) \in Nat /\ (q.e \notin cut => Len(log[q.e]) <= Len(q.body))
    BY <1>1, <2>1 DEF LogGrows
  <2>4. ASSUME NEW i \in DOMAIN requests, IsLog(i), requests[i].e \notin cut
        PROVE  /\ Len(log'[requests[i].e]) <= Len(requests[i].body)
               /\ Len(requests[i].body) <= Len(log'[requests[i].e]) + 1
    <3> DEFINE w == requests[i]
    <3>1. /\ w.e \in Entities /\ Len(log[w.e]) <= Len(w.body) /\ Len(w.body) <= Len(log[w.e]) + 1
          /\ Len(w.body) \in Nat /\ Len(log[w.e]) \in Nat
      BY <1>1, <2>4 DEF LogGrows
    <3>2. CASE w.e = q.e
      <4>1. Len(q.body) <= Len(w.body)
        <5>1. CASE i = 1
          BY <1>1, <2>1, <2>4, <5>1
        <5>2. CASE i # 1
          <6>1. 1 < i
            BY <1>1, <5>2
          <6> QED  BY <2>1, <2>4, <3>2, <6>1 DEF LogGrows
        <5> QED  BY <5>1, <5>2
      <4>2. log'[w.e] = q.body /\ Len(log[w.e]) <= Len(q.body)
        BY <2>2, <2>3, <2>4, <3>2
      <4> HIDE DEF w
      <4> QED  BY <2>3, <3>1, <4>1, <4>2 DEF w
    <3>3. CASE w.e # q.e
      BY <2>2, <3>1, <3>3
    <3> QED  BY <3>2, <3>3
  <2>5. \A e \in Entities \ cut' : Len(log[e]) <= Len(log'[e])
    BY <1>1, <2>1, <2>2, <2>3
  <2>6. LogGrows'
    BY <2>1, <2>4 DEF LogGrows, IsLog
  <2> QED  BY <2>5, <2>6
<1>7. CASE ProcessFact \/ FailFactWrite \/ ProcessBrief \/ RefuseEdit
  <2> DEFINE q == Head(requests)
  <2>1. /\ q = requests[1] /\ 1 \in DOMAIN requests /\ q.e \in Entities
        /\ \A i \in DOMAIN requests' :
             /\ i \in Nat /\ i + 1 \in DOMAIN requests /\ i + 1 > 1
             /\ requests'[i] = requests[i + 1]
    BY <1>7, BehindFirst
  <2>2. \A i \in DOMAIN requests' : IsLog(i)' <=> IsLog(i + 1)
    BY <2>1 DEF IsLog
  <2>3. \A d \in Entities \ cut' : log'[d] = log[d]
    <3>1. CASE ProcessFact \/ FailFactWrite
      BY <1>1, <3>1, FactEnds DEF Base
    <3>2. CASE ProcessBrief \/ RefuseEdit
      BY <3>2 DEF ProcessBrief, RefuseEdit, Commit
    <3> QED  BY <1>7, <3>1, <3>2
  <2> HIDE DEF q
  <2>4. ASSUME NEW i \in DOMAIN requests', NEW j \in DOMAIN requests',
               IsLog(i)', IsLog(j)', i < j, requests'[i].e = requests'[j].e,
               requests'[i].e \notin cut'
        PROVE  Len(requests'[i].body) <= Len(requests'[j].body)
    <3>1. i + 1 < j + 1
      BY <2>1, <2>4
    <3> QED  BY <1>0, <2>1, <2>2, <2>4, <3>1 DEF LogGrows
  <2>5. ASSUME NEW i \in DOMAIN requests', IsLog(i)', requests'[i].e \notin cut'
        PROVE  /\ Len(log'[requests'[i].e]) <= Len(requests'[i].body)
               /\ Len(requests'[i].body) <= Len(log'[requests'[i].e]) + 1
    <3>1. requests'[i] = requests[i + 1] /\ i + 1 \in DOMAIN requests /\ IsLog(i + 1)
      BY <2>1, <2>2, <2>5
    <3>2. requests[i + 1].e \in Entities /\ requests[i + 1].e \notin cut
      BY <1>0, <1>1, <2>5, <3>1
    <3> QED  BY <2>3, <2>5, <3>1, <3>2 DEF LogGrows
  <2>6. LogGrows'
    BY <2>4, <2>5 DEF LogGrows
  <2> QED  BY <1>1, <2>3, <2>6
<1> QED  BY <1>3, <1>4, <1>5, <1>6, <1>7, LogSteps DEF Worker

\* Everyone who has counted facts, and every brief, is behind the log.
CountInv == LogGrows /\ ReadersBehind /\ CountWithinLog

\* What was behind the log stays behind it.
LEMMA StaysBehind ==
  ASSUME Base, Base', NEW e \in Entities, Len(log[e]) <= Len(log'[e])
  PROVE  /\ \A n \in Nat : n <= Len(log[e]) => n <= Len(log'[e])
         /\ \A P, k : k \in Tasks(P) /\ Behind(k, e) =>
              k.read.count <= Len(log'[e]) /\ Len(k.facts) <= Len(log'[e])
         /\ NoBrief.count <= Len(log'[e]) /\ Len(<<>>) <= Len(log'[e])
<1>1. Len(log[e]) \in Nat /\ Len(log'[e]) \in Nat
  BY DEF Base, TypeOK
<1>2. \A n \in Nat : n <= Len(log[e]) => n <= Len(log'[e])
  BY <1>1
<1>3. ASSUME NEW P, NEW k \in Tasks(P), Behind(k, e)
      PROVE  k.read.count <= Len(log'[e]) /\ Len(k.facts) <= Len(log'[e])
  <2>1. k.read \in Bodies /\ k.facts \in Seq(Recorders)
    BY DEF Tasks
  <2>2. k.read.count \in Nat /\ Len(k.facts) \in Nat
    BY <2>1 DEF Bodies
  <2> QED  BY <1>2, <1>3, <2>2 DEF Behind
<1>4. NoBrief.count = 0 /\ Len(<<>>) = 0
  BY NoBriefType
<1> QED  BY <1>1, <1>2, <1>3, <1>4

LEMMA RegenBehind ==
  ASSUME Base, Base', CountInv, [Next]_vars, NEW e \in Entities \ cut', Len(log[e]) <= Len(log'[e])
  PROVE  Behind(regen[e], e)'
<1> USE DEF files, queue, history
<1>a. regen \in [Entities -> RegenTasks] /\ Len(log[e]) \in Nat
  BY DEF Base, TypeOK
<1>b. Behind(regen[e], e) /\ brief[e].count <= Len(log[e])
  BY WhoChanges DEF CountInv, ReadersBehind, CountWithinLog
<1>1. /\ regen \in [Entities -> RegenTasks] /\ Behind(regen[e], e) /\ brief[e].count <= Len(log[e])
      /\ Len(log[e]) \in Nat
  BY <1>a, <1>b
<1>2. CASE regen'[e] = regen[e]
  <2>1. regen[e] \in Tasks({"idle", "brief", "write", "waiting"})
    BY <1>1 DEF RegenTasks
  <2> QED  BY <1>1, <1>2, <2>1, StaysBehind DEF Behind
<1>3. CASE regen'[e].read = NoBrief /\ regen'[e].facts = <<>>
  BY <1>3, StaysBehind DEF Behind
<1>4. CASE ProcessBrief
  <2> DEFINE q == Head(requests)
  <2>1. regen' = regen \/ regen' = [regen EXCEPT ![q.e] = Idle]
    BY <1>4 DEF ProcessBrief
  <2>2. Idle.read = NoBrief /\ Idle.facts = <<>>
    BY SaveSteps DEF Holds
  <2>3. regen'[e] = regen[e] \/ regen'[e] = Idle
    BY <1>1, <2>1
  <2> QED  BY <1>2, <1>3, <2>2, <2>3
<1>5. ASSUME NEW d \in Entities, RegenListFacts(d)
      PROVE  Behind(regen[e], e)'
  <2>1. /\ regen'[d].read = NoBrief /\ regen'[d].facts \in Prefixes(log[d]) /\ log' = log
        /\ \A c \in Entities \ {d} : regen'[c] = regen[c]
    BY <1>5, RegenSteps DEF RegenListFacts
  <2>2. CASE d = e
    <3>1. Len(regen'[e].facts) <= Len(log[e])
      BY <2>1, <2>2, SeenTypes DEF Base
    <3> QED  BY <1>1, <2>1, <2>2, <3>1, StaysBehind DEF Behind
  <2> QED  BY <1>2, <2>1, <2>2
<1>6. ASSUME NEW d \in Entities, RegenReadBrief(d)
      PROVE  Behind(regen[e], e)'
  <2>1. /\ regen'[d].read = brief[d] /\ regen'[d].facts = regen[d].facts /\ log' = log
        /\ \A c \in Entities \ {d} : regen'[c] = regen[c]
    BY <1>6, RegenSteps DEF RegenReadBrief
  <2>2. CASE d = e
    BY <1>1, <2>1, <2>2 DEF Behind
  <2> QED  BY <1>2, <2>1, <2>2
<1>7. ASSUME NEW d \in Entities, RegenWrite(d) \/ RegenGivesUp(d)
      PROVE  Behind(regen[e], e)'
  <2>1. /\ regen'[d].read = NoBrief /\ regen'[d].facts = <<>>
        /\ \A c \in Entities \ {d} : regen'[c] = regen[c]
    BY <1>7, RegenSteps DEF RegenWrite, RegenGivesUp
  <2> QED  BY <1>2, <1>3, <2>1
<1> QED  BY <1>2, <1>4, <1>5, <1>6, <1>7, WhoChanges DEF Generator

LEMMA WatchBehind ==
  ASSUME Base, Base', CountInv, [Next]_vars, NEW e \in Entities \ cut', Len(log[e]) <= Len(log'[e])
  PROVE  Behind(watch[e], e)'
<1> USE DEF files, queue, history
<1>1. watch \in [Entities -> WatchTasks] /\ Behind(watch[e], e) /\ brief[e].count <= Len(log[e])
  BY WhoChanges DEF Base, TypeOK, CountInv, ReadersBehind, CountWithinLog
<1>2. CASE watch'[e].read = watch[e].read /\ watch'[e].facts = watch[e].facts
  <2>1. watch[e] \in Tasks({"idle", "check", "commit"})
    BY <1>1 DEF WatchTasks
  <2> QED  BY <1>1, <1>2, <2>1, StaysBehind DEF Behind
<1>3. CASE watch'[e].read = NoBrief /\ watch'[e].facts = <<>>
  BY <1>3, StaysBehind DEF Behind
<1>4. ASSUME NEW d \in Entities, WatcherRead(d)
      PROVE  Behind(watch[e], e)'
  <2>1. /\ watch'[d].read = brief[d] /\ watch'[d].facts = <<>> /\ log' = log
        /\ \A c \in Entities \ {d} : watch'[c] = watch[c]
    BY <1>4, WatchSteps DEF WatcherRead
  <2>2. CASE d = e
    BY <1>1, <2>1, <2>2, StaysBehind DEF Behind
  <2> QED  BY <1>2, <2>1, <2>2
<1>5. ASSUME NEW d \in Entities, WatcherCheck(d) \/ WatcherCommit(d)
      PROVE  Behind(watch[e], e)'
  <2>1. /\ \/ watch'[d].read = NoBrief /\ watch'[d].facts = <<>>
           \/ watch'[d].read = watch[d].read /\ watch'[d].facts = watch[d].facts
        /\ \A c \in Entities \ {d} : watch'[c] = watch[c]
    BY <1>5, WatchSteps
  <2> QED  BY <1>2, <1>3, <2>1
<1> QED  BY <1>2, <1>4, <1>5, WhoChanges DEF Watcher

LEMMA SynthBehind ==
  ASSUME Base, Base', CountInv, [Next]_vars,
         \A e \in Entities \ cut' : Len(log[e]) <= Len(log'[e]), synth'.e \in Entities \ cut'
  PROVE  Behind(synth, synth.e)'
<1> USE DEF files, queue, history
<1>1. /\ synth \in SynthTasks
      /\ \A e \in Entities \ cut' : brief[e].count <= Len(log[e]) /\ Len(log[e]) \in Nat
      /\ synth.e \in Entities \ cut' => Behind(synth, synth.e)
  <2>1. cut \subseteq cut'
    BY WhoChanges
  <2>2. synth \in SynthTasks /\ \A e \in Entities : Len(log[e]) \in Nat
    BY DEF Base, TypeOK
  <2>3. /\ \A e \in Entities \ cut : brief[e].count <= Len(log[e])
        /\ synth.e \in Entities \ cut => Behind(synth, synth.e)
    BY DEF CountInv, ReadersBehind, CountWithinLog
  <2> QED  BY <2>1, <2>2, <2>3
<1>2. CASE synth'.e = synth.e /\ synth'.read = synth.read /\ synth'.facts = synth.facts
  <2>1. synth \in Tasks({"idle", "received", "brief", "facts", "llm", "waiting", "finish"})
    BY <1>1 DEF SynthTasks
  <2> QED  BY <1>1, <1>2, <2>1, StaysBehind DEF Behind
<1>3. CASE Receive
  BY <1>3, SynthSteps, StaysBehind DEF Behind, Holds
<1>4. CASE SynthReadBrief
  <2>1. Holds(synth', "facts", synth.e, brief[synth.e], synth.facts) /\ log' = log
    BY <1>4, SynthSteps DEF SynthReadBrief
  <2> QED  BY <1>1, <2>1 DEF Behind, Holds
<1>5. CASE SynthListFacts
  <2>1. /\ log' = log
        /\ \E f \in Prefixes(log[synth.e]) : Holds(synth', synth'.pc, synth.e, synth.read, f)
    BY <1>5, SynthSteps DEF SynthListFacts
  <2>2. /\ synth'.e = synth.e /\ synth'.read = synth.read
        /\ synth'.facts \in Prefixes(log[synth.e])
    BY <2>1 DEF Holds
  <2>3. Len(synth'.facts) <= Len(log[synth.e])
    BY <2>2, SeenTypes DEF Base
  <2> QED  BY <1>1, <2>1, <2>2, <2>3 DEF Behind
<1>6. CASE \E p \in {"brief", "waiting", "finish"} : synth' = [synth EXCEPT !.pc = p]
  BY <1>2, <1>6, SynthSteps DEF Holds
<1>7. CASE FinishRun
  BY <1>7, SaveSteps, NamesDiffer DEF FinishRun, Holds
<1>8. CASE BeginRun \/ SynthWrite \/ SynthGivesUp \/ ProcessBrief
  BY <1>2, <1>6, <1>8 DEF BeginRun, SynthWrite, SynthGivesUp, ProcessBrief
<1> QED  BY <1>2, <1>3, <1>4, <1>5, <1>7, <1>8, WhoChanges

LEMMA SaveBehind ==
  ASSUME Base, Base', CountInv, [Next]_vars,
         \A e \in Entities \ cut' : Len(log[e]) <= Len(log'[e]), save'.e \in Entities \ cut'
  PROVE  Behind(save, save.e)'
<1> USE DEF files, queue, history
<1>1. /\ save \in SaveTasks
      /\ \A e \in Entities \ cut' : brief[e].count <= Len(log[e])
      /\ save.e \in Entities \ cut' => Behind(save, save.e)
      /\ save'.e # NoOne
  BY NamesDiffer, WhoChanges DEF Base, TypeOK, CountInv, ReadersBehind, CountWithinLog
<1>2. CASE save'.e = save.e /\ save'.read = save.read /\ save'.facts = save.facts
  <2>1. save \in Tasks({"idle", "open", "waiting"})
    BY <1>1 DEF SaveTasks
  <2> QED  BY <1>1, <1>2, <2>1, StaysBehind DEF Behind
<1>3. CASE save' = Idle
  BY <1>1, <1>3, SaveSteps DEF Holds
<1>4. ASSUME NEW e \in Entities, OpenEditor(e)
      PROVE  Behind(save, save.e)'
  <2>1. Holds(save', "open", e, brief[e], <<>>) /\ log' = log
    BY <1>4, SaveSteps DEF OpenEditor
  <2> QED  BY <1>1, <2>1, StaysBehind DEF Behind, Holds
<1>5. CASE SaveEdit
  <2>1. save' = Idle \/ save' = [save EXCEPT !.pc = "waiting"]
    BY <1>5 DEF SaveEdit
  <2>2. CASE save' = [save EXCEPT !.pc = "waiting"]
    BY <1>2, <2>2, SaveSteps DEF Holds
  <2> QED  BY <1>3, <2>1, <2>2
<1> QED  BY <1>2, <1>3, <1>4, <1>5, WhoChanges

\* No write in the queue stamps more than the log holds.
LEMMA QueueBehind ==
  ASSUME Base, Base', CountInv, [Next]_vars,
         \A e \in Entities \ cut' : Len(log[e]) <= Len(log'[e]),
         NEW i \in DOMAIN requests', ~IsLog(i)', requests'[i].e \notin cut'
  PROVE  requests'[i].body.count <= Len(log'[requests'[i].e])
<1> USE DEF files, queue, history
<1>1. /\ requests \in Seq(Writes) /\ TypeOK
      /\ \A j \in DOMAIN requests :
           /\ requests[j].e \in Entities
           /\ ~IsLog(j) => requests[j].body.count \in Nat
           /\ ~IsLog(j) /\ requests[j].e \notin cut' =>
                requests[j].body.count <= Len(log[requests[j].e])
  BY WriteLengths, WhoChanges DEF Base, TypeOK, Writes, CountInv, ReadersBehind
<1>2. ASSUME NEW j \in DOMAIN requests, requests'[i].to = requests[j].to,
             requests'[i].e = requests[j].e, requests'[i].body = requests[j].body
      PROVE  requests'[i].body.count <= Len(log'[requests'[i].e])
  <2>1. ~IsLog(j)
    BY <1>2 DEF IsLog
  <2> QED  BY <1>1, <1>2, <2>1, StaysBehind
<1>3. CASE ProcessFact \/ FailFactWrite \/ ProcessBrief \/ RefuseEdit
  BY <1>2, <1>3, BehindFirst
<1>4. ASSUME NEW from, NEW e, GiveUp(from, e)
      PROVE  requests'[i].body.count <= Len(log'[requests'[i].e])
  BY <1>1, <1>2, <1>4, GiveUpLeaves
<1>5. ASSUME NEW r \in Recorders, NEW seen, AppendSends(r, seen)
      PROVE  requests'[i].body.count <= Len(log'[requests'[i].e])
  <2>1. seen \in Seq(Recorders) /\ ~Saturated /\ EnqueueEntityFact(r, seen)
    BY <1>1, <1>5, EntityOfType, SeenTypes DEF AppendSends
  <2> QED  BY <1>2, <2>1, FactWrites DEF IsLog
<1>6. ASSUME NEW e \in Entities, NEW n \in Nat, e \notin cut' => n <= Len(log[e]),
             \A j \in DOMAIN requests : j \in DOMAIN requests' /\ requests'[j] = requests[j],
             \A j \in DOMAIN requests' \ DOMAIN requests :
               requests'[j].e = e /\ requests'[j].body.count = n
      PROVE  requests'[i].body.count <= Len(log'[requests'[i].e])
  <2>1. CASE i \in DOMAIN requests
    BY <1>2, <1>6, <2>1
  <2>2. CASE i \notin DOMAIN requests
    BY <1>6, <2>2, StaysBehind
  <2> QED  BY <2>1, <2>2
<1>7. CASE SynthWrite
  <2>1. CASE UNCHANGED requests
    BY <1>2, <2>1
  <2>2. CASE ~Saturated /\ Request("brief", synth.e, SynthesizedBody, "synth", synth.seen, 0)
    <3>1. /\ SynthesizedBody \in Bodies /\ SynthesizedBody.count = Len(synth.facts)
          /\ synth.seen \in Nat /\ synth.e \in Entities /\ Len(synth.facts) \in Nat
      <4>1. synth.facts \in Seq(Recorders) /\ synth.read \in Bodies /\ synth.e \in Entities
        BY <1>7, SynthSteps DEF SynthWrite
      <4>2. synth.seen \in Nat
        BY <1>1 DEF TypeOK, SynthTasks, Tasks
      <4> QED  BY <4>1, <4>2, SynthesizedBodyType
    <3>2. /\ \A j \in DOMAIN requests : j \in DOMAIN requests' /\ requests'[j] = requests[j]
          /\ \A j \in DOMAIN requests' \ DOMAIN requests :
               requests'[j].e = synth.e /\ requests'[j].body = SynthesizedBody
      BY <2>2, <3>1, BriefWrite
    <3>3. synth.e \notin cut' => Len(synth.facts) <= Len(log[synth.e])
      BY <3>1, WhoChanges DEF CountInv, ReadersBehind, Behind
    <3> QED  BY <1>6, <3>1, <3>2, <3>3
  <2> QED  BY <1>7, <2>1, <2>2 DEF SynthWrite
<1>8. ASSUME NEW e \in Entities, RegenWrite(e)
      PROVE  requests'[i].body.count <= Len(log'[requests'[i].e])
  <2>1. CASE UNCHANGED requests
    BY <1>2, <2>1
  <2>2. CASE ~Saturated /\ Request("brief", e, ArticleBody(e), "regen", regen[e].seen, 0)
    <3>1. /\ ArticleBody(e) \in Bodies /\ ArticleBody(e).count = Len(regen[e].facts)
          /\ regen[e].seen \in Nat /\ Len(regen[e].facts) \in Nat
      <4>1. regen[e].read \in Bodies /\ regen[e].facts \in Seq(Recorders)
        BY RegenSteps
      <4>2. regen[e].seen \in Nat
        BY <1>1 DEF TypeOK, RegenTasks, Tasks
      <4> QED  BY <4>1, <4>2, ArticleBodyType
    <3>2. /\ \A j \in DOMAIN requests : j \in DOMAIN requests' /\ requests'[j] = requests[j]
          /\ \A j \in DOMAIN requests' \ DOMAIN requests :
               requests'[j].e = e /\ requests'[j].body = ArticleBody(e)
      BY <2>2, <3>1, BriefWrite
    <3>3. e \notin cut' => Len(regen[e].facts) <= Len(log[e])
      BY WhoChanges DEF CountInv, ReadersBehind, Behind
    <3> QED  BY <1>6, <3>1, <3>2, <3>3
  <2> QED  BY <1>8, <2>1, <2>2 DEF RegenWrite
<1>9. CASE SaveEdit
  <2>1. CASE UNCHANGED requests
    BY <1>2, <2>1
  <2>2. CASE ~Saturated /\ \E body \in Edited(save.read) :
               Request("edit", save.e, body, "editor", save.seen, save.sha)
    <3>1. PICK body \in Edited(save.read) :
            Request("edit", save.e, body, "editor", save.seen, save.sha)
      BY <2>2
    <3>2. /\ save.read \in Bodies /\ save.seen \in Nat /\ save.sha \in Nat
          /\ spent.inputs \in Nat /\ save.e \in Entities
      BY <1>1, <1>9, SaveSteps, SpentType DEF TypeOK, Base, TasksAgree, SaveEdit
    <3>3. body \in Bodies /\ body.count = save.read.count /\ body.count \in Nat
      BY <3>2, EditedBody DEF Bodies
    <3>4. /\ \A j \in DOMAIN requests : j \in DOMAIN requests' /\ requests'[j] = requests[j]
          /\ \A j \in DOMAIN requests' \ DOMAIN requests :
               requests'[j].e = save.e /\ requests'[j].body = body
      BY <2>2, <3>1, <3>2, <3>3, BriefWrite
    <3>5. save.e \notin cut' => body.count <= Len(log[save.e])
      BY <3>2, <3>3, WhoChanges DEF CountInv, ReadersBehind, Behind
    <3> QED  BY <1>6, <3>2, <3>3, <3>4, <3>5
  <2> QED  BY <1>9, <2>1, <2>2 DEF SaveEdit
<1>10. CASE requests' = requests
  BY <1>2, <1>10
<1> QED  BY <1>3, <1>4, <1>5, <1>7, <1>8, <1>9, <1>10, WhoChanges

\* What is written to a brief stamps no more than its log holds.
LEMMA BriefBehind ==
  ASSUME Base, Base', CountInv, [Next]_vars, NEW e \in Entities \ cut', Len(log[e]) <= Len(log'[e])
  PROVE  brief'[e].count <= Len(log'[e])
<1> USE DEF files, queue, history
<1>1. /\ TypeOK /\ brief \in [Entities -> Bodies] /\ brief[e].count <= Len(log[e])
      /\ brief[e].count \in Nat /\ spent.inputs \in Nat
  BY SpentType, WhoChanges DEF Base, TypeOK, CountInv, CountWithinLog, Bodies
<1>2. CASE brief'[e] = brief[e]
  BY <1>1, <1>2, StaysBehind
<1>3. ASSUME NEW d \in Entities, ObsidianEdit(d)
      PROVE  brief'[e].count <= Len(log'[e])
  <2>1. PICK body \in Edited(brief[d]) : brief' = [brief EXCEPT ![d] = body]
    BY <1>3 DEF ObsidianEdit
  <2>2. body.count = brief[d].count
    BY <1>1, EditedBody
  <2>3. CASE d = e
    BY <1>1, <2>1, <2>2, <2>3, StaysBehind
  <2>4. CASE d # e
    BY <1>1, <1>2, <2>1, <2>4
  <2> QED  BY <2>3, <2>4
<1>4. ASSUME NEW d \in Entities, NEW b \in Bodies, NEW ok \in BOOLEAN, Commit(d, b, ok),
             d \notin cut' => b.count <= Len(log[d])
      PROVE  brief'[e].count <= Len(log'[e])
  <2>1. brief'[d] = b /\ (\A c \in Entities \ {d} : brief'[c] = brief[c]) /\ b.count \in Nat
    BY <1>1, <1>4, CommitWrites DEF Bodies
  <2>2. CASE d = e
    BY <1>4, <2>1, <2>2, StaysBehind
  <2> QED  BY <1>2, <2>1, <2>2
<1>5. ASSUME NEW d \in Entities, WatcherCommit(d)
      PROVE  brief'[e].count <= Len(log'[e])
  <2> DEFINE b == [watch[d].read EXCEPT !.newer = @ \/ watch[d].read.front]
  <2>1. b \in Bodies /\ b.count = watch[d].read.count
    BY WatcherBody
  <2>2. \E ok \in BOOLEAN : Commit(d, b, ok)
    BY <1>5 DEF WatcherCommit
  <2>3. d \notin cut' => watch[d].read.count <= Len(log[d])
    BY WhoChanges DEF CountInv, ReadersBehind, Behind
  <2> HIDE DEF b
  <2> QED  BY <1>4, <2>1, <2>2, <2>3
<1>6. CASE ProcessBrief
  <2> DEFINE q == Head(requests)
  <2>1. /\ q = requests[1] /\ 1 \in DOMAIN requests /\ q.to # "log"
        /\ \E ok \in BOOLEAN : Commit(q.e, q.body, ok)
    BY <1>6, BehindFirst DEF ProcessBrief
  <2> HIDE DEF q
  <2>2. ~IsLog(1)
    BY <2>1 DEF IsLog
  <2>3. q.e \in Entities /\ q.body \in Bodies /\ (q.e \notin cut' => q.body.count <= Len(log[q.e]))
    BY <2>1, <2>2, WriteLengths, WhoChanges DEF CountInv, ReadersBehind
  <2> QED  BY <1>4, <2>1, <2>3
<1> QED  BY <1>2, <1>3, <1>5, <1>6, WhoChanges

LEMMA CountStep ==
  ASSUME Base, Base', CountInv, [Next]_vars
  PROVE  CountInv'
<1>1. LogGrows' /\ \A e \in Entities \ cut' : Len(log[e]) <= Len(log'[e])
  BY LogGrowsStep DEF CountInv
<1>2. \A e \in Entities \ cut' : Behind(regen[e], e)' /\ Behind(watch[e], e)'
  BY <1>1, RegenBehind, WatchBehind
<1>3. /\ synth'.e \in Entities \ cut' => Behind(synth, synth.e)'
      /\ save'.e \in Entities \ cut' => Behind(save, save.e)'
  BY <1>1, SynthBehind, SaveBehind
<1>4. \A i \in DOMAIN requests' : ~IsLog(i)' /\ requests'[i].e \notin cut' =>
        requests'[i].body.count <= Len(log'[requests'[i].e])
  BY <1>1, QueueBehind
<1>5. ReadersBehind'
  BY <1>2, <1>3, <1>4 DEF ReadersBehind
<1>6. CountWithinLog'
  BY <1>1, BriefBehind DEF CountWithinLog
<1> QED  BY <1>1, <1>5, <1>6 DEF CountInv

LEMMA CountInit ==
  ASSUME Init
  PROVE  CountInv
<1>1. Idle.read = NoBrief /\ Idle.facts = <<>> /\ Idle.e = NoOne /\ NoBrief.count = 0
  BY IdleType, NoBriefType
<1>2. NoOne \notin Entities
  BY NamesDiffer
<1>3. \A e \in Entities : log[e] = <<>> /\ brief[e] = NoBrief /\ regen[e] = Idle /\ watch[e] = Idle
  BY DEF Init
<1>4. synth = Idle /\ save = Idle /\ requests = <<>>
  BY DEF Init
<1>5. \A e \in Entities : Behind(regen[e], e) /\ Behind(watch[e], e)
  BY <1>1, <1>3 DEF Behind
<1>6. ReadersBehind
  BY <1>1, <1>2, <1>4, <1>5 DEF ReadersBehind
<1>7. LogGrows
  BY <1>4 DEF LogGrows
<1>8. CountWithinLog
  BY <1>1, <1>3 DEF CountWithinLog
<1> QED  BY <1>6, <1>7, <1>8 DEF CountInv

(***************************************************************************)
(* No brief is stamped with more facts than its log holds, whichever of    *)
(* the two archivists, the watcher and the web editor wrote it and however *)
(* stale what they had read: no write in the queue shortens a log, unless  *)
(* its append had read the log short.  Entities whose log was cut that way *)
(* or by a write that failed half-way are exempt.                          *)
(***************************************************************************)
THEOREM StampsAreBounded == Spec => []CountWithinLog
<1>1. Init => Base /\ CountInv
  BY BaseInit, CountInit
<1>2. Base /\ CountInv /\ [Next]_vars => (Base /\ CountInv)'
  BY BaseStep, CountStep
<1>3. CountInv => CountWithinLog
  BY DEF CountInv
<1> QED  BY <1>1, <1>2, <1>3, PTL DEF Spec

(***************************************************************************)
(* Only a short read or a half-way failed write shortens a log: every      *)
(* append rewrites the whole file from a read made before it was queued,   *)
(* and a write left behind by a caller that timed out may still erase an   *)
(* unconfirmed fact by putting its own in that place, but as long as no    *)
(* append has read the file short and no write of it has failed half-way,  *)
(* the file never gets shorter.  Counts of facts, and with them the        *)
(* synthesizer's threshold, then only move forward.                        *)
(***************************************************************************)
THEOREM OnlyCutsShrinkLogs ==
  Spec => [][\A e \in Entities : e \in cut' \/ Len(log[e]) <= Len(log'[e])]_vars
<1>1. Init => Base /\ CountInv
  BY BaseInit, CountInit
<1>2. Base /\ CountInv /\ [Next]_vars => (Base /\ CountInv)'
  BY BaseStep, CountStep
<1>3. CountInv => LogGrows
  BY DEF CountInv
<1>4. Base /\ LogGrows /\ [Next]_vars
        => [\A e \in Entities : e \in cut' \/ Len(log[e]) <= Len(log'[e])]_vars
  BY LogGrowsStep
<1> QED  BY <1>1, <1>2, <1>3, <1>4, PTL DEF Spec

-----------------------------------------------------------------------------
(* Briefs at rest. *)

\* What stands for the facts beyond the brief's stamp: a handler that has still
\* to compare, with a stamp no younger than the brief's; a mark or a follow-up
\* goroutine; or the run under way, before it has listed the facts or with
\* facts enough; or the write of its log under way, which ends with a handler that
\* has still to compare, or with an excuse.
Current(e) == NewCount(Len(log[e]), brief[e].count) < Threshold
Compares(e) ==
  \E r \in Recorders :
    /\ EntityOf[r] = e
    /\ \/ post[r].pc \in {"brief", "trigger"}
       \/ post[r].pc = "list" /\ post[r].prior <= brief[e].count
Marked(e) == e \in queued \/ followups[e] > 0
Runs(e) ==
  /\ synth.e = e
  /\ \/ synth.pc = "brief"
     \/ synth.pc = "facts" /\ synth.read.count <= brief[e].count
     \/ /\ synth.pc \in {"llm", "waiting"}
        /\ NewCount(Len(log[e]), Len(synth.facts)) < Threshold
Filling(e) == filling /\ Head(requests).e = e
Covered(e) == Current(e) \/ Compares(e) \/ Marked(e) \/ Runs(e) \/ Filling(e)

\* The write the synthesizer waits for stamps the facts it has listed.
StampMatches ==
  \A i \in DOMAIN requests :
    requests[i].from = "synth" => /\ requests[i].to # "log"
                                  /\ requests[i].body.count = Len(synth.facts)

RestInv == StampMatches /\ \A e \in Entities \ excused : Covered(e)

\* What a step leaves alone or lets grow of an entity.
Keeps(e) == log'[e] = log[e] /\ brief[e].count <= brief'[e].count

\* A younger stamp leaves fewer facts new, and a stamp on all of them none.
LEMMA NewCountFalls ==
  ASSUME NEW t \in Nat, NEW a \in Nat
  PROVE  /\ \A b \in Nat : a <= b /\ NewCount(t, a) < Threshold => NewCount(t, b) < Threshold
         /\ t <= a => NewCount(t, a) < Threshold
         /\ NewCount(t, a) = 0 => t <= a
<1>1. Threshold \in Nat \ {0}
  BY BoundsAreNat
<1> QED  BY <1>1 DEF NewCount

\* The numbers these comparisons are about.
LEMMA RestNumbers ==
  ASSUME Base, NEW e \in Entities
  PROVE  /\ Len(log[e]) \in Nat /\ brief[e].count \in Nat
         /\ synth.read.count \in Nat /\ Len(synth.facts) \in Nat
         /\ \A r \in Recorders : post[r].prior \in Nat
<1>1. log[e] \in Seq(Recorders) /\ brief[e] \in Bodies /\ post \in [Recorders -> Posts]
  BY DEF Base, TypeOK
<1>2. synth.read \in Bodies /\ synth.facts \in Seq(Recorders)
  BY SynthSteps
<1> QED  BY <1>1, <1>2 DEF Bodies, Posts

\* What covers an entity goes on covering it while it is left alone.
LEMMA RestFrame ==
  ASSUME Base, Base', NEW e \in Entities, Keeps(e)
  PROVE  /\ Current(e) => Current(e)'
         /\ (\A r \in Recorders : EntityOf[r] = e => post'[r] = post[r])
              => (Compares(e) => Compares(e)')
         /\ synth' = synth => (Runs(e) => Runs(e)')
         /\ queued \subseteq queued' /\ followups' = followups => (Marked(e) => Marked(e)')
<1> DEFINE c == brief[e].count
           d == brief'[e].count
           n == Len(log[e])
<1>1. /\ c \in Nat /\ n \in Nat
      /\ synth.read.count \in Nat /\ \A r \in Recorders : post[r].prior \in Nat
  BY RestNumbers
<1>2. d \in Nat
  BY DEF Base, TypeOK, Bodies
<1>3. c <= d /\ log'[e] = log[e]
  BY DEF Keeps
<1>4. Current(e) => Current(e)'
  <2>1. NewCount(n, c) < Threshold => NewCount(n, d) < Threshold
    BY <1>1, <1>2, <1>3, NewCountFalls
  <2> QED  BY <1>3, <2>1 DEF Current
<1> HIDE DEF c, d, n
<1>5. ASSUME \A r \in Recorders : EntityOf[r] = e => post'[r] = post[r], Compares(e)
      PROVE  Compares(e)'
  <2>1. PICK r \in Recorders :
          /\ EntityOf[r] = e
          /\ \/ post[r].pc \in {"brief", "trigger"}
             \/ post[r].pc = "list" /\ post[r].prior <= c
    BY <1>5 DEF Compares, c
  <2>2. post'[r] = post[r] /\ (post[r].prior <= c => post[r].prior <= d)
    BY <1>1, <1>2, <1>3, <1>5, <2>1
  <2> QED  BY <2>1, <2>2 DEF Compares, d
<1>6. ASSUME synth' = synth, Runs(e)
      PROVE  Runs(e)'
  <2>1. synth.read.count <= c => synth.read.count <= d
    BY <1>1, <1>2, <1>3
  <2> QED  BY <1>3, <1>6, <2>1 DEF Runs, c, d
<1>7. queued \subseteq queued' /\ followups' = followups => (Marked(e) => Marked(e)')
  BY DEF Marked
<1> QED  BY <1>4, <1>5, <1>6, <1>7

\* Only its end ends a write of a log.
LEMMA FillingStays ==
  ASSUME Base, Base', Fills, [Next]_vars, filling' = filling, NEW e \in Entities, Filling(e)
  PROVE  Filling(e)'
<1>1. /\ filling /\ requests[1].e = e /\ 1 \in DOMAIN requests /\ requests[1].to = "log"
      /\ requests \in Seq(Writes) /\ Head(requests) = requests[1]
  BY DEF Fills, Filling, IsLog, Base, TypeOK, Writes
<1>2. ASSUME 1 \in DOMAIN requests', requests'[1].e = e
      PROVE  Filling(e)'
  <2>1. requests' \in Seq(Writes)
    BY DEF Base, TypeOK, Writes
  <2> QED  BY <1>1, <1>2, <2>1 DEF Filling
<1>3. CASE QuietLog
  BY <1>1, <1>2, <1>3 DEF QuietLog, SameWrite
<1>4. ASSUME NEW r \in Recorders, NEW seen, AppendSends(r, seen)
      PROVE  Filling(e)'
  <2>1. seen \in Seq(Recorders)
    BY <1>4, SeenTypes, EntityOfType DEF AppendSends, Base
  <2> QED  BY <1>1, <1>2, <1>4, <2>1, FactWrites DEF AppendSends
<1>5. ASSUME NEW r \in Recorders, AppendGivesUp(r)
      PROVE  Filling(e)'
  BY <1>1, <1>2, <1>5, GiveUpLeaves DEF AppendGivesUp
<1>6. ~Worker
  BY <1>1 DEF Worker, StartFactWrite, ProcessFact, FailFactWrite, FactReply, ProcessBrief,
              RefuseEdit
<1> QED  BY <1>3, <1>4, <1>5, <1>6, LogSteps

\* A synthesis request covers its entity or finds the channel full.
LEMMA RestEnqueue ==
  ASSUME NEW d \in Entities, NEW lost, EnqueueSynthesis(d, lost)
  PROVE  /\ queued \subseteq queued' /\ excused \subseteq excused'
         /\ d \in queued' \/ d \in excused'
  BY DEF EnqueueSynthesis

\* The write the synthesizer waits for keeps its stamp.
LEMMA StampStep ==
  ASSUME Base, StampMatches, [Next]_vars
  PROVE  StampMatches'
<1> USE DEF files, queue, history
<1>1. /\ requests \in Seq(Writes) /\ TypeOK /\ synth.facts \in Seq(Recorders)
      /\ synth.pc # "idle" => synth.e \in Entities
      /\ "synth" \notin Recorders /\ NoOne # "synth"
      /\ \A i \in DOMAIN requests :
           requests[i].from = "synth" => /\ synth.pc = "waiting" /\ requests[i].to # "log"
                                         /\ requests[i].body.count = Len(synth.facts)
  BY SynthSteps, NamesDiffer DEF Base, TypeOK, Writes, SynthReply, StampMatches
<1>2. CASE synth'.facts = synth.facts
           /\ \A i \in DOMAIN requests' : requests'[i].from = "synth" =>
                \E j \in DOMAIN requests :
                  /\ requests[j].from = "synth" /\ requests'[i].to = requests[j].to
                  /\ requests'[i].body = requests[j].body
  BY <1>1, <1>2 DEF StampMatches
<1>3. CASE synth.pc # "waiting" /\ requests' = requests
  BY <1>1, <1>3 DEF StampMatches
<1>4. CASE Worker
  <2>1. synth'.facts = synth.facts
    <3>1. synth' = synth \/ synth' = [synth EXCEPT !.pc = "finish"]
      BY <1>4 DEF Worker, StartFactWrite, ProcessFact, FailFactWrite, FactReply, ProcessBrief,
                  RefuseEdit
    <3>2. CASE synth' = [synth EXCEPT !.pc = "finish"]
      BY <3>2, SynthSteps DEF Holds
    <3> QED  BY <3>1, <3>2
  <2>2. CASE StartFactWrite
    BY <1>2, <2>1, <2>2 DEF StartFactWrite
  <2>3. CASE ProcessFact \/ FailFactWrite \/ ProcessBrief \/ RefuseEdit
    <3>1. \A i \in DOMAIN requests' :
            i + 1 \in DOMAIN requests /\ requests'[i] = requests[i + 1]
      BY <2>3, BehindFirst
    <3> QED  BY <1>2, <2>1, <3>1
  <2> QED  BY <1>4, <2>2, <2>3 DEF Worker
<1>5. ASSUME NEW from, NEW e, GiveUp(from, e), synth'.facts = synth.facts
      PROVE  StampMatches'
  <2>1. \A i \in DOMAIN requests' :
          /\ i \in DOMAIN requests /\ requests'[i].to = requests[i].to
          /\ requests'[i].body = requests[i].body
          /\ requests'[i].from \in {requests[i].from, NoOne}
    BY <1>1, <1>5, GiveUpLeaves
  <2> QED  BY <1>1, <1>2, <1>5, <2>1
<1>6. CASE SynthWrite
  <2>1. CASE requests' = requests
    BY <1>3, <1>6, <2>1 DEF SynthWrite
  <2>2. CASE requests' # requests
    <3>1. /\ ~Saturated /\ synth' = [synth EXCEPT !.pc = "waiting"]
          /\ Request("brief", synth.e, SynthesizedBody, "synth", synth.seen, 0)
      BY <1>6, <2>2 DEF SynthWrite
    <3>2. SynthesizedBody \in Bodies /\ SynthesizedBody.count = Len(synth.facts)
      BY <1>1, SynthSteps, SynthesizedBodyType
    <3>3. synth.e \in Entities /\ synth.seen \in Nat
      BY <1>1, <1>6 DEF SynthWrite, TypeOK, SynthTasks, Tasks
    <3>4. /\ \A i \in DOMAIN requests : i \in DOMAIN requests' /\ requests'[i] = requests[i]
          /\ \A i \in DOMAIN requests' \ DOMAIN requests :
               requests'[i].to = "brief" /\ requests'[i].body = SynthesizedBody
      BY <3>1, <3>2, <3>3, BriefWrite
    <3>5. synth'.facts = synth.facts
      BY <3>1, SynthSteps DEF Holds
    <3> QED  BY <1>1, <3>2, <3>4, <3>5 DEF StampMatches
  <2> QED  BY <2>1, <2>2
<1>7. CASE Receive \/ BeginRun \/ SynthReadBrief \/ SynthListFacts \/ FinishRun
  BY <1>3, <1>7 DEF Receive, BeginRun, SynthReadBrief, SynthListFacts, FinishRun
<1>8. CASE SynthGivesUp
  <2>1. GiveUp("synth", synth.e) /\ synth'.facts = synth.facts
    BY <1>8, SynthSteps DEF SynthGivesUp, Holds
  <2> QED  BY <1>5, <2>1
<1>9. ASSUME NEW r \in Recorders, PostFact(r) \/ Handler(r) \/ AppendGivesUp(r)
      PROVE  StampMatches'
  <2>1. synth' = synth
    BY <1>9 DEF PostFact, Handler, AppendFact, AppendGivesUp, ReadPriorCount,
                CheckThreshold, TriggerSynthesis
  <2>2. CASE requests' = requests
    BY <1>2, <2>1, <2>2
  <2>3. CASE AppendGivesUp(r)
    BY <1>5, <2>1, <2>3 DEF AppendGivesUp
  <2>4. ASSUME NEW seen, AppendSends(r, seen)
        PROVE  StampMatches'
    <3>1. seen \in Seq(Recorders)
      BY <2>4, SeenTypes, EntityOfType DEF AppendSends, Base
    <3>2. /\ \A i \in DOMAIN requests : requests'[i] = requests[i]
          /\ \A i \in DOMAIN requests' \ DOMAIN requests : requests'[i].from = r
      BY <2>4, <3>1, FactWrites DEF AppendSends
    <3> QED  BY <1>1, <1>2, <2>1, <3>2
  <2>5. CASE AppendFact(r)
    <3>1. AppendQuiet(r) \/ (\E seen : AppendSends(r, seen))
      BY <1>1, <2>5, AppendCases DEF TypeOK
    <3> QED  BY <2>2, <2>4, <3>1 DEF AppendQuiet
  <2> QED  BY <1>9, <2>2, <2>3, <2>5 DEF PostFact, Handler, ReadPriorCount,
                                          CheckThreshold, TriggerSynthesis
<1>10. ASSUME NEW to \in {"brief", "edit"}, NEW e \in Entities, NEW body \in Bodies,
              NEW from \in {"regen", "editor"}, NEW seen \in Nat, NEW sha \in Nat,
              ~Saturated, Request(to, e, body, from, seen, sha), synth' = synth
       PROVE  StampMatches'
  <2>1. /\ \A i \in DOMAIN requests : requests'[i] = requests[i]
        /\ \A i \in DOMAIN requests' \ DOMAIN requests : requests'[i].from = from
    BY <1>10, BriefWrite
  <2> QED  BY <1>1, <1>2, <1>10, <2>1
<1>11. ASSUME NEW e \in Entities,
              \/ AskSynthesis(e) \/ FollowUp(e)
              \/ RegenListFacts(e) \/ Generator(e) \/ RegenGivesUp(e)
              \/ ObsidianEdit(e) \/ Watcher(e) \/ OpenEditor(e)
       PROVE  StampMatches'
  <2>1. synth' = synth
    BY <1>11 DEF AskSynthesis, FollowUp, RegenListFacts, Generator, RegenReadBrief, RegenWrite,
                 RegenGivesUp, ObsidianEdit, Watcher, WatcherRead, WatcherCheck,
                 WatcherCommit, OpenEditor
  <2>2. CASE requests' = requests
    BY <1>2, <2>1, <2>2
  <2>3. CASE RegenGivesUp(e)
    BY <1>5, <2>1, <2>3 DEF RegenGivesUp
  <2>4. CASE RegenWrite(e) /\ requests' # requests
    <3>1. ~Saturated /\ Request("brief", e, ArticleBody(e), "regen", regen[e].seen, 0)
      BY <2>4 DEF RegenWrite
    <3>2. ArticleBody(e) \in Bodies
      BY RegenSteps, ArticleBodyType
    <3>3. regen[e].seen \in Nat
      BY <1>1 DEF TypeOK, RegenTasks, Tasks
    <3> QED  BY <1>10, <2>1, <3>1, <3>2, <3>3
  <2> QED  BY <1>11, <2>2, <2>3, <2>4 DEF AskSynthesis, FollowUp, RegenListFacts, Generator,
                 RegenReadBrief, ObsidianEdit, Watcher, WatcherRead, WatcherCheck,
                 WatcherCommit, OpenEditor
<1>12. CASE SaveEdit
  <2>1. synth' = synth
    BY <1>12 DEF SaveEdit
  <2>2. CASE requests' # requests
    <3>1. PICK body \in Edited(save.read) :
            ~Saturated /\ Request("edit", save.e, body, "editor", save.seen, save.sha)
      BY <1>12, <2>2 DEF SaveEdit
    <3>2. /\ save.e \in Entities /\ save.read \in Bodies
          /\ save.seen \in Nat /\ save.sha \in Nat /\ spent.inputs \in Nat
      BY <1>1, <1>12, SpentType DEF SaveEdit, Base, TasksAgree, TypeOK, SaveTasks, Tasks
    <3>3. body \in Bodies
      BY <3>1, <3>2, EditedBody
    <3> QED  BY <1>10, <2>1, <3>1, <3>2, <3>3
  <2> QED  BY <1>2, <2>1, <2>2
<1>13. CASE SaveGivesUp
  BY <1>5, <1>13 DEF SaveGivesUp
<1>14. CASE UNCHANGED vars
  BY <1>2, <1>14 DEF vars
<1> QED  BY <1>4, <1>6, <1>7, <1>8, <1>9, <1>11, <1>12, <1>13, <1>14 DEF Next, Synthesizer

\* The handlers of POST /entity/fact.
LEMMA RestHandler ==
  ASSUME Base, Base', Fills, [Next]_vars, NEW e \in Entities \ excused, e \notin excused',
         Covered(e), NEW r \in Recorders, PostFact(r) \/ Handler(r) \/ AppendGivesUp(r)
  PROVE  Covered(e)'
<1> USE DEF files, queue, history
<1>1. /\ post \in [Recorders -> Posts] /\ EntityOf[r] \in Entities
      /\ brief[e].count \in Nat /\ Len(log[e]) \in Nat /\ post[r].prior \in Nat
  BY RestNumbers, EntityOfType DEF Base, TypeOK
<1>2. UNCHANGED <<log, filling, brief, synth, followups>> /\ queued \subseteq queued'
  BY <1>1, RestEnqueue DEF PostFact, Handler, AppendFact, AppendGivesUp, ReadPriorCount,
                CheckThreshold, TriggerSynthesis
<1>3. Keeps(e)
  BY <1>1, <1>2 DEF Keeps
<1>4. /\ Current(e) => Current(e)'
      /\ Runs(e) => Runs(e)'
      /\ Marked(e) => Marked(e)'
      /\ (\A s \in Recorders : EntityOf[s] = e => post'[s] = post[s])
           => (Compares(e) => Compares(e)')
      /\ Filling(e) => Filling(e)'
  BY <1>2, <1>3, RestFrame, FillingStays
<1>5. CASE EntityOf[r] # e /\ \A s \in Recorders \ {r} : post'[s] = post[s]
  BY <1>4, <1>5 DEF Covered
<1>6. CASE /\ post[r].pc \notin {"brief", "list", "trigger"}
           /\ \A s \in Recorders \ {r} : post'[s] = post[s]
  <2>1. Compares(e) => Compares(e)'
    BY <1>2, <1>6 DEF Compares
  <2> QED  BY <1>4, <2>1 DEF Covered
<1>7. CASE PostFact(r)
  BY <1>1, <1>6, <1>7 DEF PostFact
<1>8. ASSUME NEW p \in {"idle", "lock", "waiting", "brief", "list", "trigger", "done"},
             post' = Moved(r, p)
      PROVE  post'[r].pc = p /\ \A s \in Recorders \ {r} : post'[s] = post[s]
  BY <1>1, <1>8, PostMoves
<1>9. CASE AppendFact(r) \/ AppendGivesUp(r)
  <2>1. \E p \in {"brief", "idle", "waiting"} : post' = Moved(r, p)
    <3>1. CASE AppendFact(r)
      <4>1. AppendQuiet(r) \/ (\E seen : AppendSends(r, seen))
        BY <3>1, AppendCases DEF Base, TypeOK
      <4> QED  BY <4>1 DEF AppendQuiet, AppendSends, EnqueueEntityFact, Moved
    <3>2. CASE AppendGivesUp(r)
      BY <3>2 DEF AppendGivesUp, Moved
    <3> QED  BY <1>9, <3>1, <3>2
  <2>2. post[r].pc \notin {"brief", "list", "trigger"}
    BY <1>9 DEF AppendFact, AppendGivesUp
  <2> QED  BY <1>6, <1>8, <2>1, <2>2
<1>10. CASE ReadPriorCount(r)
  <2> DEFINE n == brief[EntityOf[r]].count
  <2>1. n \in Nat /\ post' = MovedOn(r, "list", n)
    BY <1>1, <1>10, RestNumbers DEF ReadPriorCount, MovedOn
  <2> HIDE DEF n
  <2>2. /\ post'[r].pc = "list" /\ post'[r].prior = n
        /\ \A s \in Recorders \ {r} : post'[s] = post[s]
    BY <1>1, <2>1, PostMoves
  <2>3. CASE EntityOf[r] = e
    <3>1. post'[r].prior <= brief'[e].count
      BY <1>1, <1>2, <2>2, <2>3 DEF n
    <3> QED  BY <2>2, <2>3, <3>1 DEF Covered, Compares
  <2> QED  BY <1>5, <2>2, <2>3
<1>11. CASE CheckThreshold(r)
  <2>1. PICK lines \in Prefixes(log[EntityOf[r]]) :
          /\ lines \in Seen(EntityOf[r]) \/ EntityOf[r] \in excused'
          /\ post' = Moved(r, IF ThresholdCrossed(r, Len(lines)) THEN "trigger" ELSE "done")
    BY <1>11 DEF CheckThreshold, Moved
  <2> DEFINE p == IF ThresholdCrossed(r, Len(lines)) THEN "trigger" ELSE "done"
  <2>2. post' = Moved(r, p) /\ p \in {"trigger", "done"} /\ post[r].pc = "list"
    BY <1>11, <2>1 DEF CheckThreshold
  <2> HIDE DEF p
  <2>3. post'[r].pc = p /\ \A s \in Recorders \ {r} : post'[s] = post[s]
    BY <1>8, <2>2
  <2>4. CASE EntityOf[r] = e /\ ThresholdCrossed(r, Len(lines))
    BY <2>3, <2>4 DEF Covered, Compares, p
  <2>5. CASE EntityOf[r] = e /\ ~ThresholdCrossed(r, Len(lines)) /\ ~Filling(e)
    <3>1. lines = log[e]
      BY <2>1, <2>5 DEF Seen, Filling
    <3>2. NewCount(Len(log[e]), post[r].prior) < Threshold
      BY <1>1, <2>5, <3>1, BoundsAreNat DEF ThresholdCrossed, NewCount
    <3>3. post[r].prior <= brief[e].count => Current(e)
      BY <1>1, <3>2, NewCountFalls DEF Current
    <3>4. Compares(e) => Compares(e)' \/ Current(e)
      BY <1>2, <2>2, <2>3, <3>3 DEF Compares
    <3> QED  BY <1>4, <3>4 DEF Covered
  <2> QED  BY <1>4, <1>5, <2>3, <2>4, <2>5 DEF Covered
<1>12. CASE TriggerSynthesis(r)
  <2>1. post' = Moved(r, "done") /\ EnqueueSynthesis(EntityOf[r], {})
    BY <1>12 DEF TriggerSynthesis, Moved
  <2>2. \A s \in Recorders \ {r} : post'[s] = post[s]
    BY <1>8, <2>1
  <2>3. CASE EntityOf[r] = e
    BY <1>1, <2>1, <2>3, RestEnqueue DEF Covered, Marked
  <2> QED  BY <1>5, <2>2, <2>3
<1> QED  BY <1>7, <1>9, <1>10, <1>11, <1>12 DEF Handler

\* The synthesis worker and its follow-ups.
LEMMA RestSynthesizer ==
  ASSUME Base, Base', Fills, [Next]_vars, NEW e \in Entities, e \notin excused',
         Covered(e) \/ e \in excused, Synthesizer \/ SynthGivesUp
  PROVE  Covered(e)'
<1> USE DEF files, queue, history
<1>1. /\ brief[e].count \in Nat /\ Len(log[e]) \in Nat /\ synth.read.count \in Nat
      /\ Len(synth.facts) \in Nat /\ followups \in [Entities -> Nat]
      /\ synth.pc # "idle" => synth.e \in Entities
      /\ synth.pc = "idle" => synth.e # e
      /\ log[e] \in Seq(Recorders)
  BY RestNumbers, SynthSteps, NamesDiffer DEF Base, TypeOK, TasksAgree
<1>2. UNCHANGED <<log, filling, brief, post>>
  BY DEF Synthesizer, Receive, BeginRun, SynthReadBrief, SynthListFacts, SynthWrite,
         FinishRun, FollowUp, SynthGivesUp
<1>3. Keeps(e)
  BY <1>1, <1>2 DEF Keeps
<1>4. /\ Current(e) => Current(e)'
      /\ Compares(e) => Compares(e)'
      /\ queued \subseteq queued' /\ followups' = followups => (Marked(e) => Marked(e)')
      /\ synth' = synth => (Runs(e) => Runs(e)')
      /\ Filling(e) => Filling(e)'
  BY <1>2, <1>3, RestFrame, FillingStays
<1>5. CASE Receive
  <2>1. e \notin excused /\ queued' = queued /\ followups' = followups /\ ~Runs(e)
    BY <1>1, <1>5 DEF Receive, Runs
  <2> QED  BY <1>4, <2>1 DEF Covered
<1>6. CASE BeginRun
  <2>1. synth'.pc = "brief" /\ synth'.e = synth.e
    BY <1>6, SynthSteps DEF BeginRun, Holds
  <2>2. CASE synth.e = e
    BY <2>1, <2>2 DEF Covered, Runs
  <2>3. CASE synth.e # e
    <3>1. e \notin excused /\ (e \in queued => e \in queued') /\ followups' = followups
      BY <1>6, <2>3 DEF BeginRun
    <3>2. (Marked(e) => Marked(e)') /\ ~Runs(e)
      BY <2>3, <3>1 DEF Marked, Runs
    <3> QED  BY <1>4, <3>1, <3>2 DEF Covered
  <2> QED  BY <2>2, <2>3
<1>7. CASE SynthReadBrief
  <2>1. /\ e \notin excused /\ queued' = queued /\ followups' = followups
        /\ synth.pc = "brief"
    BY <1>7 DEF SynthReadBrief
  <2>2. Holds(synth', "facts", synth.e, brief[synth.e], synth.facts)
    BY <1>7, SynthSteps
  <2>3. CASE synth.e = e
    <3>1. synth'.read.count <= brief'[e].count
      BY <1>1, <1>2, <2>2, <2>3 DEF Holds
    <3> QED  BY <2>2, <2>3, <3>1 DEF Covered, Runs, Holds
  <2>4. CASE synth.e # e
    BY <1>4, <2>1, <2>4 DEF Covered, Runs
  <2> QED  BY <2>3, <2>4
<1>8. CASE SynthListFacts
  <2>1. /\ e \notin excused /\ queued' = queued /\ followups' = followups
        /\ synth.pc = "facts"
        /\ synth.e \in excused' \/ (\E lines \in Seen(synth.e) : synth' = Listed(lines))
    BY <1>8 DEF SynthListFacts
  <2>2. CASE synth.e # e
    BY <1>4, <2>1, <2>2 DEF Covered, Runs
  <2>3. CASE Filling(e)
    BY <1>4, <2>3 DEF Covered
  <2>4. CASE synth.e = e /\ ~Filling(e)
    <3> DEFINE P == {"idle", "received", "brief", "facts", "llm", "waiting", "finish"}
               p == IF IF synth.read.had
                       THEN NewCount(Len(log[e]), synth.read.count) = 0
                       ELSE log[e] = <<>>
                    THEN "finish" ELSE "llm"
    <3>1. synth' = Listed(log[e])
      BY <2>1, <2>4 DEF Seen, Filling
    <3>2. Listed(log[e]) = Lists(synth, p, log[e])
      BY DEF Listed, Lists
    <3>3. p \in {"llm", "finish"} /\ p \in P
      OBVIOUS
    <3> HIDE DEF p
    <3>4. synth \in Tasks(P)
      BY DEF Base, TypeOK, SynthTasks
    <3> HIDE DEF P
    <3>5. synth'.pc = p /\ synth'.e = e /\ synth'.facts = log[e]
      BY <1>1, <2>4, <3>1, <3>2, <3>3, <3>4, TaskLists
    <3>6. CASE p = "llm"
      <4>1. NewCount(Len(log[e]), Len(log[e])) < Threshold
        BY <1>1, NewCountFalls
      <4> QED  BY <1>2, <3>5, <3>6, <4>1 DEF Covered, Runs
    <3>7. CASE p = "finish"
      <4>1. NewCount(Len(log[e]), synth.read.count) = 0 \/ log[e] = <<>>
        BY <3>7 DEF p
      <4>2. Len(log[e]) <= synth.read.count \/ Len(log[e]) = 0
        BY <1>1, <4>1, NewCountFalls
      <4>3. synth.read.count <= brief[e].count => Len(log[e]) <= brief[e].count
        BY <1>1, <4>2
      <4>4. synth.read.count <= brief[e].count => Current(e)
        BY <1>1, <4>3, NewCountFalls DEF Current
      <4>5. Runs(e) => Current(e)
        BY <2>1, <4>4 DEF Runs
      <4> QED  BY <1>4, <2>1, <4>5 DEF Covered
    <3> QED  BY <3>3, <3>6, <3>7
  <2> QED  BY <2>2, <2>3, <2>4
<1>9. CASE SynthWrite \/ SynthGivesUp
  <2>1. /\ queued' = queued /\ followups' = followups /\ excused \subseteq excused'
        /\ synth.pc \in {"llm", "waiting"}
        /\ synth.e \in excused' \/ synth' = [synth EXCEPT !.pc = "waiting"]
    BY <1>9 DEF SynthWrite, SynthGivesUp
  <2>2. CASE synth.e = e
    <3>1. Holds(synth', "waiting", synth.e, synth.read, synth.facts)
      BY <2>1, <2>2, SynthSteps
    <3>2. Runs(e) => Runs(e)'
      BY <1>2, <2>1, <3>1 DEF Runs, Holds
    <3> QED  BY <1>4, <2>1, <3>2 DEF Covered
  <2>3. CASE synth.e # e
    BY <1>4, <2>1, <2>3 DEF Covered, Runs
  <2> QED  BY <2>2, <2>3
<1>10. CASE FinishRun
  <2>1. /\ e \notin excused /\ synth.pc = "finish" /\ queued' = queued \ {synth.e}
        /\ followups' = IF synth.e \in queued
                        THEN [followups EXCEPT ![synth.e] = @ + 1] ELSE followups
        /\ synth.e \in Entities
    BY <1>1, <1>10 DEF FinishRun, NeedsFollowUp
  <2>2. /\ followups'[e] >= followups[e] /\ followups[e] \in Nat
        /\ followups'[e] \in Nat
        /\ synth.e = e /\ e \in queued => followups'[e] > 0
    BY <1>1, <2>1
  <2>3. Marked(e) => Marked(e)'
    BY <2>1, <2>2 DEF Marked
  <2> QED  BY <1>4, <2>1, <2>3 DEF Covered, Runs
<1>11. ASSUME NEW d \in Entities, FollowUp(d)
       PROVE  Covered(e)'
  <2>1. /\ queued \subseteq queued' /\ excused \subseteq excused'
        /\ d \in queued' \/ d \in excused'
        /\ synth' = synth /\ \A c \in Entities \ {d} : followups'[c] = followups[c]
    BY <1>1, <1>11, RestEnqueue DEF FollowUp
  <2>2. CASE d = e
    BY <2>1, <2>2 DEF Covered, Marked
  <2>3. CASE d # e
    <3>1. Marked(e) => Marked(e)'
      BY <2>1, <2>3 DEF Marked
    <3> QED  BY <1>4, <2>1, <3>1 DEF Covered
  <2> QED  BY <2>2, <2>3
<1> QED  BY <1>5, <1>6, <1>7, <1>8, <1>9, <1>10, <1>11 DEF Synthesizer

\* The wiki worker: a fact it confirms has its handler, a brief it writes is
\* stamped at least as high.
LEMMA RestWorker ==
  ASSUME Base, Base', LogReply, Fills, StampMatches, NEW e \in Entities, e \notin excused',
         Covered(e) \/ e \in excused, Worker
  PROVE  Covered(e)'
<1> USE DEF files, queue, history
<1> DEFINE q == Head(requests)
<1>1. /\ q = requests[1] /\ 1 \in DOMAIN requests /\ q.e \in Entities
      /\ q.to = "log" => q.from \in Recorders \union {NoOne}
  BY BehindFirst, FactStarts DEF Worker, StartFactWrite, Writes, LogWrites, BriefWrites
<1>2. /\ brief[e].count \in Nat /\ Len(log[e]) \in Nat /\ post \in [Recorders -> Posts]
      /\ log \in [Entities -> Seq(Recorders)] /\ NoOne \notin Recorders
  BY RestNumbers, NamesDiffer DEF Base, TypeOK
<1>3. excused \subseteq excused' /\ queued' = queued /\ followups' = followups
  BY DEF Worker, StartFactWrite, ProcessFact, FailFactWrite, FactReply, ProcessBrief,
         RefuseEdit
<1>4. Keeps(e) =>
        /\ Current(e) => Current(e)'
        /\ (\A r \in Recorders : EntityOf[r] = e => post'[r] = post[r])
             => (Compares(e) => Compares(e)')
        /\ synth' = synth => (Runs(e) => Runs(e)')
        /\ Marked(e) => Marked(e)'
  BY <1>3, RestFrame
<1>5. CASE RefuseEdit
  <2>1. UNCHANGED <<post, synth, log, brief>>
    BY <1>5 DEF RefuseEdit
  <2>2. Keeps(e)
    BY <1>2, <2>1 DEF Keeps
  <2>3. ~filling
    BY <1>1, <1>5 DEF RefuseEdit, Fills, IsLog
  <2> QED  BY <1>3, <1>4, <2>1, <2>2, <2>3 DEF Covered, Filling
<1>6. CASE StartFactWrite
  <2>1. UNCHANGED <<post, synth, brief, requests>> /\ ~filling /\ filling'
    BY <1>6 DEF StartFactWrite
  <2>2. CASE q.e = e
    BY <2>1, <2>2 DEF Covered, Filling
  <2>3. CASE q.e # e
    <3> HIDE DEF q
    <3>1. log' = [log EXCEPT ![q.e] = q.body]
      BY <1>6, FactStarts DEF q
    <3>2. Keeps(e)
      BY <1>2, <2>1, <2>3, <3>1 DEF Keeps
    <3> QED  BY <1>3, <1>4, <2>1, <3>2 DEF Covered, Filling
  <2> QED  BY <2>2, <2>3
<1>7. CASE ProcessFact \/ FailFactWrite
  <2> HIDE DEF q
  <2>0. PICK ok \in BOOLEAN : FactReply(ok)
    BY <1>7, FactEnds DEF Base
  <2>1. /\ q.to = "log" /\ brief' = brief /\ synth' = synth
        /\ log' = log \/ \E part : log' = [log EXCEPT ![q.e] = part]
    <3>1. q.to = "log" /\ (log' = log \/ \E part : log' = [log EXCEPT ![q.e] = part])
      BY <1>7, FactEnds DEF Base, q
    <3> QED  BY <2>0, <3>1 DEF FactReply
  <2>2. /\ post' = [r \in Recorders |->
             IF r # q.from THEN post[r]
             ELSE [post[r] EXCEPT !.pc = IF ok THEN "brief" ELSE "idle"]]
        /\ excused' = IF ok /\ q.from # NoOne THEN excused ELSE excused \union {q.e}
    BY <2>0 DEF FactReply, q
  <2>3. q.from # NoOne => q.from \in Recorders /\ EntityOf[q.from] = q.e
    BY <1>1, <2>1 DEF LogReply, IsLog
  <2>4. CASE q.e = e
    <3>1. ok /\ q.from # NoOne
      BY <2>2, <2>4
    <3> DEFINE k == post[q.from]
    <3>2. k \in Posts /\ q.from \in Recorders /\ EntityOf[q.from] = e
      BY <1>2, <2>3, <2>4, <3>1
    <3>3. post'[q.from] = [k EXCEPT !.pc = "brief"]
      BY <2>2, <3>1, <3>2
    <3> HIDE DEF k
    <3>4. [k EXCEPT !.pc = "brief"].pc = "brief"
      BY <3>2 DEF Posts
    <3> QED  BY <3>2, <3>3, <3>4 DEF Covered, Compares
  <2>5. CASE q.e # e
    <3>1. \A r \in Recorders : EntityOf[r] = e => post'[r] = post[r]
      BY <1>2, <2>2, <2>3, <2>5
    <3>2. Keeps(e)
      BY <1>2, <2>1, <2>5 DEF Keeps
    <3>3. ~Filling(e)
      BY <2>5 DEF Filling, q
    <3> QED  BY <1>3, <1>4, <2>1, <3>1, <3>2, <3>3 DEF Covered
  <2> QED  BY <2>4, <2>5
<1>8. CASE ProcessBrief
  <2>1. q.to # "log" /\ post' = post /\ ~Filling(e)
    BY <1>1, <1>8 DEF ProcessBrief, Fills, IsLog, Filling
  <2>2. PICK ok \in BOOLEAN :
          /\ Commit(q.e, q.body, ok)
          /\ excused' = excused \union Undoes(q.e, q.body) \union (IF ok THEN {} ELSE {q.e})
    BY <1>8 DEF ProcessBrief
  <2>3. synth' = IF q.from = "synth" THEN [synth EXCEPT !.pc = "finish"] ELSE synth
    BY <1>8 DEF ProcessBrief
  <2> HIDE DEF q
  <2>4. q.body \in Bodies /\ q.body.count \in Nat
    BY <1>1, <2>1, WriteLengths DEF IsLog
  <2>5. log' = log /\ brief'[q.e] = q.body /\ \A d \in Entities \ {q.e} : brief'[d] = brief[d]
    BY <1>1, <2>2, <2>4, CommitWrites DEF Base
  <2>6. Keeps(e)
    <3>1. CASE q.e = e
      <4>1. ~(q.body.count < brief[e].count)
        BY <2>2, <3>1 DEF Undoes
      <4> QED  BY <1>2, <2>4, <2>5, <3>1, <4>1 DEF Keeps
    <3>2. CASE q.e # e
      BY <1>2, <2>5, <3>2 DEF Keeps
    <3> QED  BY <3>1, <3>2
  <2>7. CASE q.from = "synth"
    <3>1. /\ synth.pc = "waiting" /\ q.e = synth.e
          /\ q.body.count = Len(synth.facts)
      BY <1>1, <2>7 DEF Base, SynthReply, StampMatches
    <3>2. Runs(e) => Current(e)'
      BY <2>5, <3>1 DEF Runs, Current
    <3> QED  BY <1>3, <1>4, <2>1, <2>6, <3>2 DEF Covered
  <2>8. CASE q.from # "synth"
    BY <1>3, <1>4, <2>1, <2>3, <2>6, <2>8 DEF Covered
  <2> QED  BY <2>7, <2>8
<1> QED  BY <1>5, <1>6, <1>7, <1>8 DEF Worker

\* Everybody else: the brief they write, if any, is stamped at least as high.
LEMMA RestOthers ==
  ASSUME Base, Base', Fills, [Next]_vars, NEW e \in Entities, e \notin excused',
         Covered(e) \/ e \in excused,
         \/ \E d \in Entities :
              \/ AskSynthesis(d)
              \/ RegenListFacts(d) \/ Generator(d) \/ RegenGivesUp(d)
              \/ ObsidianEdit(d) \/ Watcher(d) \/ OpenEditor(d)
         \/ SaveEdit \/ SaveGivesUp \/ UNCHANGED vars
  PROVE  Covered(e)'
<1> USE DEF files, queue, history
<1>1. /\ brief[e].count \in Nat /\ brief \in [Entities -> Bodies] /\ TypeOK
      /\ spent.inputs \in Nat
  BY RestNumbers, SpentType DEF Base, TypeOK
<1>2. /\ UNCHANGED <<post, log, filling, synth, followups>>
      /\ queued \subseteq queued' /\ excused \subseteq excused'
  <2>1. CASE \E d \in Entities : AskSynthesis(d)
    BY <2>1, RestEnqueue DEF AskSynthesis
  <2>2. CASE ~(\E d \in Entities : AskSynthesis(d))
    BY <2>2 DEF RegenListFacts, Generator, RegenReadBrief, RegenWrite, RegenGivesUp,
           ObsidianEdit, Watcher, WatcherRead, WatcherCheck, WatcherCommit, Commit,
           OpenEditor, SaveEdit, SaveGivesUp, vars
  <2> QED  BY <2>1, <2>2
<1>3. ASSUME Keeps(e)
      PROVE  Covered(e)'
  BY <1>2, <1>3, RestFrame, FillingStays DEF Covered
<1>4. CASE brief'[e] = brief[e]
  BY <1>1, <1>2, <1>3, <1>4 DEF Keeps
<1>5. ASSUME NEW d \in Entities, ObsidianEdit(d)
      PROVE  Covered(e)'
  <2>1. PICK body \in Edited(brief[d]) : brief' = [brief EXCEPT ![d] = body]
    BY <1>5 DEF ObsidianEdit
  <2>2. body.count = brief[d].count
    BY <1>1, EditedBody
  <2>3. CASE d = e
    BY <1>1, <1>2, <1>3, <2>1, <2>2, <2>3 DEF Keeps
  <2>4. CASE d # e
    BY <1>1, <1>4, <2>1, <2>4
  <2> QED  BY <2>3, <2>4
<1>6. ASSUME NEW d \in Entities, WatcherCommit(d)
      PROVE  Covered(e)'
  <2> DEFINE b == [watch[d].read EXCEPT !.newer = @ \/ watch[d].read.front]
  <2>1. b \in Bodies /\ b.count = watch[d].read.count
    BY WatcherBody
  <2>2. /\ \E ok \in BOOLEAN : Commit(d, b, ok)
        /\ excused' = excused \union Undoes(d, watch[d].read)
    BY <1>6 DEF WatcherCommit
  <2> HIDE DEF b
  <2>3. brief'[d] = b /\ \A c \in Entities \ {d} : brief'[c] = brief[c]
    BY <1>1, <2>1, <2>2, CommitWrites
  <2>4. CASE d = e
    <3>1. ~(b.count < brief[e].count) /\ b.count \in Nat
      BY <2>1, <2>2, <2>4 DEF Undoes, Bodies
    <3> QED  BY <1>1, <1>2, <1>3, <2>3, <2>4, <3>1 DEF Keeps
  <2> QED  BY <1>4, <2>3, <2>4
<1>7. \/ brief' = brief
      \/ \E d \in Entities : ObsidianEdit(d) \/ WatcherCommit(d)
  BY DEF AskSynthesis, RegenListFacts, Generator, RegenReadBrief, RegenWrite, RegenGivesUp,
         Watcher, WatcherRead, WatcherCheck, OpenEditor, SaveEdit, SaveGivesUp, vars
<1> QED  BY <1>4, <1>5, <1>6, <1>7

LEMMA RestStep ==
  ASSUME Base, Base', LogReply, Fills, RestInv, [Next]_vars
  PROVE  RestInv'
<1>1. StampMatches'
  BY StampStep DEF RestInv
<1>2. ASSUME NEW e \in Entities, e \notin excused'
      PROVE  Covered(e)'
  <2>1. (Covered(e) \/ e \in excused) /\ StampMatches
    BY DEF RestInv
  <2>2. ASSUME NEW r \in Recorders, PostFact(r) \/ Handler(r) \/ AppendGivesUp(r)
        PROVE  Covered(e)'
    <3>1. e \notin excused
      BY <1>2, <2>2, RestEnqueue, EntityOfType
      DEF PostFact, Handler, AppendFact, AppendGivesUp, ReadPriorCount, CheckThreshold,
          TriggerSynthesis, history
    <3> QED  BY <1>2, <2>1, <2>2, <3>1, RestHandler
  <2>3. CASE Synthesizer \/ SynthGivesUp
    BY <1>2, <2>1, <2>3, RestSynthesizer
  <2>4. CASE Worker
    BY <1>2, <2>1, <2>4, RestWorker
  <2>5. CASE \/ \E d \in Entities :
                  \/ AskSynthesis(d)
                  \/ RegenListFacts(d) \/ Generator(d) \/ RegenGivesUp(d)
                  \/ ObsidianEdit(d) \/ Watcher(d) \/ OpenEditor(d)
             \/ SaveEdit \/ SaveGivesUp \/ UNCHANGED vars
    BY <1>2, <2>1, <2>5, RestOthers
  <2> QED  BY <2>2, <2>3, <2>4, <2>5 DEF Next
<1> QED  BY <1>1, <1>2 DEF RestInv

LEMMA RestInit ==
  ASSUME Init
  PROVE  RestInv
<1>1. StampMatches
  BY DEF Init, StampMatches
<1>2. ASSUME NEW e \in Entities
      PROVE  Current(e)
  <2>1. log[e] = <<>> /\ brief[e] = NoBrief /\ NoBrief.count = 0
    BY NoBriefType DEF Init
  <2>2. Len(log[e]) = 0 /\ brief[e].count = 0
    BY <2>1
  <2> QED  BY <2>2, NewCountFalls DEF Current
<1> QED  BY <1>1, <1>2 DEF RestInv, Covered

\* Nothing is under way for an entity at rest.
LEMMA RestIsCurrent ==
  ASSUME Base, Fills, RestInv
  PROVE  BriefsRest
<1>1. ASSUME NEW e \in Entities \ excused, AtRest(e)
      PROVE  Current(e)
  <2>1. ~Compares(e) /\ ~Runs(e)
    BY <1>1 DEF AtRest, Compares, Runs
  <2>2. ~Marked(e)
    BY <1>1 DEF AtRest, Marked
  <2>3. ~Filling(e)
    <3>1. filling => 1 \in DOMAIN requests /\ Head(requests) = requests[1]
      BY DEF Fills, Base, TypeOK
    <3> QED  BY <1>1, <3>1 DEF AtRest, Filling
  <2> QED  BY <2>1, <2>2, <2>3 DEF RestInv, Covered
<1> QED  BY <1>1 DEF BriefsRest, Current

(***************************************************************************)
(* An entity for which nothing is under way has a brief less than a        *)
(* threshold behind its log, unless something that went wrong excuses it:  *)
(* the handler's three reads (the stamp, the log, the synthesizer's marks) *)
(* and the run's two may each be stale when the next is made, and still no *)
(* interleaving of them with other handlers, runs and writers loses the    *)
(* last trigger.                                                           *)
(***************************************************************************)
THEOREM BriefsAreCurrent == Spec => []BriefsRest
<1> DEFINE Inv == Base /\ FactInv /\ RestInv
<1>1. Init => Inv
  BY BaseInit, FactInit, RestInit
<1>2. Inv /\ [Next]_vars => Inv'
  <2>1. Base /\ FactInv /\ [Next]_vars => (Base /\ FactInv)'
    BY BaseStep, LogSteps, FactQuiet, FactEnqueue, FactGiveUp, FactStart, FactWorker DEF Worker
  <2>2. FactInv => LogReply /\ Fills
    BY DEF FactInv
  <2> QED  BY <2>1, <2>2, RestStep
<1>3. Inv => BriefsRest
  BY RestIsCurrent DEF FactInv
<1> QED  BY <1>1, <1>2, <1>3, PTL DEF Spec
================================================================================
