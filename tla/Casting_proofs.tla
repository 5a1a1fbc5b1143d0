---------------------------- MODULE Casting_proofs ----------------------------
(***************************************************************************)
(* Theorems about Casting, for any number of requests, any renderers and   *)
(* any media.                                                              *)
(***************************************************************************)
EXTENDS Casting, TLAPS

----------------------------------------------------------------------------
(* Changing some fields of one renderer.                                   *)

LEMMA FieldsChanged ==
    ASSUME NEW U, NEW M, NEW B, NEW t \in [url : U, metadata : M, playing : B],
           NEW u \in U, NEW m \in M, NEW b \in B
    PROVE  /\ [t EXCEPT !.url = u, !.metadata = m] \in [url : U, metadata : M, playing : B]
           /\ [t EXCEPT !.url = u, !.metadata = m].url = u
           /\ [t EXCEPT !.playing = b] \in [url : U, metadata : M, playing : B]
           /\ [t EXCEPT !.playing = b].url = t.url
           /\ [t EXCEPT !.playing = b].playing = b
OBVIOUS

LEMMA Nested ==
    ASSUME NEW S, NEW T, NEW f \in [S -> T], NEW r \in S, NEW u, NEW m
    PROVE  /\ [f EXCEPT ![r].url = u, ![r].metadata = m] =
                  [f EXCEPT ![r] = [f[r] EXCEPT !.url = u, !.metadata = m]]
           /\ [f EXCEPT ![r].playing = m] = [f EXCEPT ![r] = [f[r] EXCEPT !.playing = m]]
OBVIOUS

----------------------------------------------------------------------------
(* What a request sends.                                                   *)

LEMMA JobType ==
    ASSUME NEW req \in SendMediaRequest, ResolvedUrl(req) # Empty
    PROVE  [renderer |-> Target(req),
            url      |-> ResolvedUrl(req),
            metadata |-> createActionDocument(GeneratedMetadata(req))] \in Job
<1>1. Target(req) \in Renderer \cup {Empty}
  BY RendererAssumption DEF Target, SendMediaRequest
<1>2. Class(req) \in {"video", "audio"}
  BY DEF Class
<1>3. ResolvedUrl(req) \in MediaUrl
  BY <1>2 DEF ResolvedUrl, MediaUrl, SendMediaRequest
<1> QED
  BY <1>1, <1>3 DEF Job, createActionDocument, Metadata

----------------------------------------------------------------------------
(* The inductive invariant.                                                *)

\* A request under way has a job, and one that got past SetAVTransportURI has
\* a renderer.
Engaged == \A w \in Worker : /\ pc[w] # "idle" => job[w] \in Job
                             /\ pc[w] = "play" => job[w].renderer \in Renderer

\* Between SetAVTransportURI and Play a renderer holds the media of the
\* request, or nothing if it was switched off, unless the request is overtaken.
Loaded == \A w \in Worker \ overtaken :
             pc[w] = "play" =>
                 transport[job[w].renderer].url \in {job[w].url, Empty}

IInv == TypeOK /\ Engaged /\ Loaded

LEMMA InitIInv == Init => IInv
BY DEF Init, IInv, TypeOK, Engaged, Loaded, Nothing, Transport, Metadata

\* What loading media does to renderers and overtaken requests.
LEMMA LoadOK ==
    ASSUME IInv, NEW w \in Worker, NEW r \in Renderer \cup {Empty}, NEW url \in MediaUrl,
           NEW metadata \in Metadata, NEW outcome \in Outcome,
           Load(w, r, url, metadata, outcome)
    PROVE  /\ transport' \in [Renderer -> Transport]
           /\ overtaken' \in SUBSET Worker
           /\ outcome # "refused" =>
                 r \in Renderer /\ transport'[r].url = url /\ w \notin overtaken'
           /\ \A v \in Worker \ overtaken' :
                 (v # w /\ pc[v] = "play") =>
                     transport'[job[v].renderer].url \in {job[v].url, Empty}
<1>1. CASE outcome = "refused"
  BY <1>1 DEF Load, IInv, TypeOK, Loaded
<1>2. CASE outcome # "refused"
  <2>0. r \in Renderer
    BY <1>2 DEF Load, Reached
  <2>1. transport' = [transport EXCEPT ![r].url = url, ![r].metadata = metadata]
    BY <1>2 DEF Load
  <2>2. overtaken' = (overtaken \ {w}) \cup
                        {v \in Worker \ {w} : pc[v] = "play" /\ job[v].renderer = r}
    BY <1>2 DEF Load
  <2>3. /\ transport' \in [Renderer -> Transport]
        /\ transport'[r].url = url
    <3> DEFINE new == [transport[r] EXCEPT !.url = url, !.metadata = metadata]
    <3>1. transport \in [Renderer -> Transport] /\ transport[r] \in Transport
      BY <2>0 DEF IInv, TypeOK
    <3>2. new \in Transport /\ new.url = url
      BY <3>1, FieldsChanged DEF Transport
    <3>3. transport' = [transport EXCEPT ![r] = new]
      BY <2>0, <2>1, <3>1, Nested, Zenon
    <3> HIDE DEF new
    <3> QED
      BY <2>0, <3>1, <3>2, <3>3
  <2>5. ASSUME NEW v \in Worker \ overtaken', v # w, pc[v] = "play"
        PROVE  transport'[job[v].renderer].url \in {job[v].url, Empty}
    <3>1. v \notin overtaken /\ job[v].renderer # r
      BY <2>2, <2>5
    <3>2. job[v].renderer \in Renderer
      BY <2>5 DEF IInv, Engaged
    <3>3. transport'[job[v].renderer] = transport[job[v].renderer]
      BY <2>1, <3>1, <3>2 DEF IInv, TypeOK
    <3> QED
      BY <2>5, <3>1, <3>3 DEF IInv, Loaded
  <2> QED
    BY <1>2, <2>0, <2>2, <2>3, <2>5 DEF IInv, TypeOK
<1> QED
  BY <1>1, <1>2

\* Starting, stopping or switching off a renderer changes no media but to none.
LEMMA KeepsMedia ==
    ASSUME IInv, transport' \in [Renderer -> Transport],
           \A r \in Renderer : transport'[r].url \in {transport[r].url, Empty},
           overtaken' = overtaken, NEW v \in Worker \ overtaken, pc[v] = "play"
    PROVE  transport'[job[v].renderer].url \in {job[v].url, Empty}
<1>1. job[v].renderer \in Renderer
  BY DEF IInv, Engaged
<1> QED
  BY <1>1 DEF IInv, Loaded

LEMMA PlayingOK ==
    ASSUME IInv, NEW r \in Renderer, NEW outcome \in Outcome, StartPlaying(r, outcome)
    PROVE  /\ transport' \in [Renderer -> Transport]
           /\ \A q \in Renderer : transport'[q].url \in {transport[q].url, Empty}
           /\ outcome # "refused" =>
                 /\ transport'[r].playing
                 /\ transport[r].url # Empty
                 /\ transport'[r].url = transport[r].url
<1>1. CASE outcome = "refused"
  BY <1>1 DEF StartPlaying, IInv, TypeOK
<1>2. CASE outcome # "refused"
  <2> DEFINE new == [transport[r] EXCEPT !.playing = TRUE]
  <2>1. transport \in [Renderer -> Transport] /\ transport[r] \in Transport
    BY DEF IInv, TypeOK
  <2>2. new \in Transport /\ new.url = transport[r].url /\ new.playing = TRUE
    BY <2>1, FieldsChanged DEF Transport
  <2>3. transport' = [transport EXCEPT ![r].playing = TRUE] /\ transport[r].url # Empty
    BY <1>2 DEF StartPlaying
  <2>4. transport' = [transport EXCEPT ![r] = new]
    BY <2>1, <2>3, Nested, Zenon
  <2> HIDE DEF new
  <2>5. transport' \in [Renderer -> Transport] /\ transport'[r] = new
    BY <2>1, <2>2, <2>4
  <2>6. \A q \in Renderer \ {r} : transport'[q] = transport[q]
    BY <2>1, <2>4
  <2>7. transport'[r].playing /\ transport'[r].url = transport[r].url
    BY <2>2, <2>5
  <2> QED
    BY <2>3, <2>5, <2>6, <2>7
<1> QED
  BY <1>1, <1>2

\* What a request or an action leaves of the invariant when it changes the
\* renderers through Load or StartPlaying.
LEMMA SetIInv ==
    ASSUME IInv, NEW w \in Worker, NEW outcome \in Outcome, SetAVTransportURI(w, outcome),
           UNCHANGED handle
    PROVE  IInv'
<1>1. pc[w] = "set" /\ job[w] \in Job
  BY DEF SetAVTransportURI, IInv, Engaged
<1>2. /\ transport' \in [Renderer -> Transport]
      /\ overtaken' \in SUBSET Worker
      /\ outcome # "refused" =>
            /\ job[w].renderer \in Renderer
            /\ transport'[job[w].renderer].url = job[w].url
            /\ w \notin overtaken'
      /\ \A v \in Worker \ overtaken' :
            (v # w /\ pc[v] = "play") =>
                transport'[job[v].renderer].url \in {job[v].url, Empty}
  BY <1>1, LoadOK DEF SetAVTransportURI, Job
<1>3. CASE outcome = "done" /\ pc' = [pc EXCEPT ![w] = "play"] /\ UNCHANGED <<job, answer>>
  BY <1>1, <1>2, <1>3 DEF IInv, TypeOK, Engaged, Loaded
<1>4. CASE Respond(w, 422)
  BY <1>1, <1>2, <1>4 DEF Respond, IInv, TypeOK, Engaged, Loaded
<1> QED
  BY <1>3, <1>4 DEF SetAVTransportURI

LEMMA PlayIInv ==
    ASSUME IInv, NEW w \in Worker, NEW outcome \in Outcome, Play(w, outcome),
           UNCHANGED handle
    PROVE  IInv'
<1>1. pc[w] = "play" /\ job[w].renderer \in Renderer /\ overtaken' = overtaken
  BY DEF Play, IInv, Engaged
<1>2. /\ transport' \in [Renderer -> Transport]
      /\ \A q \in Renderer : transport'[q].url \in {transport[q].url, Empty}
  BY <1>1, PlayingOK DEF Play
<1>3. \A v \in Worker \ overtaken :
         pc[v] = "play" => transport'[job[v].renderer].url \in {job[v].url, Empty}
  BY <1>1, <1>2, KeepsMedia
<1>4. Respond(w, 200) \/ Respond(w, 422)
  BY DEF Play
<1> QED
  BY <1>1, <1>2, <1>3, <1>4 DEF Respond, IInv, TypeOK, Engaged, Loaded

LEMMA SendIInv ==
    ASSUME IInv, NEW w \in Worker, NEW req \in SendMediaRequest, SendMedia(w, req),
           UNCHANGED handle
    PROVE  IInv'
<1> DEFINE new == [renderer |-> Target(req),
                   url      |-> ResolvedUrl(req),
                   metadata |-> createActionDocument(GeneratedMetadata(req))]
<1>0. UNCHANGED <<transport, overtaken>>
  BY DEF SendMedia
<1>1. CASE Refuse(w, 500) \/ Refuse(w, 400)
  BY <1>0, <1>1 DEF Refuse, IInv, TypeOK, Engaged, Loaded
<1>2. CASE ResolvedUrl(req) # Empty /\ Accept(w, req)
  <2>1. new \in Job
    BY <1>2, JobType
  <2>2. /\ job' = [job EXCEPT ![w] = new]
        /\ pc' = [pc EXCEPT ![w] = "set"]
        /\ answer' = [answer EXCEPT ![w] = 0]
    BY <1>2 DEF Accept
  <2> HIDE DEF new
  <2> QED
    BY <1>0, <2>1, <2>2 DEF IInv, TypeOK, Engaged, Loaded
<1> QED
  BY <1>1, <1>2 DEF SendMedia

LEMMA OtherIInv ==
    ASSUME IInv, NEW w \in Worker, NEW r \in Renderer, NEW url \in StreamUrl,
           NEW outcome \in Outcome,
           \/ SendAction(w, r, url, outcome)
           \/ SetResource(w, r, url, [class |-> "video", url |-> url], outcome),
           UNCHANGED handle
    PROVE  IInv'
<1>1. pc[w] = "idle" /\ UNCHANGED <<pc, job, answer>>
  BY DEF SendAction, SetResource
<1>2. ASSUME NEW metadata \in Metadata, Load(w, r, url, metadata, outcome)
      PROVE  IInv'
  <2>1. url \in MediaUrl
    BY DEF MediaUrl
  <2>2. /\ transport' \in [Renderer -> Transport]
        /\ overtaken' \in SUBSET Worker
        /\ \A v \in Worker \ overtaken' :
              (v # w /\ pc[v] = "play") =>
                  transport'[job[v].renderer].url \in {job[v].url, Empty}
    BY <1>2, <2>1, LoadOK
  <2> QED
    BY <1>1, <2>2 DEF IInv, TypeOK, Engaged, Loaded
<1>3. CASE StartPlaying(r, outcome) /\ UNCHANGED overtaken
  <2>1. /\ transport' \in [Renderer -> Transport]
        /\ \A q \in Renderer : transport'[q].url \in {transport[q].url, Empty}
    BY <1>3, PlayingOK
  <2>2. \A v \in Worker \ overtaken :
           pc[v] = "play" => transport'[job[v].renderer].url \in {job[v].url, Empty}
    BY <1>3, <2>1, KeepsMedia
  <2> QED
    BY <1>1, <1>3, <2>1, <2>2 DEF IInv, TypeOK, Engaged, Loaded
<1>4. [class |-> "video", url |-> url] \in Metadata /\ Canned \in Metadata
  BY DEF Metadata, MediaUrl
<1> QED
  BY <1>2, <1>3, <1>4 DEF SendAction, SetResource, createActionDocument

LEMMA RendererIInv ==
    ASSUME IInv, NEW r \in Renderer, Stop(r) \/ PowerCycle(r), UNCHANGED handle
    PROVE  IInv'
<1>1. /\ transport' \in [Renderer -> Transport]
      /\ \A q \in Renderer : transport'[q].url \in {transport[q].url, Empty}
  <2>1. CASE Stop(r)
    <3> DEFINE new == [transport[r] EXCEPT !.playing = FALSE]
    <3>1. transport \in [Renderer -> Transport] /\ transport[r] \in Transport
      BY DEF IInv, TypeOK
    <3>2. new \in Transport /\ new.url = transport[r].url
      BY <3>1, FieldsChanged DEF Transport
    <3>3. transport' = [transport EXCEPT ![r].playing = FALSE]
      BY <2>1 DEF Stop
    <3>4. transport' = [transport EXCEPT ![r] = new]
      BY <3>1, <3>3, Nested, Zenon
    <3> HIDE DEF new
    <3> QED
      BY <3>1, <3>2, <3>4
  <2>2. CASE PowerCycle(r)
    <3>1. Nothing \in Transport /\ Nothing.url = Empty
      BY DEF Nothing, Transport, Metadata
    <3> QED
      BY <2>2, <3>1 DEF PowerCycle, IInv, TypeOK
  <2> QED
    BY <2>1, <2>2
<1>2. UNCHANGED <<pc, job, answer, overtaken>>
  BY DEF Stop, PowerCycle
<1>3. \A v \in Worker \ overtaken :
         pc[v] = "play" => transport'[job[v].renderer].url \in {job[v].url, Empty}
  BY <1>1, <1>2, KeepsMedia
<1> QED
  BY <1>1, <1>2, <1>3 DEF IInv, TypeOK, Engaged, Loaded

LEMMA NextIInv == IInv /\ [Next]_vars => IInv'
<1> SUFFICES ASSUME IInv, [Next]_vars PROVE IInv'
  OBVIOUS
<1>1. CASE UNCHANGED vars
  BY <1>1 DEF vars, IInv, TypeOK, Engaged, Loaded
<1> QED
  BY <1>1, SendIInv, SetIInv, PlayIInv, OtherIInv, RendererIInv DEF Next, Step, SendMediaStep

LEMMA OnlyPlaySucceeds ==
  ASSUME IInv, Next, NEW w \in Worker, answer[w] # 200, answer'[w] = 200
  PROVE  \E v \in Worker, outcome \in Outcome : Play(v, outcome)
<1>1. answer' # answer
  BY Zenon
<1>2. ~ \E r \in Renderer : Stop(r) \/ PowerCycle(r)
  BY <1>1 DEF Stop, PowerCycle
<1>3. PICK v \in Worker :
         \/ \E req \in SendMediaRequest : SendMedia(v, req)
         \/ SendMediaStep(v)
         \/ \E r \in Renderer, url \in StreamUrl, outcome \in Outcome :
               \/ SendAction(v, r, url, outcome)
               \/ SetResource(v, r, url, [class |-> "video", url |-> url], outcome)
  BY <1>2 DEF Next, Step
<1>4. CASE \E req \in SendMediaRequest : SendMedia(v, req)
  <2>1. \E status \in {0, 400, 500} : answer' = [answer EXCEPT ![v] = status]
    BY <1>4 DEF SendMedia, Refuse, Accept
  <2> QED
    BY <2>1 DEF IInv, TypeOK
<1>5. CASE SendMediaStep(v)
  <2>1. PICK outcome \in Outcome : SetAVTransportURI(v, outcome) \/ Play(v, outcome)
    BY <1>5 DEF SendMediaStep
  <2>2. ~ SetAVTransportURI(v, outcome)
    BY DEF SetAVTransportURI, Respond, IInv, TypeOK
  <2> QED
    BY <2>1, <2>2
<1>6. CASE \E r \in Renderer, url \in StreamUrl, outcome \in Outcome :
              \/ SendAction(v, r, url, outcome)
              \/ SetResource(v, r, url, [class |-> "video", url |-> url], outcome)
  BY <1>1, <1>6 DEF SendAction, SetResource
<1> QED
  BY <1>3, <1>4, <1>5, <1>6, Zenon

----------------------------------------------------------------------------
(* The theorems.                                                           *)

\* Requests and renderers are always well-typed: no request under way is without
\* a target, if only an empty one, or carries an empty URL, and every answer is
\* one the code gives.
THEOREM TypeCorrect == Spec => []TypeOK
<1>1. IInv => TypeOK
  BY DEF IInv
<1> QED
  BY <1>1, InitIInv, NextIInv, PTL DEF Spec

\* A request answered 200 leaves its renderer playing, and playing its own
\* media unless another request came in between.
THEOREM SuccessMeansPlaying == Spec => AnsweredMeansPlaying
<1> DEFINE Playing ==
       \A w \in Worker :
         (answer[w] # 200 /\ answer'[w] = 200) =>
             LET r == job[w].renderer
             IN  /\ transport'[r].playing
                 /\ w \notin overtaken => transport'[r].url = job[w].url
<1>1. IInv /\ [Next]_vars => Playing
  <2> SUFFICES ASSUME IInv, [Next]_vars, NEW w \in Worker,
                      answer[w] # 200, answer'[w] = 200
               PROVE  /\ transport'[job[w].renderer].playing
                      /\ w \notin overtaken =>
                            transport'[job[w].renderer].url = job[w].url
    OBVIOUS
  <2>1. ASSUME NEW v \in Worker, NEW outcome \in Outcome, Play(v, outcome)
        PROVE  /\ transport'[job[w].renderer].playing
               /\ w \notin overtaken =>
                     transport'[job[w].renderer].url = job[w].url
    <3>1. v = w /\ outcome = "done" /\ pc[w] = "play"
      BY <2>1 DEF Play, Respond, IInv, TypeOK
    <3>2. job[w].renderer \in Renderer
      BY <3>1 DEF IInv, Engaged
    <3>3. /\ transport'[job[w].renderer].playing
          /\ transport[job[w].renderer].url # Empty
          /\ transport'[job[w].renderer].url = transport[job[w].renderer].url
      BY <2>1, <3>1, <3>2, PlayingOK DEF Play
    <3>4. w \notin overtaken => transport'[job[w].renderer].url = job[w].url
      <4>1. w \notin overtaken => transport[job[w].renderer].url \in {job[w].url, Empty}
        BY <3>1 DEF IInv, Loaded
      <4> QED
        BY <3>3, <4>1
    <3> QED
      BY <3>3, <3>4
  <2>2. Next
    BY Zenon DEF vars
  <2>3. \E v \in Worker, outcome \in Outcome : Play(v, outcome)
    BY <2>2, OnlyPlaySucceeds, Zenon
  <2> QED
    BY <2>1, <2>3, Zenon
<1>2. IInv /\ [Next]_vars => [Playing]_vars
  BY <1>1
<1> QED
  BY <1>2, InitIInv, NextIInv, PTL DEF Spec, AnsweredMeansPlaying
=============================================================================
