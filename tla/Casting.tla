------------------------------- MODULE Casting -------------------------------
(***************************************************************************)
(* Handing media to a renderer: the requests POST /upnp/sendMedia,         *)
(* /upnp/setResource and /upnp/sendAction of upnpController                *)
(* (src/src/controller/upnpDevice.hpp) and the renderers they act on.      *)
(* sendMedia sends SetAVTransportURI and then Play; nothing keeps another  *)
(* request, or the renderer's own remote control, from acting in between.  *)
(*                                                                         *)
(* A renderer is external: each SOAP action is carried out, refused, or    *)
(* carried out with its answer lost, when UpnpSendAction reports an error. *)
(***************************************************************************)
EXTENDS Naturals

CONSTANTS
    Worker,         \* the request threads
    Renderer,       \* AVTransport control URLs
    DefaultRenderer,\* the control URL used when a request names none
    File,           \* media files, by the path a request gives
    StreamUrl,      \* absolute URLs of streams
    Empty,          \* an empty string
    Null,           \* an actionUrl the request leaves out
    NoJob           \* a worker between two requests

ASSUME RendererAssumption == /\ DefaultRenderer \in Renderer
                             /\ {Empty, Null} \cap Renderer = {}
                             /\ Empty # Null
ASSUME MediaAssumption == Empty \notin File \cup StreamUrl
ASSUME UrlAssumption == StreamUrl \cap ({"video", "audio"} \X File) = {}

\* The URL of a library file under SERVER_ADDRESS, by directory.
MediaUrl == StreamUrl \cup ({"video", "audio"} \X File)

\* DIDL-Lite metadata: the media class, and the URL its res element names.
\* Canned is the document createMetadataArgs builds.
Canned   == [class |-> "canned", url |-> Empty]
Metadata == [class : {"video", "audio"}, url : MediaUrl] \cup {Canned}

\* A request may leave out any field.  asString gives sourceType, mediaType and
\* actionUrl a default then, and leaves the others empty.
SendMediaRequest == [actionUrl  : Renderer \cup {Empty, Null},
                     sourceType : {"file", "stream", "audio"},
                     mediaType  : {"video", "audio"},
                     streamUrl  : StreamUrl \cup {Empty},
                     mediaUrl   : StreamUrl \cup {Empty},
                     filePath   : File \cup {Empty}]

VARIABLES
    handle,     \* is the client registered with the library?
    transport,  \* transport[r]: what renderer r has loaded, and if it plays
    pc,         \* pc[w]: what worker w does next
    job,        \* job[w]: where w's request goes, and what it sends there
    answer,     \* answer[w]: the status of w's last sendMedia, 0 while it runs
    overtaken   \* history: the workers whose media was replaced before Play

vars == <<handle, transport, pc, job, answer, overtaken>>

Nothing == [url |-> Empty, metadata |-> Canned, playing |-> FALSE]

\* The server registers its client before it serves; the tests' have no handle.
Init == /\ handle \in BOOLEAN
        /\ transport = [r \in Renderer |-> Nothing]
        /\ pc = [w \in Worker |-> "idle"]
        /\ job = [w \in Worker |-> NoJob]
        /\ answer = [w \in Worker |-> 0]
        /\ overtaken = {}

----------------------------------------------------------------------------
(* What a sendMedia request asks for.                                      *)

\* "stream" stands for stream, screen, desktop, vlc and live.
IsExplicitStream(req) == req.streamUrl # Empty \/ req.sourceType = "stream"

IsAudio(req) == \/ req.mediaType = "audio"
                \/ IsExplicitStream(req) /\ req.sourceType = "audio"

Class(req) == IF IsAudio(req) THEN "audio" ELSE "video"

\* The first of mediaUrl, streamUrl (for a stream) and the file's own URL.
ResolvedUrl(req) ==
    IF req.mediaUrl # Empty THEN req.mediaUrl
    ELSE IF IsExplicitStream(req) /\ req.streamUrl # Empty THEN req.streamUrl
    ELSE IF req.filePath # Empty THEN <<Class(req), req.filePath>>
    ELSE Empty

\* The generators build the metadata of that URL ...
GeneratedMetadata(req) == [class |-> Class(req), url |-> ResolvedUrl(req)]

\* ... and createActionDocument puts the canned document in its place.
createActionDocument(metadata) == Canned

\* Mutation of Target: no default renderer.
TargetAsGiven(req) == req.actionUrl

\* The default stands in for a missing actionUrl, not for an empty one.
Target(req) == IF req.actionUrl = Null THEN DefaultRenderer ELSE req.actionUrl

----------------------------------------------------------------------------
(* UpnpSendAction: an action, and whether it is reported as a success.     *)

Outcome == {"done", "refused", "lost"}

\* Without a handle or a URL the library refuses.
Reached(r) == handle /\ r # Empty

Load(w, r, url, metadata, outcome) ==
    IF outcome = "refused"
    THEN UNCHANGED <<transport, overtaken>>
    ELSE /\ Reached(r)
         /\ transport' = [transport EXCEPT ![r].url = url,
                                          ![r].metadata = metadata]
         /\ overtaken' = (overtaken \ {w}) \cup
               {v \in Worker \ {w} : pc[v] = "play" /\ job[v].renderer = r}

\* A renderer refuses to play when nothing is loaded.
StartPlaying(r, outcome) ==
    IF outcome = "refused"
    THEN UNCHANGED transport
    ELSE /\ Reached(r)
         /\ transport[r].url # Empty
         /\ transport' = [transport EXCEPT ![r].playing = TRUE]

Respond(w, status) == /\ pc'  = [pc EXCEPT ![w] = "idle"]
                      /\ job' = [job EXCEPT ![w] = NoJob]
                      /\ answer' = [answer EXCEPT ![w] = status]

----------------------------------------------------------------------------
(* sendMediaToTv.                                                          *)

Refuse(w, status) == /\ answer' = [answer EXCEPT ![w] = status]
                     /\ UNCHANGED <<pc, job>>

Accept(w, req) ==
    /\ pc'  = [pc EXCEPT ![w] = "set"]
    /\ job' = [job EXCEPT ![w] =
                 [renderer |-> Target(req),
                  url      |-> ResolvedUrl(req),
                  metadata |-> createActionDocument(GeneratedMetadata(req))]]
    /\ answer' = [answer EXCEPT ![w] = 0]

\* A request to a client without a handle, and one without any media, send
\* nothing.
SendMedia(w, req) ==
    /\ pc[w] = "idle"
    /\ \/ ~handle /\ Refuse(w, 500)
       \/ handle /\ ResolvedUrl(req) = Empty /\ Refuse(w, 400)
       \/ handle /\ ResolvedUrl(req) # Empty /\ Accept(w, req)
    /\ UNCHANGED <<transport, overtaken>>

\* Mutations of SetAVTransportURI: Play is sent whatever the answer was; a
\* failed action is sent again.
SetIgnoringError(w, outcome) ==
    /\ pc[w] = "set"
    /\ Load(w, job[w].renderer, job[w].url, job[w].metadata, outcome)
    /\ pc' = [pc EXCEPT ![w] = "play"]
    /\ UNCHANGED <<job, answer>>

SetAgain(w, outcome) ==
    /\ pc[w] = "set"
    /\ Load(w, job[w].renderer, job[w].url, job[w].metadata, outcome)
    /\ pc' = [pc EXCEPT ![w] = IF outcome = "done" THEN "play" ELSE "set"]
    /\ UNCHANGED <<job, answer>>

SetAVTransportURI(w, outcome) ==
    /\ pc[w] = "set"
    /\ Load(w, job[w].renderer, job[w].url, job[w].metadata, outcome)
    /\ \/ /\ outcome = "done"
          /\ pc' = [pc EXCEPT ![w] = "play"]
          /\ UNCHANGED <<job, answer>>
       \/ /\ outcome # "done"
          /\ Respond(w, 422)

Play(w, outcome) ==
    /\ pc[w] = "play"
    /\ StartPlaying(job[w].renderer, outcome)
    /\ Respond(w, IF outcome = "done" THEN 200 ELSE 422)
    /\ UNCHANGED overtaken

----------------------------------------------------------------------------
(* setResourceURI, sendAction and the renderer itself.                     *)

\* SetAVTransportURI alone, with the metadata the caller gives.
SetResource(w, r, url, metadata, outcome) ==
    /\ pc[w] = "idle"
    /\ Load(w, r, url, metadata, outcome)
    /\ UNCHANGED <<pc, job, answer>>

\* One action of the caller's choice, sent through createActionDocument.
SendAction(w, r, url, outcome) ==
    /\ pc[w] = "idle"
    /\ \/ Load(w, r, url, createActionDocument([class |-> "video", url |-> url]),
               outcome)
       \/ StartPlaying(r, outcome) /\ UNCHANGED overtaken
    /\ UNCHANGED <<pc, job, answer>>

\* The end of the media, Stop sent by sendAction, or the remote control.
Stop(r) == /\ transport[r].playing
           /\ transport' = [transport EXCEPT ![r].playing = FALSE]
           /\ UNCHANGED <<pc, job, answer, overtaken>>

\* The renderer is switched off: it forgets what it was to play.
PowerCycle(r) == /\ transport' = [transport EXCEPT ![r] = Nothing]
                 /\ UNCHANGED <<pc, job, answer, overtaken>>

----------------------------------------------------------------------------

SendMediaStep(w) ==
    \E outcome \in Outcome : SetAVTransportURI(w, outcome) \/ Play(w, outcome)

Step == \/ \E w \in Worker :
              \/ \E req \in SendMediaRequest : SendMedia(w, req)
              \/ SendMediaStep(w)
              \/ \E r \in Renderer, url \in StreamUrl, outcome \in Outcome :
                    \/ SendAction(w, r, url, outcome)
                    \/ SetResource(w, r, url, [class |-> "video", url |-> url],
                                   outcome)
        \/ \E r \in Renderer : Stop(r) \/ PowerCycle(r)

Next == Step /\ UNCHANGED handle

Spec == Init /\ [][Next]_vars

\* UpnpSendAction returns: an HTTP request of the library times out.
FairSpec == Spec /\ \A w \in Worker : WF_vars(SendMediaStep(w) /\ UNCHANGED handle)

----------------------------------------------------------------------------
(* Properties.                                                             *)

Transport == [url      : MediaUrl \cup {Empty},
              metadata : Metadata,
              playing  : BOOLEAN]

Job == [renderer : Renderer \cup {Empty}, url : MediaUrl, metadata : Metadata]

TypeOK == /\ handle \in BOOLEAN
          /\ transport \in [Renderer -> Transport]
          /\ pc \in [Worker -> {"idle", "set", "play"}]
          /\ job \in [Worker -> Job \cup {NoJob}]
          /\ answer \in [Worker -> {0, 200, 400, 422, 500}]
          /\ overtaken \in SUBSET Worker

\* "a UPnP/DLNA renderer plays the file" (README): when a request is answered
\* 200 its renderer is playing, and playing the media of that request unless
\* another request replaced it between SetAVTransportURI and Play.
AnsweredMeansPlaying ==
    [][\A w \in Worker :
         (answer[w] # 200 /\ answer'[w] = 200) =>
             LET r == job[w].renderer
             IN  /\ transport'[r].playing
                 /\ w \notin overtaken => transport'[r].url = job[w].url]_vars

\* The README's "generates the DIDL-Lite metadata and then sends
\* SetAVTransportURI followed by Play": between the two actions a renderer
\* that has loaded a request's media has the metadata generated for it.
MetadataDescribesMedia ==
    \A w \in Worker :
        LET r == job[w].renderer
        IN  (/\ pc[w] = "play" /\ w \notin overtaken
             /\ transport[r].url = job[w].url) =>
                transport[r].metadata.url = job[w].url

\* Every sendMedia request is answered, whatever the renderer does.
RequestAnswered == \A w \in Worker : (pc[w] # "idle") ~> (pc[w] = "idle")
=============================================================================
