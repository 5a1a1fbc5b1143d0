----------------------------- MODULE MediaServing -----------------------------
(***************************************************************************)
(* Serving the content directory (src/src/controller/upnpDevice.hpp): the  *)
(* listing of its videos, the ways to a media URL - Play here, Send to TV, *)
(* a playlist, the ContentDirectory a renderer browses - and the media     *)
(* endpoints, which look the name in the URL up on disk.  Files come and   *)
(* go while clients hold listings and URLs.                                *)
(*                                                                         *)
(* A client, external, is a browser, a renderer or a program.  It requests *)
(* the path of its URL: what follows ? or # is not part of it, and what    *)
(* may not stand in a request is escaped.                                  *)
(***************************************************************************)
EXTENDS MediaLibrary, FiniteSets

CONSTANTS
    Client,     \* the clients
    File,       \* files there may be: <<kind, name>>
    Nested,     \* files in sub-directories, by their path: <<kind, path>>
    Segment,    \* path segments programs ask for
    MaxFiles    \* bound: files in the content directory at once

Kind == {"video", "audio"}

ASSUME FileAssumption == File \cup Nested \subseteq Kind \X Seq(Nat)
ASSUME FileNameAssumption == \A f \in File : isSafeFileName(f[2])
ASSUME NestedAssumption == \A f \in Nested : Has(f[2], {Slash})

NoFile == <<"none", << >>>>
NoUrl  == [kind |-> "none", path |-> << >>]

VARIABLES
    library,    \* the files in the content directory
    listing,    \* listing[c]: the names of the page or the JSON list c has
    client,     \* client[c]: what c is about to fetch, and how it came to it
    answer      \* history: the media response just given, if any

vars == <<library, listing, client, answer>>

Idle == [step |-> "idle", picked |-> NoFile, url |-> NoUrl, mime |-> "none"]

\* No media response was given by this step.
Unanswered == [step |-> "none", picked |-> NoFile, status |-> 0, file |-> NoFile,
               announced |-> "none", mime |-> "none"]

Init == /\ library \in {L \in SUBSET File : Cardinality(L) <= MaxFiles}
        /\ listing = [c \in Client |-> {}]
        /\ client = [c \in Client |-> Idle]
        /\ answer = Unanswered

----------------------------------------------------------------------------
(* The content directory.                                                  *)

AddFile(f) == /\ Cardinality(library) < MaxFiles
              /\ library' = library \cup {f}
              /\ answer' = Unanswered
              /\ UNCHANGED <<listing, client>>

RemoveFile(f) == /\ f \in library
                 /\ library' = library \ {f}
                 /\ answer' = Unanswered
                 /\ UNCHANGED <<listing, client>>

\* Mutation of listVideos: whatever is in the directory.
listFiles == {f[2] : f \in {g \in library : g[1] = "video"}}

listVideos == {f[2] : f \in {g \in library : /\ g[1] = "video"
                                            /\ isSafeFileName(g[2])
                                            /\ hasVideoExtension(g[2])}}

\* GET / and GET /api/media/video.
List(c) == /\ listing' = [listing EXCEPT ![c] = listVideos]
           /\ answer' = Unanswered
           /\ UNCHANGED <<library, client>>

----------------------------------------------------------------------------
(* Ways to a media URL.  Its path is what follows /media/<kind>.           *)

Approach(c, state) == /\ client' = [client EXCEPT ![c] = state]
                      /\ answer' = Unanswered
                      /\ UNCHANGED <<library, listing>>

\* The url of a list item, and the data-url of its button.
listUrl(name) == [kind |-> "video", path |-> <<Slash>> \o urlEncode(name)]

PlayHere(c, name) ==
    /\ name \in listing[c]
    /\ Approach(c, [step |-> "play", picked |-> <<"video", name>>,
                    url |-> listUrl(name), mime |-> "none"])

\* Mutation of castUrl: a slash is put before every path.
castUrlSlashed(kind, filePath) == [kind |-> kind, path |-> <<Slash>> \o filePath]

\* The URL sendMediaToTv builds of a filePath.
castUrl(kind, filePath) ==
    [kind |-> kind,
     path |-> IF filePath[1] \in {Slash, Http} THEN filePath
              ELSE <<Slash>> \o filePath]

\* A video the page lists, or an audio file a program names, with or without
\* a slash before it.
SendToTv(c, kind, name, slash) ==
    /\ \/ kind = "video" /\ name \in listing[c] /\ ~slash
       \/ kind = "audio" /\ <<kind, name>> \in library
    /\ Approach(c, [step |-> "cast", picked |-> <<kind, name>>,
                    url  |-> castUrl(kind, IF slash THEN <<Slash>> \o name ELSE name),
                    mime |-> Announced(kind, name)])

\* The URL in the playlist of liveStream: .mp4 is appended in lower case.
playlistUrl(streamName) ==
    [kind |-> "video", path |-> <<Slash>> \o streamName \o <<Ext.mp4>>]

\* GET /stream/live/{streamName}, of a video's name without its extension.
LiveStream(c, name) ==
    /\ hasVideoExtension(name)
    /\ Approach(c, [step |-> "live", picked |-> <<"video", name>>,
                    url  |-> playlistUrl(urlEncode(Front(name))), mime |-> "none"])

----------------------------------------------------------------------------
(* "What the renderer does in return" (README).                            *)

Walk(c, from, to) ==
    /\ client[c].step = from
    /\ Approach(c, [Idle EXCEPT !.step = to])

\* GET /description.xml, and the profile it refers to.
descriptionXml(c) == Walk(c, "idle", "described")
profileXml(c)     == Walk(c, "described", "profiled")

\* The action a request is taken for, by the names its body has in it.
actionName(words) ==
    IF "GetSystemUpdateID" \in words THEN "GetSystemUpdateID"
    ELSE IF "GetSearchCapabilities" \in words THEN "GetSearchCapabilities"
    ELSE IF "GetSortCapabilities" \in words THEN "GetSortCapabilities"
    ELSE "Browse"

\* Every Browse, whatever its object, is answered with one item: the stream
\* desktop.m3u8.  The other actions leave a renderer where it was.
contentDirectoryControl(c, words) ==
    Walk(c, "profiled", IF actionName(words) = "Browse" THEN "browsed" ELSE "profiled")

desktop == <<100, 101, 115, 107, 116, 111, 112, Ext.m3u8>>

\* The item is a playlist.
FollowItem(c) ==
    /\ client[c].step = "browsed"
    /\ Approach(c, [step |-> "follow", picked |-> NoFile,
                    url |-> playlistUrl(desktop), mime |-> "none"])

----------------------------------------------------------------------------
(* HEAD and GET /media/{kind}/{resourcePath}.                              *)

\* What may not stand in a request, and bytes clients send either way.
Unsafe  == 0..32 \cup {34, 60, 62, 127}
EightBit == 128..255

requestPath(path, escape) ==
    LET end == SelectInSeq(path, LAMBDA ch : ch \in {63, 35})
        cut == IF end = 0 THEN path ELSE SubSeq(path, 1, end - 1)
    IN FlattenSeq([i \in DOMAIN cut |->
           IF cut[i] \in Unsafe \cup (IF escape THEN EightBit ELSE {})
           THEN escaped(cut[i]) ELSE <<cut[i]>>])

\* Mutation of mediaFilePath: the name is checked before it is decoded.
mediaFilePathUndecoded(kind, resourcePath) ==
    IF isSafeFileName(resourcePath) THEN <<kind, urlDecode(resourcePath)>> ELSE NoFile

\* Called with the decoded name.
mediaFilePath(kind, resourcePath) ==
    LET name == urlDecode(resourcePath)
    IN IF isSafeFileName(name) THEN <<kind, name>> ELSE NoFile

\* serveVideoResourceURI, serveResourceURI and their HEAD twins.
serve(kind, resourcePath, request) ==
    LET f == mediaFilePath(kind, resourcePath)
    IN [step |-> request.step, picked |-> request.picked, announced |-> request.mime,
        status |-> IF f \in library \cup Nested THEN 200 ELSE 404,
        file   |-> IF f \in library \cup Nested THEN f ELSE NoFile,
        mime   |-> IF f \in library \cup Nested THEN Served(kind, f[2]) ELSE "none"]

\* The router finds the endpoint of one segment after /media/<kind>/.
respond(url, escape, request) ==
    LET path == requestPath(url.path, escape)
    IN IF path # << >> /\ path[1] = Slash /\ ~Has(Tail(path), {Slash})
       THEN serve(url.kind, Tail(path), request)
       ELSE [Unanswered EXCEPT !.step = request.step, !.picked = request.picked,
                               !.announced = request.mime, !.status = 404]

\* A client may fetch again and again.
Fetch(c, escape) ==
    /\ client[c].url # NoUrl
    /\ answer' = respond(client[c].url, escape, client[c])
    /\ UNCHANGED <<library, listing, client>>

\* A program asks for a path of its own.
Request(kind, segment) ==
    /\ answer' = serve(kind, segment, Idle)
    /\ UNCHANGED <<library, listing, client>>

\* The client turns to something else.
Leave(c) == client[c].step # "idle" /\ Approach(c, Idle)

----------------------------------------------------------------------------

Next ==
    \/ \E f \in File : AddFile(f) \/ RemoveFile(f)
    \/ \E c \in Client :
          \/ List(c) \/ Leave(c) \/ descriptionXml(c) \/ profileXml(c) \/ FollowItem(c)
          \/ \E words \in SUBSET {"Browse", "GetSystemUpdateID"} :
                contentDirectoryControl(c, words)
          \/ \E f \in File :
                \/ f[1] = "video" /\ (PlayHere(c, f[2]) \/ LiveStream(c, f[2]))
                \/ \E slash \in BOOLEAN : SendToTv(c, f[1], f[2], slash)
          \/ \E escape \in BOOLEAN : Fetch(c, escape)
    \/ \E kind \in Kind, segment \in Segment : Request(kind, segment)

Spec == Init /\ [][Next]_vars

----------------------------------------------------------------------------
(* Properties.                                                             *)

Step == {"idle", "play", "cast", "live", "described", "profiled", "browsed", "follow"}

\* A listing has videos only, and what was served is a file.
TypeOK == /\ library \in SUBSET File
          /\ listing \in [Client -> SUBSET {f[2] : f \in File}]
          /\ \A c \in Client :
                /\ \A name \in listing[c] : hasVideoExtension(name)
                /\ client[c].step \in Step
                /\ client[c].picked \in File \cup {NoFile}
                /\ client[c].url = NoUrl \/ client[c].url.kind \in Kind
          /\ answer.step \in Step \cup {"none"}
          /\ answer.picked \in File \cup {NoFile}
          /\ \/ answer.status = 200 /\ answer.file \in File \cup Nested
             \/ answer.status \in {0, 404} /\ answer.file = NoFile

Plays(f) == answer.status = 200 => answer.file = f
Finds(f) == f \in library => answer.status = 200

\* "Play here - streams the file in the browser player" (README): whatever is
\* in its name, a file picked is the one served, and it is served as long as
\* it is there.  The same holds of the playlist of a file whose extension is
\* .mp4 in lower case; that of another video names another file or none.
PickIsServed ==
    (\/ answer.step = "play"
     \/ answer.step = "live" /\ Last(answer.picked[2]) = Ext.mp4) =>
        Plays(answer.picked) /\ Finds(answer.picked)

\* A name that stands in a URL as it is.
Plain(name) == /\ urlDecode(name) = name
               /\ ~Has(name, {63, 35})
               /\ name[1] # Http

\* "Send to TV - ... so a UPnP/DLNA renderer plays the file" (README): for
\* every plain name, however the renderer escapes it.  Other names are not
\* encoded on their way, and are not found or name another file.
CastIsServed == (answer.step = "cast" /\ Plain(answer.picked[2])) =>
                    Plays(answer.picked) /\ Finds(answer.picked)

\* Names the rules of metadata and of headers differ on: .m4v and .flac are
\* known to one of them only, and a name with two audio extensions is taken
\* for the first by one and for the second by the other.
Disputed(kind, name) ==
    IF kind = "video" THEN Has(name, {Ext.m4v})
    ELSE \/ Has(name, {Ext.flac})
         \/ /\ Has(name, {Ext.mp3, Ext.m4a, Ext.aac})
            /\ Has(name, {Ext.wav, Ext.pcm})

\* A renderer gets a file with the media type that the metadata generated for
\* it announced.
AnnouncedIsServed ==
    (/\ answer.step = "cast" /\ answer.status = 200
     /\ ~Disputed(answer.file[1], answer.file[2])
     /\ answer.file = answer.picked) => answer.mime = answer.announced

\* "Rejects empty names and any name that could escape the content directory"
\* (MediaLibrary.hpp): nothing is served but the files directly in it.
ServedFromLibrary == answer.status = 200 => answer.file \in library

\* The same of every name but one that starts with "http", which is taken for a
\* URL of its own.
SentIsServed == (answer.step = "cast" /\ answer.picked[2][1] # Http) =>
                    Plays(answer.picked) /\ Finds(answer.picked)

\* A renderer that "browses the content" and then "issues HEAD/GET
\* /media/video/{file} requests to stream the file" (README) is given a video,
\* if there is one.
BrowsedIsStreamed ==
    (/\ answer.step = "follow"
     /\ \E f \in library : f[1] = "video" /\ hasVideoExtension(f[2])) =>
        answer.status = 200
=============================================================================
