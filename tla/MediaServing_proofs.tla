-------------------------- MODULE MediaServing_proofs --------------------------
(***************************************************************************)
(* Theorems about media serving, for every set of clients and of files,    *)
(* whatever their names.                                                   *)
(*                                                                         *)
(* What is served is in the library, with the type announced, whatever     *)
(* urlEncode and urlDecode compute: the name is checked after it was       *)
(* decoded, and the type of a file depends on its name alone.  That the    *)
(* file picked is the file served rests on what they compute.              *)
(***************************************************************************)
EXTENDS MediaServing, MediaLibrary_proofs

\* A client sent to the renderer carries the type announced of what was picked,
\* and the URL of a file of its kind.
Carried ==
    \A c \in Client : client[c].step = "cast" =>
        /\ client[c].picked \in File
        /\ client[c].mime = Announced(client[c].picked[1], client[c].picked[2])

\* A response names what was asked for and the type its name is served with.
Answered ==
    /\ answer.step = "cast" =>
          /\ answer.picked \in File
          /\ answer.announced = Announced(answer.picked[1], answer.picked[2])
    /\ answer.status = 200 => answer.mime = Served(answer.file[1], answer.file[2])

IInv == /\ TypeOK
        /\ client = [c \in Client |-> client[c]]
        /\ Carried
        /\ Answered
        /\ ServedFromLibrary

----------------------------------------------------------------------------
(* Values.                                                                 *)

\* What is served has a safe name: a file in a sub-directory has not.
LEMMA ServeOK ==
  ASSUME TypeOK, NEW kind \in Kind, NEW segment, NEW request, NEW a,
         a = serve(kind, segment, request)
  PROVE  /\ a.step = request.step
         /\ a.picked = request.picked
         /\ a.announced = request.mime
         /\ \/ /\ a.status = 200
               /\ a.file \in library
               /\ a.mime = Served(a.file[1], a.file[2])
            \/ /\ a.status = 404
               /\ a.file = NoFile
<1> DEFINE name == urlDecode(segment)
           f == mediaFilePath(kind, segment)
<1>1. f \in library \cup Nested => isSafeFileName(f[2])
  <2>1. CASE isSafeFileName(name)
    BY <2>1 DEF mediaFilePath
  <2>2. CASE f = NoFile
    <3>1. NoFile \notin File \cup Nested
      BY FileAssumption DEF NoFile, Kind
    <3> QED
      BY <2>2, <3>1 DEF TypeOK
  <2> QED
    BY <2>1, <2>2 DEF mediaFilePath
<1>2. f \notin Nested
  BY <1>1, NestedAssumption DEF isSafeFileName, Has
<1>3. f \in library \cup Nested => kind = f[1]
  <2>1. f = <<kind, name>> \/ f = NoFile
    BY DEF mediaFilePath
  <2>2. NoFile \notin File \cup Nested
    BY FileAssumption DEF NoFile, Kind
  <2> QED
    BY <2>1, <2>2 DEF TypeOK
<1> QED
  BY <1>2, <1>3 DEF serve

\* A client's state, as the actions build it.
ClientOK(state) == /\ state.step \in Step
                   /\ state.picked \in File \cup {NoFile}
                   /\ state.url = NoUrl \/ state.url.kind \in Kind
                   /\ state.step = "cast" =>
                         /\ state.picked \in File
                         /\ state.mime = Announced(state.picked[1], state.picked[2])

LEMMA UnansweredOK ==
  /\ Unanswered.step = "none"
  /\ Unanswered.picked = NoFile
  /\ Unanswered.status = 0
  /\ Unanswered.file = NoFile
BY DEF Unanswered

\* A step without a response.
LEMMA QuietIInv ==
  ASSUME IInv, answer' = Unanswered,
         library' \in SUBSET File,
         listing' \in [Client -> SUBSET {f[2] : f \in File}],
         \A c \in Client : \A name \in listing'[c] : hasVideoExtension(name),
         client' = client
            \/ \E c \in Client : \E state : /\ client' = [client EXCEPT ![c] = state]
                                             /\ ClientOK(state)
  PROVE  IInv'
<1>1. \A c \in Client : ClientOK(client'[c])
  BY DEF IInv, TypeOK, Carried, ClientOK
<1>2. client' = [c \in Client |-> client'[c]]
  BY DEF IInv
<1>3. TypeOK'
  BY <1>1, UnansweredOK DEF TypeOK, ClientOK, Step
<1>4. Carried'
  BY <1>1 DEF Carried, ClientOK
<1>5. Answered' /\ ServedFromLibrary'
  BY UnansweredOK DEF Answered, ServedFromLibrary
<1> QED
  BY <1>2, <1>3, <1>4, <1>5 DEF IInv

LEMMA ApproachIInv ==
  ASSUME IInv, NEW c \in Client, NEW state, ClientOK(state), Approach(c, state)
  PROVE  IInv'
BY QuietIInv DEF Approach, IInv, TypeOK

\* A step with a response to request, of a client or a program.
LEMMA AnswerIInv ==
  ASSUME IInv, UNCHANGED <<library, listing, client>>,
         NEW request, ClientOK(request),
         /\ answer'.step = request.step
         /\ answer'.picked = request.picked
         /\ answer'.announced = request.mime,
         \/ /\ answer'.status = 200
            /\ answer'.file \in library
            /\ answer'.mime = Served(answer'.file[1], answer'.file[2])
         \/ /\ answer'.status = 404
            /\ answer'.file = NoFile
  PROVE  IInv'
<1>1. TypeOK'
  BY DEF IInv, TypeOK, ClientOK
<1>2. Answered' /\ ServedFromLibrary'
  BY DEF Answered, ServedFromLibrary, ClientOK
<1>3. Carried' /\ client' = [c \in Client |-> client'[c]]
  BY DEF IInv, Carried
<1> QED
  BY <1>1, <1>2, <1>3 DEF IInv

LEMMA IdleOK == ClientOK(Idle) /\ \A to \in Step \ {"cast"} : ClientOK([Idle EXCEPT !.step = to])
BY DEF ClientOK, Idle, NoUrl, Step

----------------------------------------------------------------------------
(* The actions.                                                            *)

LEMMA InitIInv == Init => IInv
<1> SUFFICES ASSUME Init PROVE IInv
  OBVIOUS
<1>1. TypeOK
  BY IdleOK, UnansweredOK DEF Init, TypeOK, ClientOK
<1>2. Carried /\ Answered /\ ServedFromLibrary
  BY UnansweredOK DEF Init, Carried, Answered, ServedFromLibrary, Idle
<1> QED
  BY <1>1, <1>2 DEF IInv, Init

LEMMA DirectoryIInv ==
  ASSUME IInv, NEW f \in File, AddFile(f) \/ RemoveFile(f)
  PROVE  IInv'
BY QuietIInv DEF AddFile, RemoveFile, IInv, TypeOK

LEMMA ListIInv ==
  ASSUME IInv, NEW c \in Client, List(c)
  PROVE  IInv'
<1>1. /\ listVideos \in SUBSET {f[2] : f \in File}
      /\ \A name \in listVideos : hasVideoExtension(name)
  BY DEF listVideos, IInv, TypeOK
<1> QED
  BY <1>1, QuietIInv DEF List, IInv, TypeOK

LEMMA FileOK ==
  ASSUME NEW f \in File
  PROVE  f = <<f[1], f[2]>> /\ f[1] \in Kind
BY FileAssumption

LEMMA PickIInv ==
  ASSUME IInv, NEW c \in Client, NEW f \in File, f[1] = "video",
         PlayHere(c, f[2]) \/ LiveStream(c, f[2])
  PROVE  IInv'
<1>1. <<"video", f[2]>> \in File
  BY FileOK
<1>2. CASE PlayHere(c, f[2])
  <2> DEFINE state == [step |-> "play", picked |-> <<"video", f[2]>>,
                       url |-> listUrl(f[2]), mime |-> "none"]
  <2>1. ClientOK(state)
    BY <1>1 DEF ClientOK, Step, listUrl, Kind
  <2> QED
    BY <1>2, <2>1, ApproachIInv DEF PlayHere
<1>3. CASE LiveStream(c, f[2])
  <2> DEFINE state == [step |-> "live", picked |-> <<"video", f[2]>>,
                       url |-> playlistUrl(urlEncode(Front(f[2]))), mime |-> "none"]
  <2>1. ClientOK(state)
    BY <1>1 DEF ClientOK, Step, playlistUrl, Kind
  <2> QED
    BY <1>3, <2>1, ApproachIInv DEF LiveStream
<1> QED
  BY <1>2, <1>3, Zenon

LEMMA SendIInv ==
  ASSUME IInv, NEW c \in Client, NEW f \in File, NEW slash \in BOOLEAN,
         SendToTv(c, f[1], f[2], slash)
  PROVE  IInv'
<1> DEFINE path == IF slash THEN <<Slash>> \o f[2] ELSE f[2]
           state == [step |-> "cast", picked |-> <<f[1], f[2]>>,
                     url |-> castUrl(f[1], path), mime |-> Announced(f[1], f[2])]
<1>1. ClientOK(state)
  BY FileOK DEF ClientOK, Step, castUrl
<1> QED
  BY <1>1, ApproachIInv DEF SendToTv

LEMMA WalkIInv ==
  ASSUME IInv, NEW c \in Client,
         \/ Leave(c) \/ descriptionXml(c) \/ profileXml(c) \/ FollowItem(c)
         \/ \E words \in SUBSET {"Browse", "GetSystemUpdateID"} :
                contentDirectoryControl(c, words)
  PROVE  IInv'
<1>1. CASE Leave(c)
  BY <1>1, IdleOK, ApproachIInv DEF Leave
<1>2. CASE FollowItem(c)
  <2> DEFINE state == [step |-> "follow", picked |-> NoFile,
                       url |-> playlistUrl(desktop), mime |-> "none"]
  <2>1. ClientOK(state)
    BY DEF ClientOK, Step, playlistUrl, Kind
  <2> QED
    BY <1>2, <2>1, ApproachIInv DEF FollowItem
<1>3. ASSUME NEW from, NEW to \in Step \ {"cast"}, Walk(c, from, to)
      PROVE  IInv'
  BY <1>3, IdleOK, ApproachIInv DEF Walk
<1> QED
  BY <1>1, <1>2, <1>3 DEF descriptionXml, profileXml, contentDirectoryControl, Step

LEMMA FetchIInv ==
  ASSUME IInv, NEW c \in Client, NEW escape \in BOOLEAN, Fetch(c, escape)
  PROVE  IInv'
<1> DEFINE r == client[c]
           path == requestPath(r.url.path, escape)
<1>1. ClientOK(r)
  BY DEF IInv, TypeOK, Carried, ClientOK
<1>2. /\ UNCHANGED <<library, listing, client>>
      /\ answer' = respond(r.url, escape, r)
      /\ r.url.kind \in Kind
  BY <1>1 DEF Fetch, ClientOK
<1>3. CASE answer' = serve(r.url.kind, Tail(path), r)
  BY <1>1, <1>2, <1>3, ServeOK, AnswerIInv DEF IInv
<1>4. CASE answer' = [Unanswered EXCEPT !.step = r.step, !.picked = r.picked,
                                        !.announced = r.mime, !.status = 404]
  <2>1. /\ answer'.step = r.step
        /\ answer'.picked = r.picked
        /\ answer'.announced = r.mime
        /\ answer'.status = 404
        /\ answer'.file = NoFile
    BY <1>4 DEF Unanswered
  <2> QED
    BY <1>1, <1>2, <2>1, AnswerIInv
<1> QED
  BY <1>2, <1>3, <1>4 DEF respond

LEMMA RequestIInv ==
  ASSUME IInv, NEW kind \in Kind, NEW segment \in Segment, Request(kind, segment)
  PROVE  IInv'
BY IdleOK, ServeOK, AnswerIInv DEF Request, IInv

LEMMA NextIInv == IInv /\ [Next]_vars => IInv'
<1> SUFFICES ASSUME IInv, [Next]_vars PROVE IInv'
  OBVIOUS
<1>1. CASE UNCHANGED vars
  BY <1>1 DEF vars, IInv, TypeOK, Carried, Answered, ServedFromLibrary
<1> QED
  BY <1>1, DirectoryIInv, ListIInv, PickIInv, SendIInv, WalkIInv, FetchIInv, RequestIInv
  DEF Next

----------------------------------------------------------------------------
(* The theorems.                                                           *)

\* Listings have playable videos only, and a response has a file if and only
\* if its status is 200.
THEOREM TypeCorrect == Spec => []TypeOK
<1>1. IInv => TypeOK
  BY DEF IInv
<1> QED
  BY <1>1, InitIInv, NextIInv, PTL DEF Spec

\* Whatever path is asked for, only files of the content directory are served.
THEOREM ServedIsInLibrary == Spec => []ServedFromLibrary
<1>1. IInv => ServedFromLibrary
  BY DEF IInv
<1> QED
  BY <1>1, InitIInv, NextIInv, PTL DEF Spec

\* Of every name the two rules do not dispute, the type announced is the type
\* served.
THEOREM TypesAgree == Spec => []AnnouncedIsServed
<1>1. ASSUME NEW f \in File, ~ Disputed(f[1], f[2])
      PROVE  Served(f[1], f[2]) = Announced(f[1], f[2])
  BY <1>1, FileOK
  DEF Disputed, Served, Announced, Has, Kind, pickAudioDlnaHeaders, detectAudioKind,
      pickVideoDlnaHeaders, generateDidlLite, toDlnaMime, generateVideoDidlLite, Ext
<1>2. IInv => AnnouncedIsServed
  BY <1>1 DEF IInv, Answered, AnnouncedIsServed
<1> QED
  BY <1>2, InitIInv, NextIInv, PTL DEF Spec

----------------------------------------------------------------------------
(* Names on their way.                                                     *)

\* The letters a client escapes.
Sent(escape) == Unsafe \cup (IF escape THEN EightBit ELSE {})

LEMMA SentType ==
    ASSUME NEW escape \in BOOLEAN
    PROVE  /\ Sent(escape) \in SUBSET (0..255)
           /\ Sent(escape) \cap (HexDigit \cup {Percent}) = {}
           /\ Slash \notin Sent(escape)
<1>1. Unsafe \in SUBSET (0..255) /\ EightBit \in SUBSET (0..255)
  BY DEF Unsafe, EightBit
<1>2. Unsafe \cap (HexDigit \cup {Percent}) = {} /\ Slash \notin Unsafe
  BY DEF Unsafe, HexDigit, Digit, Percent, Slash
<1>3. EightBit \cap (HexDigit \cup {Percent}) = {} /\ Slash \notin EightBit
  BY DEF EightBit, HexDigit, Digit, Percent, Slash
<1> QED
  BY <1>1, <1>2, <1>3 DEF Sent

LEMMA RequestWhole ==
    ASSUME NEW path, ~ Has(path, {63, 35}), DOMAIN path = 1..Len(path), NEW escape
    PROVE  requestPath(path, escape) = Spelling(path, Sent(escape))
<1>1. {i \in 1..Len(path) : path[i] \in {63, 35}} = {}
  BY DEF Has
<1>2. SelectInSeq(path, LAMBDA ch : ch \in {63, 35}) = 0
  BY <1>1 DEF SelectInSeq
<1>3. requestPath(path, escape) =
         FlattenSeq([i \in DOMAIN path |-> IF path[i] \in Sent(escape)
                                           THEN escaped(path[i]) ELSE <<path[i]>>])
  BY <1>2, Zenon DEF requestPath, Sent
<1> QED
  BY <1>3, Zenon DEF Spelling, Letters, Letter

\* A path is requested with its slash, and its letters escaped or not.
LEMMA RequestSlashed ==
    ASSUME NEW value \in Seq(Nat), ~ Has(value, {63, 35}), NEW escape \in BOOLEAN
    PROVE  /\ requestPath(<<Slash>> \o value, escape) = <<Slash>> \o Spelling(value, Sent(escape))
           /\ Spelling(value, Sent(escape)) \in Seq(Nat)
<1> DEFINE path == <<Slash>> \o value
           S == Nat \ {63, 35}
<1>1. value \in Seq(S) /\ Slash \in S /\ S \subseteq Nat
  BY HasNone DEF Slash
<1>2. path \in Seq(S) /\ path \in Seq(Nat)
  <2> HIDE DEF S
  <2>1. Slash \in Nat
    BY <1>1
  <2> QED
    BY <1>1, <2>1, Prepended
<1> HIDE DEF path
<1>3. ~ Has(path, {63, 35}) /\ DOMAIN path = 1..Len(path)
  BY <1>2, HasNone
<1>4. requestPath(path, escape) = Spelling(path, Sent(escape))
  BY <1>3, RequestWhole
<1>5. Sent(escape) \in SUBSET (0..255) /\ Slash \in Nat \ Sent(escape)
  BY <1>1, SentType
<1>6. Spelling(<<Slash>> \o value, Sent(escape)) = <<Slash>> \o Spelling(value, Sent(escape))
  BY <1>5, SpellingLetter
<1>7. Spelling(value, Sent(escape)) \in Seq(Nat)
  BY <1>5, SpellingType
<1> QED
  BY <1>4, <1>6, <1>7 DEF path

\* What urlEncode makes is a segment: it has no separator, and nothing that
\* is escaped on its way.
LEMMA EncodedLetters ==
    ASSUME NEW value \in Seq(Nat), NEW escape \in BOOLEAN
    PROVE  /\ urlEncode(value) \in Seq(Nat)
           /\ ~ Has(urlEncode(value), {63, 35})
           /\ ~ Has(urlEncode(value), {Slash})
           /\ Spelling(urlEncode(value), Sent(escape)) = urlEncode(value)
<1> DEFINE S == (Nat \ Reserved) \cup {Percent} \cup HexUpper
           e == urlEncode(value)
<1>1. Reserved \in SUBSET (0..255)
  BY DEF Reserved
<1>2. e \in Seq(S)
  BY <1>1, EncodeIsSpelling, SpellingLetters
<1>3. Percent \in Nat /\ HexUpper \subseteq Nat
  BY DEF Percent, HexUpper
<1>4. {63, 35} \subseteq Reserved /\ Slash \in Reserved
  BY DEF Reserved, Unreserved, Digit, Upper, Lower, Slash
<1>5. Unsafe \subseteq Reserved
  BY DEF Reserved, Unreserved, Digit, Upper, Lower, Unsafe
<1>6. EightBit \subseteq Reserved
  BY DEF Reserved, Unreserved, Digit, Upper, Lower, EightBit
<1>7. Percent \notin {63, 35} \cup {Slash} \cup Unsafe \cup EightBit
  BY DEF Percent, Slash, Unsafe, EightBit
<1>8. HexUpper \cap ({63, 35} \cup {Slash} \cup Unsafe \cup EightBit) = {}
  BY DEF HexUpper, Slash, Unsafe, EightBit
<1>9. S \subseteq Nat \ {63, 35} /\ S \subseteq Nat \ {Slash} /\ S \subseteq Nat \ Sent(escape)
  BY <1>3, <1>4, <1>5, <1>6, <1>7, <1>8, Zenon DEF Sent
<1> HIDE DEF S, e
<1>10. e \in Seq(Nat \ {63, 35}) /\ e \in Seq(Nat \ {Slash}) /\ e \in Seq(Nat \ Sent(escape))
  BY <1>2, <1>9, SeqMonotonic
<1>11. e \in Seq(Nat)
  BY <1>10, SeqMonotonic
<1>12. ~ Has(e, {63, 35}) /\ ~ Has(e, {Slash})
  BY <1>10, <1>11, HasNone
<1>13. Spelling(e, Sent(escape)) = e
  BY <1>10, SentType, SpellingSame
<1> QED
  BY <1>11, <1>12, <1>13 DEF e

\* A name a client escapes or not has no slash if it had none.
LEMMA SpelledSegment ==
    ASSUME NEW value \in Seq(Nat), ~ Has(value, {Slash}), NEW escape \in BOOLEAN
    PROVE  ~ Has(Spelling(value, Sent(escape)), {Slash})
<1> DEFINE A == Nat \ {Slash}
           S == (A \ Sent(escape)) \cup {Percent} \cup HexUpper
           e == Spelling(value, Sent(escape))
<1>1. value \in Seq(A)
  BY HasNone
<1>2. e \in Seq(S)
  BY <1>1, SentType, SpellingLetters
<1>3. S \subseteq Nat \ {Slash}
  BY DEF Percent, HexUpper, Slash
<1> HIDE DEF S, e
<1>4. e \in Seq(Nat \ {Slash})
  BY <1>2, <1>3, SeqMonotonic
<1>5. e \in Seq(Nat)
  BY <1>4, SeqMonotonic
<1> QED
  BY <1>4, <1>5, HasNone DEF e

\* A last letter that is not escaped may as well be appended afterwards.
LEMMA EncodeAppend ==
    ASSUME NEW value \in Seq(Nat), NEW c \in Nat \ Reserved
    PROVE  urlEncode(Append(value, c)) = urlEncode(value) \o <<c>>
<1> DEFINE w == Append(value, c)
           ls == Letters(value, Reserved)
           ll == Append(ls, <<c>>)
           n == Len(value)
<1>0. Reserved \in SUBSET (0..255)
  BY DEF Reserved
<1>1. /\ n \in Nat /\ w \in Seq(Nat) /\ Len(w) = n + 1 /\ w[n + 1] = c
      /\ \A i \in 1..n : w[i] = value[i]
  OBVIOUS
<1>2. ls \in Seq(Seq(Nat)) /\ Len(ls) = n /\ \A i \in 1..n : ls[i] = Letter(value[i], Reserved)
  BY <1>0, LettersType
<1>3. Letter(c, Reserved) = <<c>> /\ <<c>> \in Seq(Nat)
  BY DEF Letter
<1> HIDE DEF ls, w, n
<1>4. /\ ll \in Seq(Seq(Nat)) /\ Len(ll) = n + 1 /\ ll[n + 1] = <<c>>
      /\ \A i \in 1..n : ll[i] = ls[i]
  BY <1>1, <1>2, <1>3
<1>5. /\ Letters(w, Reserved) \in Seq(Seq(Nat)) /\ Len(Letters(w, Reserved)) = n + 1
      /\ \A i \in 1..n + 1 : Letters(w, Reserved)[i] = Letter(w[i], Reserved)
  <2>1. /\ Letters(w, Reserved) \in Seq(Seq(Nat)) /\ Len(Letters(w, Reserved)) = Len(w)
        /\ \A i \in 1..Len(w) : Letters(w, Reserved)[i] = Letter(w[i], Reserved)
    BY <1>0, <1>1, LettersType
  <2> QED
    BY <1>1, <2>1
<1> HIDE DEF ll
<1>6. ASSUME NEW i \in 1..n + 1
      PROVE  Letters(w, Reserved)[i] = ll[i]
  <2>1. CASE i = n + 1
    BY <1>1, <1>3, <1>4, <1>5, <2>1
  <2>2. CASE i # n + 1
    <3>1. i \in 1..n
      BY <1>1, <2>2
    <3> QED
      BY <1>1, <1>2, <1>4, <1>5, <3>1
  <2> QED
    BY <2>1, <2>2
<1>7. Letters(w, Reserved) = ll
  BY <1>4, <1>5, <1>6, SeqEqual
<1>8. FlattenSeq(ll) = FlattenSeq(ls) \o <<c>>
  BY <1>2, <1>3, FlattenAppend DEF ll
<1>9. urlEncode(w) = FlattenSeq(ll) /\ urlEncode(value) = FlattenSeq(ls)
  BY <1>1, <1>7, EncodeIsSpelling DEF Spelling, ls
<1> QED
  BY <1>8, <1>9 DEF w

----------------------------------------------------------------------------
(* The file picked is the file served.                                     *)

\* The URL a client has leads to the file picked: the one of Play here and of
\* a playlist by its encoded name, the one sent to the renderer by its name as
\* it is, unless that is taken for a URL.
LeadsTo(state) ==
    /\ (\/ state.step = "play"
        \/ state.step = "live" /\ Last(state.picked[2]) = Ext.mp4) =>
          /\ state.picked \in File
          /\ state.url.kind = state.picked[1]
          /\ state.url.path = <<Slash>> \o urlEncode(state.picked[2])
    /\ state.step = "cast" =>
          /\ state.picked \in File
          /\ state.url.kind = state.picked[1]
          /\ state.picked[2][1] # Http => state.url.path = <<Slash>> \o state.picked[2]

Leads == \A c \in Client : LeadsTo(client[c])

LEMMA NameOK ==
    ASSUME NEW f \in File
    PROVE  /\ f[2] \in Seq(Nat) /\ f[2] # << >> /\ isSafeFileName(f[2])
           /\ ~ Has(f[2], {Slash})
           /\ f[2][1] # Slash
<1>1. f[2] \in Seq(Nat) /\ isSafeFileName(f[2])
  BY FileAssumption, FileNameAssumption
<1>2. f[2] # << >>
  BY <1>1 DEF isSafeFileName
<1>3. ~ Has(f[2], {Slash})
  BY <1>1 DEF isSafeFileName, Has
<1>4. 1 \in DOMAIN f[2]
  <2>1. Len(f[2]) \in Nat /\ Len(f[2]) # 0
    BY <1>1, <1>2, EmptySeq, SeqEqual
  <2> QED
    BY <1>1, <2>1
<1>5. f[2][1] # Slash
  BY <1>3, <1>4 DEF Has
<1> QED
  BY <1>1, <1>2, <1>3, <1>5

\* The URL in the playlist of a file is the URL of the file: its extension
\* needs no escapes.
LEMMA PlaylistOfFile ==
    ASSUME NEW name \in Seq(Nat), name # << >>, Last(name) = Ext.mp4
    PROVE  /\ playlistUrl(urlEncode(Front(name))).kind = "video"
           /\ playlistUrl(urlEncode(Front(name))).path = <<Slash>> \o urlEncode(name)
<1> DEFINE front == Front(name)
           n == Len(name)
<1>1. n \in Nat \ {0} /\ n \in 1..n
  <2>1. n \in Nat /\ n # 0
    BY EmptySeq, SeqEqual
  <2> QED
    BY <2>1
<1>2. front \in Seq(Nat)
  <2>1. \A i \in 1..n - 1 : name[i] \in Nat
    BY <1>1
  <2>2. 1 \in Int /\ n - 1 \in Int
    BY <1>1
  <2>3. SubSeq(name, 1, n - 1) \in Seq(Nat)
    BY <2>1, <2>2, SubSeqProperties
  <2> QED
    BY <2>3 DEF Front
<1>3. Ext.mp4 \in Nat \ Reserved
  BY DEF Ext, Reserved
<1>4. name[n] = Ext.mp4
  BY DEF Last
<1>5. Append(front, Ext.mp4) = name
  <2>1. SubSeq(name, 1, n) = SubSeq(name, 1, n - 1) \o <<name[n]>>
    BY <1>1, SubSeqRecursiveSecond
  <2>2. SubSeq(name, 1, n) = name
    BY SubSeqFull
  <2>3. Append(front, Ext.mp4) = front \o <<Ext.mp4>>
    BY <1>2, <1>3, AppendIsConcat
  <2> QED
    BY <1>4, <2>1, <2>2, <2>3 DEF Front
<1> HIDE DEF front
<1>6. urlEncode(name) = urlEncode(front) \o <<Ext.mp4>>
  BY <1>2, <1>3, <1>5, EncodeAppend
<1>7. (<<Slash>> \o urlEncode(front)) \o <<Ext.mp4>> = <<Slash>> \o urlEncode(name)
  <2>1. urlEncode(front) \in Seq(Nat)
    BY <1>2, EncodedLetters
  <2>2. <<Slash>> \in Seq(Nat) /\ <<Ext.mp4>> \in Seq(Nat)
    BY <1>3 DEF Slash
  <2> QED
    BY <1>6, <2>1, <2>2, ConcatAssociative
<1>8. <<Slash>> \o urlEncode(front) \o <<Ext.mp4>> = (<<Slash>> \o urlEncode(front)) \o <<Ext.mp4>>
  OBVIOUS
<1> QED
  BY <1>7, <1>8 DEF playlistUrl, front

LEMMA InitLeads == Init => Leads
BY DEF Init, Leads, LeadsTo, Idle

LEMMA ApproachLeads ==
    ASSUME Leads, client = [c \in Client |-> client[c]],
           NEW c \in Client, NEW state, LeadsTo(state), Approach(c, state)
    PROVE  Leads'
<1>1. \A d \in Client : client'[d] = state \/ client'[d] = client[d]
  BY DEF Approach
<1> QED
  BY <1>1, Zenon DEF Leads

LEMMA PickLeads ==
    ASSUME Leads, IInv, NEW c \in Client, NEW f \in File, f[1] = "video",
           PlayHere(c, f[2]) \/ LiveStream(c, f[2])
    PROVE  Leads'
<1>1. <<"video", f[2]>> \in File
  BY FileOK
<1>2. client = [d \in Client |-> client[d]]
  BY DEF IInv
<1>3. CASE PlayHere(c, f[2])
  <2> DEFINE state == [step |-> "play", picked |-> <<"video", f[2]>>,
                       url |-> listUrl(f[2]), mime |-> "none"]
  <2>1. LeadsTo(state)
    BY <1>1 DEF LeadsTo, listUrl
  <2>2. Approach(c, state)
    BY <1>3 DEF PlayHere
  <2> QED
    BY <1>2, <2>1, <2>2, ApproachLeads
<1>4. CASE LiveStream(c, f[2])
  <2> DEFINE url == playlistUrl(urlEncode(Front(f[2])))
             state == [step |-> "live", picked |-> <<"video", f[2]>>,
                       url |-> url, mime |-> "none"]
  <2>1. Approach(c, state)
    BY <1>4 DEF LiveStream
  <2>2. Last(f[2]) = Ext.mp4 =>
           url.kind = "video" /\ url.path = <<Slash>> \o urlEncode(f[2])
    BY NameOK, PlaylistOfFile
  <2> HIDE DEF url
  <2>3. LeadsTo(state)
    BY <1>1, <2>2 DEF LeadsTo
  <2> QED
    BY <1>2, <2>1, <2>3, ApproachLeads
<1> QED
  BY <1>3, <1>4, Zenon

LEMMA SendLeads ==
    ASSUME Leads, IInv, NEW c \in Client, NEW f \in File, NEW slash \in BOOLEAN,
           SendToTv(c, f[1], f[2], slash)
    PROVE  Leads'
<1> DEFINE path == IF slash THEN <<Slash>> \o f[2] ELSE f[2]
           url == castUrl(f[1], path)
           state == [step |-> "cast", picked |-> <<f[1], f[2]>>,
                     url |-> url, mime |-> Announced(f[1], f[2])]
<1>1. <<f[1], f[2]>> = f
  BY FileOK
<1>2. Approach(c, state)
  BY DEF SendToTv
<1>3. (<<Slash>> \o f[2])[1] = Slash
  BY NameOK, Prepended DEF Slash
<1>4. url.kind = f[1]
  BY DEF castUrl
<1>5. f[2][1] # Http => url.path = <<Slash>> \o f[2]
  BY <1>3, NameOK DEF castUrl
<1> HIDE DEF url
<1>6. LeadsTo(state)
  BY <1>1, <1>4, <1>5 DEF LeadsTo
<1> QED
  BY <1>2, <1>6, ApproachLeads DEF IInv

LEMMA WalkLeads ==
    ASSUME Leads, IInv, NEW c \in Client,
           \/ Leave(c) \/ descriptionXml(c) \/ profileXml(c) \/ FollowItem(c)
           \/ \E words \in SUBSET {"Browse", "GetSystemUpdateID"} :
                  contentDirectoryControl(c, words)
    PROVE  Leads'
<1>1. ASSUME NEW state, Approach(c, state),
             state.step \in {"idle", "described", "profiled", "browsed", "follow"}
      PROVE  Leads'
  <2>1. LeadsTo(state)
    BY <1>1 DEF LeadsTo
  <2> QED
    BY <1>1, <2>1, ApproachLeads DEF IInv
<1>2. ASSUME NEW to \in {"idle", "described", "profiled", "browsed"}
      PROVE  [Idle EXCEPT !.step = to].step = to /\ Idle.step = "idle"
  BY DEF Idle
<1>3. ASSUME NEW from, NEW to \in {"idle", "described", "profiled", "browsed"},
             Walk(c, from, to)
      PROVE  Leads'
  BY <1>1, <1>2, <1>3 DEF Walk
<1>4. CASE Leave(c)
  BY <1>1, <1>2, <1>4 DEF Leave
<1>5. CASE FollowItem(c)
  BY <1>1, <1>5 DEF FollowItem
<1> QED
  BY <1>3, <1>4, <1>5 DEF descriptionXml, profileXml, contentDirectoryControl

LEMMA NextLeads == IInv /\ Leads /\ [Next]_vars => Leads'
<1> SUFFICES ASSUME IInv, Leads, [Next]_vars PROVE Leads'
  OBVIOUS
<1>1. CASE UNCHANGED client
  BY <1>1 DEF Leads, LeadsTo
<1>2. CASE UNCHANGED vars
  BY <1>1, <1>2 DEF vars
<1>3. ASSUME NEW f \in File, AddFile(f) \/ RemoveFile(f) PROVE Leads'
  BY <1>1, <1>3 DEF AddFile, RemoveFile
<1>4. ASSUME NEW c \in Client, NEW escape \in BOOLEAN, List(c) \/ Fetch(c, escape)
      PROVE  Leads'
  BY <1>1, <1>4 DEF List, Fetch
<1>5. ASSUME NEW kind \in Kind, NEW segment \in Segment, Request(kind, segment)
      PROVE  Leads'
  BY <1>1, <1>5 DEF Request
<1> QED
  BY <1>2, <1>3, <1>4, <1>5, PickLeads, SendLeads, WalkLeads DEF Next

\* The response has no other file than f, and has f if it is there.
Gives(response, f) == /\ response.status = 200 => response.file = f
                      /\ f \in library => response.status = 200

\* A segment that decodes to the name of f is answered with f.
LEMMA SegmentServes ==
    ASSUME NEW f \in File, NEW sent, urlDecode(sent) = f[2], NEW request
    PROVE  Gives(serve(f[1], sent, request), f)
<1>1. mediaFilePath(f[1], sent) = f
  BY NameOK, FileOK DEF mediaFilePath
<1> QED
  BY <1>1 DEF serve, Gives

LEMMA PathServes ==
    ASSUME NEW f \in File, NEW escape \in BOOLEAN, NEW request, NEW url,
           url.kind = f[1], NEW value \in Seq(Nat), url.path = <<Slash>> \o value,
           ~ Has(value, {63, 35}), ~ Has(value, {Slash}), urlDecode(value) = f[2]
    PROVE  Gives(respond(url, escape, request), f)
<1> DEFINE sent == Spelling(value, Sent(escape))
           path == requestPath(url.path, escape)
<1>1. path = <<Slash>> \o sent /\ sent \in Seq(Nat)
  BY RequestSlashed
<1>2. ~ Has(sent, {Slash})
  BY SpelledSegment
<1>3. urlDecode(sent) = f[2]
  BY SentType, DecodeSpelling
<1> HIDE DEF sent, path
<1>4. path # << >> /\ path[1] = Slash /\ Tail(path) = sent
  <2>1. path \in Seq(Nat) /\ Len(path) = Len(sent) + 1 /\ path[1] = Slash
    BY <1>1, Prepended DEF Slash
  <2>2. path # << >> /\ Len(path) # 0
    BY <1>1, <2>1, EmptySeq
  <2>3. path = <<Slash>> \o Tail(path) /\ Tail(path) \in Seq(Nat)
    BY <2>1, <2>2, HeadTail
  <2>4. Tail(path) = sent
    BY <1>1, <2>3, CancelPrepended DEF Slash
  <2> QED
    BY <2>1, <2>2, <2>4
<1>5. respond(url, escape, request) = serve(f[1], sent, request)
  BY <1>2, <1>4, Zenon DEF respond, path
<1>6. Gives(serve(f[1], sent, request), f)
  BY <1>3, SegmentServes
<1> QED
  BY <1>5, <1>6

\* The segment of a name encoded, and of a plain name.
LEMMA FetchServes ==
    ASSUME IInv, Leads, NEW c \in Client, NEW escape \in BOOLEAN, Fetch(c, escape)
    PROVE  PickIsServed' /\ CastIsServed'
<1> DEFINE r == client[c]
           f == r.picked
<1>1. /\ answer' = respond(r.url, escape, r)
      /\ library' = library
      /\ LeadsTo(r)
  BY DEF Fetch, Leads
<1>2. answer'.step = r.step /\ answer'.picked = f
  BY <1>1 DEF respond, serve, Unanswered
<1> HIDE DEF r
<1>3. ASSUME \/ r.step = "play"
             \/ r.step = "live" /\ Last(f[2]) = Ext.mp4
      PROVE  Gives(answer', f)
  <2>1. f \in File /\ r.url.kind = f[1] /\ r.url.path = <<Slash>> \o urlEncode(f[2])
    BY <1>1, <1>3 DEF LeadsTo
  <2>2. f[2] \in Seq(Nat)
    BY <2>1, NameOK
  <2>3. /\ urlEncode(f[2]) \in Seq(Nat)
        /\ ~ Has(urlEncode(f[2]), {63, 35})
        /\ ~ Has(urlEncode(f[2]), {Slash})
        /\ urlDecode(urlEncode(f[2])) = f[2]
    BY <2>2, EncodedLetters, DecodeEncode
  <2> QED
    BY <1>1, <2>1, <2>3, PathServes
<1>4. ASSUME r.step = "cast", Plain(f[2])
      PROVE  Gives(answer', f)
  <2>1. f \in File /\ r.url.kind = f[1] /\ r.url.path = <<Slash>> \o f[2]
    BY <1>1, <1>4 DEF LeadsTo, Plain
  <2>2. f[2] \in Seq(Nat) /\ ~ Has(f[2], {Slash})
    BY <2>1, NameOK
  <2>3. ~ Has(f[2], {63, 35}) /\ urlDecode(f[2]) = f[2]
    BY <1>4 DEF Plain
  <2> QED
    BY <1>1, <2>1, <2>2, <2>3, PathServes
<1>5. ASSUME Gives(answer', f)
      PROVE  Plays(answer.picked)' /\ Finds(answer.picked)'
  BY <1>1, <1>2, <1>5 DEF Gives, Plays, Finds
<1>6. PickIsServed'
  BY <1>2, <1>3, <1>5 DEF PickIsServed
<1>7. CastIsServed'
  BY <1>2, <1>4, <1>5 DEF CastIsServed, Plain
<1> QED
  BY <1>6, <1>7

LEMMA NextServed ==
    IInv /\ Leads /\ PickIsServed /\ CastIsServed /\ [Next]_vars
        => PickIsServed' /\ CastIsServed'
<1> SUFFICES ASSUME IInv, Leads, PickIsServed, CastIsServed, [Next]_vars
             PROVE  PickIsServed' /\ CastIsServed'
  OBVIOUS
<1>1. CASE UNCHANGED vars
  BY <1>1 DEF vars, PickIsServed, CastIsServed, Plays, Finds
<1>2. CASE answer'.step \in {"none", "idle"}
  BY <1>2 DEF PickIsServed, CastIsServed
<1>3. CASE answer' = Unanswered
  BY <1>2, <1>3 DEF Unanswered
<1>4. ASSUME NEW kind \in Kind, NEW segment \in Segment, Request(kind, segment)
      PROVE  answer'.step = "idle"
  BY <1>4 DEF Request, serve, Idle
<1>5. ASSUME NEW c \in Client, NEW state, Approach(c, state) PROVE answer' = Unanswered
  BY <1>5 DEF Approach
<1>6. ASSUME Next,
             ~ \E c \in Client, escape \in BOOLEAN : Fetch(c, escape),
             ~ \E kind \in Kind, segment \in Segment : Request(kind, segment)
      PROVE  answer' = Unanswered
  BY <1>5, <1>6
  DEF Next, AddFile, RemoveFile, List, Leave, descriptionXml, profileXml, FollowItem,
      contentDirectoryControl, Walk, PlayHere, LiveStream, SendToTv
<1> QED
  BY <1>1, <1>2, <1>3, <1>4, <1>6, FetchServes DEF Next

\* "Play here - streams the file in the browser player", and the playlist of a
\* file whose extension is a lower-case .mp4, the extension the playlist's line
\* is written with: whatever else the name of the file picked has in it, that file is the one
\* served, and it is served as long as it is there.
THEOREM PickedIsServed == Spec => []PickIsServed
<1>1. Init => PickIsServed /\ CastIsServed
  BY DEF Init, PickIsServed, CastIsServed, Unanswered
<1> QED
  BY <1>1, InitIInv, NextIInv, InitLeads, NextLeads, NextServed, PTL DEF Spec

\* "Send to TV": the same of every plain name, with or without a slash before
\* it, however the renderer escapes it.
THEOREM SentPlainIsServed == Spec => []CastIsServed
<1>1. Init => PickIsServed /\ CastIsServed
  BY DEF Init, PickIsServed, CastIsServed, Unanswered
<1> QED
  BY <1>1, InitIInv, NextIInv, InitLeads, NextLeads, NextServed, PTL DEF Spec

\* What CastIsServed asks of a name is little: every name without percent sign,
\* question mark and number sign that does not start like a URL is plain.
THEOREM PlainNames ==
    ASSUME NEW name \in Seq(Nat), ~ Has(name, {Percent, 63, 35}), name[1] # Http
    PROVE  Plain(name)
<1> DEFINE S == Nat \ {Percent, 63, 35}
           W == {v \in Seq(S) : v \in Seq(Nat) /\ urlDecode(v) = v}
<1>1. << >> \in W
  BY EmptySeq, DecodeEmpty
<1>2. ASSUME NEW v \in Seq(S), NEW c \in S, v \in W
      PROVE  <<c>> \o v \in W
  BY <1>2, Prepended, DecodeLetter
<1>3. Seq(S) \subseteq W
  <2> HIDE DEF S, W
  <2> QED
    BY <1>1, <1>2, SeqSet
<1>4. urlDecode(name) = name
  BY <1>3, HasNone
<1>5. ~ Has(name, {63, 35})
  BY DEF Has
<1> QED
  BY <1>4, <1>5 DEF Plain
=============================================================================
