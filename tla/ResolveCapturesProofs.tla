----------------------- MODULE ResolveCapturesProofs -----------------------
(***************************************************************************)
(* For any listings, payloads, URLs and plans, and whatever the sources    *)
(* answer: what is stored as a response is what was listed, and what is    *)
(* stored as a revisit has its payload before it.  First what the decoders *)
(* guarantee of one result, then that nothing between a download and the   *)
(* archive changes a result, then where the capture is that a revisit      *)
(* names, from the moment a worker decides on it; then that no payload is  *)
(* stored twice, and that every selected capture is accounted for.         *)
(***************************************************************************)
EXTENDS ResolveCaptures, FiniteSetTheorems, SequenceTheorems, WellFoundedInduction, TLAPS

Decodes(result) == result # Corrupt /\ result # Refused

(* What the kind of a result says of its body. *)
Matches(kind, body, digest) ==
    /\ kind \in {"exact", "soft", "other"}
    /\ kind = "exact" => body = digest
    /\ kind = "soft" => digest = Missing \/ body \o <<"n">> = digest

(* What both decoders guarantee of a result for a listed capture. *)
Exactly(result, c) ==
    /\ result.resource = Unquoted[c.url] /\ result.date = c.time
    /\ c.status \in {Unknown, result.status}
    /\ Matches(result.kind, result.body, c.digest)

----------------------------------------------------------------------------
(* Wayback Machine: the capture asked for, and no stand-in for a lost one. *)
LEMMA MementoAsListed ==
    ASSUME NEW c, NEW r \in Playbacks, Decodes(DecodeMemento(r, c))
    PROVE  LET result == DecodeMemento(r, c) IN
           /\ Exactly(result, c) /\ ~result.repaired
           /\ result.body # Stub
           /\ result.body = <<>> => result.status \in Redirects \/ c.digest \in {Missing, <<>>}
  <1> DEFINE result == DecodeMemento(r, c)
  <1>1. /\ ~Unusable(r, c) /\ r.time = c.time /\ SameOriginalUrl(r.url, c.url) /\ SameStatus(r, c)
        /\ result = Result(r, r.body, Matched(r.body, c), FALSE)
    BY DEF DecodeMemento, Decodes
  <1>2. /\ result.body = r.body /\ result.date = r.time /\ result.status = r.status
        /\ result.resource = Unquoted[r.url] /\ result.repaired = FALSE
        /\ result.kind = Matched(r.body, c)
    BY <1>1 DEF Result
  <1>3. Exactly(result, c)
    <2>1. Matches(Matched(r.body, c), r.body, c.digest)
      BY DEF Matches, Matched
    <2> QED  BY <1>1, <1>2, <2>1 DEF Exactly, SameOriginalUrl, SameStatus
  <1>4. r.body # Stub
    <2>1. Stub # <<>> /\ Head(Stub) = "stub"  BY DEF Stub
    <2> QED  BY <1>1, <2>1 DEF Unusable
  <1>5. r.body = <<>> => r.status \in Redirects \/ c.digest \in {Missing, <<>>}
    BY <1>1 DEF Unusable
  <1> QED  BY <1>2, <1>3, <1>4, <1>5

----------------------------------------------------------------------------
(* Common Crawl: a block is accepted for the capture it identifies, and is *)
(* called exact when it has the listed digest only.                        *)
LEMMA BlockAsListed ==
    ASSUME NEW c, c.url \in Urls, NEW r, r.url \in Urls, NEW block, NEW repaired \in BOOLEAN,
           Decodes(DecodeBlock(r, block, c, repaired))
    PROVE  LET result == DecodeBlock(r, block, c, repaired) IN
           /\ Exactly(result, c) /\ result.repaired = repaired
           /\ result.kind = "exact" => result.body = c.digest
  <1> DEFINE result == DecodeBlock(r, block, c, repaired)
             kind == IF Tail(block) = c.digest THEN "exact" ELSE "other"
  <1>1. Identified(r, c, repaired) /\ result = Result(r, Tail(block), kind, repaired)
    BY DEF DecodeBlock, Decodes
  <1>2. /\ result.body = Tail(block) /\ result.date = r.time /\ result.status = r.status
        /\ result.resource = Unquoted[r.url] /\ result.repaired = repaired /\ result.kind = kind
    BY <1>1 DEF Result
  <1>3. Unquoted[r.url] = Unquoted[c.url]
    <2>1. CASE repaired
      <3>1. Escaped[r.url] = Escaped[c.url]  BY <1>1, <2>1 DEF Identified, RecoveryUrl
      <3> QED  BY <3>1, DecodingAssumption
    <2>2. CASE ~repaired  BY <1>1, <2>2 DEF Identified
    <2> QED  BY <2>1, <2>2
  <1>4. Exactly(result, c)
    <2>1. Matches(kind, Tail(block), c.digest)
      BY DEF Matches
    <2> QED  BY <1>1, <1>2, <1>3, <2>1 DEF Exactly, Identified, SameStatus
  <1> QED  BY <1>2, <1>4

LEMMA RecordAsListed ==
    ASSUME NEW c, c.url \in Urls, NEW r, r.url \in Urls, NEW length, NEW ends, NEW repaired \in BOOLEAN,
           Decodes(DecodeRecord(r, length, ends, c, repaired))
    PROVE  LET result == DecodeRecord(r, length, ends, c, repaired) IN
           /\ Exactly(result, c) /\ result.repaired = repaired
           /\ result.kind = "exact" => result.body = c.digest
  <1>1. DecodeRecord(r, length, ends, c, repaired)
          = DecodeBlock(r, SubSeq(r.rest, 1, length), c, repaired)
    BY DEF DecodeRecord, Decodes
  <1> QED  BY <1>1, BlockAsListed

(* A repaired record has the listed digest, and only one repair does. *)
LEMMA RecoveryIsVerified ==
    ASSUME NEW c, c.url \in Urls, NEW r, NEW format, r \in Delivered(format), Decodes(RecoverArc(r, c))
    PROVE  LET result == RecoverArc(r, c) IN
           /\ Exactly(result, c) /\ result.body = c.digest
           /\ \A other \in Candidates(r, c) : other.kind = "exact" => other = result
  <1> DEFINE result == RecoverArc(r, c)
             accepted == {other \in Candidates(r, c) : other.kind = "exact"}
  <1>1. Cardinality(accepted) = 1 /\ result = CHOOSE other \in accepted : TRUE
    BY DEF RecoverArc, Decodes
  <1>2. accepted # {}
    BY <1>1, FS_EmptySet
  <1>3. result \in accepted
    BY <1>1, <1>2
  <1>4. PICK length \in Lengths(r) : result = DecodeArc([r EXCEPT !.url = RecoveryUrl(@)], length, c, TRUE)
    BY <1>3 DEF Candidates
  <1>5. [r EXCEPT !.url = RecoveryUrl(@)].url \in Urls
    <2>1. r.url \in Urls /\ [r EXCEPT !.url = RecoveryUrl(@)].url = RecoveryUrl(r.url)
      BY DEF Delivered
    <2> QED  BY <2>1, DecodingAssumption DEF RecoveryUrl
  <1>6. Exactly(result, c) /\ (result.kind = "exact" => result.body = c.digest)
    <2> DEFINE repair == [r EXCEPT !.url = RecoveryUrl(@)]
    <2>1. result = DecodeRecord(repair, length, {<<>>, <<"n">>}, c, TRUE)
      BY <1>4 DEF DecodeArc
    <2>2. repair.url \in Urls /\ Decodes(result)
      BY <1>5
    <2> HIDE DEF result, repair
    <2> QED  BY <2>1, <2>2, RecordAsListed
  <1>7. ASSUME NEW other \in accepted PROVE other = result
    BY <1>1, <1>3, FS_Singleton
  <1> QED  BY <1>3, <1>6, <1>7

LEMMA CommonCrawlAsListed ==
    ASSUME NEW c, c.url \in Urls, NEW r, NEW format, r \in Delivered(format), Decodes(DecodeCommonCrawl(r, c))
    PROVE  LET result == DecodeCommonCrawl(r, c) IN
           Exactly(result, c) /\ (result.repaired => result.body = c.digest)
  <1> DEFINE result == DecodeCommonCrawl(r, c)
  <1>1. r.url \in Urls
    BY DEF Delivered
  <1>2. CASE r.format = "warc"
    <2>1. result = DecodeRecord(r, r.declared, {<<"e">>}, c, FALSE)
      BY <1>2 DEF DecodeCommonCrawl, Decodes
    <2> QED  BY <2>1, <1>1, RecordAsListed
  <1>3. CASE r.format # "warc" /\ StrictArc(r, c) = Corrupt
    <2>1. result = RecoverArc(r, c)
      BY <1>3 DEF DecodeCommonCrawl, Decodes
    <2> QED  BY <2>1, RecoveryIsVerified
  <1>4. CASE r.format # "warc" /\ StrictArc(r, c) # Corrupt
    <2>1. result = StrictArc(r, c) /\ result # Refused
      BY <1>4 DEF DecodeCommonCrawl, Decodes
    <2>2. result = DecodeRecord(r, r.declared, {<<>>, <<"n">>}, c, FALSE)
      BY <1>4, <2>1 DEF StrictArc, DecodeArc
    <2> QED  BY <1>1, <1>4, <2>1, <2>2, RecordAsListed DEF Decodes
  <1> QED  BY <1>2, <1>3, <1>4

(* Whatever a source answers to a request for a listed capture. *)
LEMMA AcquiredAsListed ==
    ASSUME NEW source \in Sources, NEW c \in Captures, NEW result \in Results[source][c],
           NEW o, o.capture = c, o.result = result, o.source = source
    PROVE  Listed(o) /\ Matches(result.kind, result.body, c.digest)
  <1>1. c.url \in Urls
    BY ResolveAssumption
  <1>2. result \in Decoded(source, c) /\ Decodes(result)
    BY DEF Results, Acquired, Decodes
  <1>3. CASE source = "wayback"
    <2>1. PICK r \in Playbacks : result = DecodeMemento(r, c)
      BY <1>2, <1>3 DEF Decoded
    <2> QED  BY <1>2, <2>1, MementoAsListed DEF Listed, Exactly
  <1>4. CASE source # "wayback"
    <2>1. PICK r \in Delivered("arc") \cup Delivered("warc") : result = DecodeCommonCrawl(r, c)
      BY <1>2, <1>4 DEF Decoded
    <2>2. Exactly(result, c) /\ (result.repaired => result.body = c.digest)
      BY <1>1, <1>2, <2>1, CommonCrawlAsListed
    <2> QED  BY <1>4, <2>2 DEF Listed, Exactly
  <1> QED  BY <1>3, <1>4

----------------------------------------------------------------------------
(* From the worker through the writer to the archive: an outcome that is a *)
(* download is as listed wherever it is, and the archive holds no other    *)
(* outcomes than downloads and revisits.                                   *)
Faithful(o) ==
    o.capture \in Captures /\ (o.kind \notin {"existing", "failure", "revisit"} =>
        Listed(o) /\ Matches(o.kind, o.result.body, o.capture.digest))
Sound(outs) == outs \in Seq({outs[i] : i \in DOMAIN outs}) /\ \A i \in DOMAIN outs : Faithful(outs[i])

SelectionInv ==
    /\ plan \in Plans /\ selected \subseteq Captures
    /\ DOMAIN outcomes = {GroupOf(c) : c \in selected}

ListedInv ==
    /\ SelectionInv
    /\ \A g \in DOMAIN outcomes : Sound(outcomes[g])
    /\ Sound(writing)
    /\ Sound(archive) /\ \A i \in DOMAIN archive : archive[i].kind \notin {"existing", "failure"}

(* A sequence is one of its own values. *)
LEMMA SeqOfValues ==
    ASSUME NEW S, NEW values \in Seq(S)
    PROVE  values \in Seq({values[i] : i \in DOMAIN values})
  BY SeqDef

(* There is a first among any listed captures, and none of them is before  *)
(* it in time: the order is lexicographic, on four numbers.                *)
LEMMA LeastExists ==
    ASSUME NEW S, S # {}, NEW f, \A x \in S : f[x] \in Nat
    PROVE  \E x \in S : \A y \in S : f[x] <= f[y]
  <1> DEFINE T == {f[x] : x \in S}
  <1>1. T \subseteq Nat /\ T # {}
    OBVIOUS
  <1>2. PICK t \in T : \A u \in T : <<u, t>> \notin OpToRel(<, Nat)
    BY <1>1, NatLessThanWellFounded, WFMin
  <1>3. ASSUME NEW u \in T PROVE t <= u
    <2>1. t \in Nat /\ u \in Nat  BY <1>1
    <2>2. ~(u < t)  BY <1>2, <2>1 DEF OpToRel
    <2> QED  BY <2>1, <2>2
  <1> QED  BY <1>3

LEMMA FirstExists ==
    ASSUME NEW S, S \subseteq Captures, S # {}
    PROVE  First(S) # {} /\ \A c \in First(S), d \in S : c.time <= d.time
  <1>0. \A c \in S : c.time \in Nat /\ c.urlkey \in Nat /\ c.url \in Nat /\ c.status \in Nat
    BY ResolveAssumption, DecodingAssumption
  <1>1. PICK t \in S : \A d \in S : t.time <= d.time
    <2> DEFINE f == [c \in S |-> c.time]
    <2>1. \A c \in S : f[c] \in Nat  BY <1>0
    <2>2. \E x \in S : \A y \in S : f[x] <= f[y]
      <3> HIDE DEF f
      <3> QED  BY <2>1, LeastExists
    <2> QED  BY <2>2
  <1> DEFINE A == {c \in S : c.time = t.time}
  <1>2. PICK k \in A : \A d \in A : k.urlkey <= d.urlkey
    <2> DEFINE f == [c \in A |-> c.urlkey]
    <2>1. A # {} /\ \A c \in A : f[c] \in Nat  BY <1>0
    <2>2. \E x \in A : \A y \in A : f[x] <= f[y]
      <3> HIDE DEF f, A
      <3> QED  BY <2>1, LeastExists
    <2> QED  BY <2>2
  <1> DEFINE B == {c \in A : c.urlkey = k.urlkey}
  <1>3. PICK u \in B : \A d \in B : u.url <= d.url
    <2> DEFINE f == [c \in B |-> c.url]
    <2>1. B # {} /\ \A c \in B : f[c] \in Nat  BY <1>0
    <2>2. \E x \in B : \A y \in B : f[x] <= f[y]
      <3> HIDE DEF f, B
      <3> QED  BY <2>1, LeastExists
    <2> QED  BY <2>2
  <1> DEFINE C == {c \in B : c.url = u.url}
  <1>4. PICK s \in C : \A d \in C : s.status <= d.status
    <2> DEFINE f == [c \in C |-> c.status]
    <2>1. C # {} /\ \A c \in C : f[c] \in Nat  BY <1>0
    <2>2. \E x \in C : \A y \in C : f[x] <= f[y]
      <3> HIDE DEF f, C
      <3> QED  BY <2>1, LeastExists
    <2> QED  BY <2>2
  <1>5. s \in First(S)
    <2> SUFFICES ASSUME NEW d \in S, Before(d, s) PROVE FALSE
      BY DEF First
    <2>1. s.time = t.time /\ s.urlkey = k.urlkey /\ s.url = u.url /\ k.time = t.time
      OBVIOUS
    <2>2. t.time <= d.time
      BY <1>1
    <2>3. d.time = t.time => k.urlkey <= d.urlkey
      BY <1>2
    <2>4. d.time = t.time /\ d.urlkey = k.urlkey => u.url <= d.url
      BY <1>3
    <2>5. d.time = t.time /\ d.urlkey = k.urlkey /\ d.url = u.url => s.status <= d.status
      BY <1>4
    <2> HIDE DEF A, B, C
    <2>6. d.time \in Nat /\ d.urlkey \in Nat /\ d.url \in Nat /\ d.status \in Nat /\ s \in S
      BY <1>0 DEF A, B, C
    <2>7. s.time \in Nat /\ s.urlkey \in Nat /\ s.url \in Nat /\ s.status \in Nat
      BY <1>0, <2>6
    <2> QED  BY <2>1, <2>2, <2>3, <2>4, <2>5, <2>6, <2>7 DEF Before
  <1>6. ASSUME NEW c \in First(S), NEW d \in S PROVE c.time <= d.time
    BY <1>0, <1>6 DEF First, Before
  <1> QED  BY <1>5, <1>6

LEMMA NothingIsSound == Sound(<<>>)
  BY DEF Sound

LEMMA AppendSound ==
    ASSUME NEW outs, Sound(outs), NEW o, Faithful(o)
    PROVE  /\ Sound(Append(outs, o))
           /\ \A i \in DOMAIN Append(outs, o) : Append(outs, o)[i] = o \/ \E j \in DOMAIN outs : Append(outs, o)[i] = outs[j]
  <1> DEFINE old == {outs[i] : i \in DOMAIN outs}
             longer == Append(outs, o)
  <1>1. outs \in Seq(old \cup {o})
    BY DEF Sound
  <1>2. /\ longer \in Seq(old \cup {o}) /\ Len(longer) = Len(outs) + 1
        /\ longer[Len(outs) + 1] = o /\ \A i \in 1 .. Len(outs) : longer[i] = outs[i]
    BY <1>1, AppendProperties
  <1>3. DOMAIN longer = 1 .. Len(outs) + 1 /\ DOMAIN outs = 1 .. Len(outs) /\ Len(outs) \in Nat
    BY <1>1, <1>2
  <1>4. \A i \in DOMAIN longer : longer[i] = o \/ \E j \in DOMAIN outs : longer[i] = outs[j]
    BY <1>2, <1>3
  <1>5. longer \in Seq({longer[i] : i \in DOMAIN longer})
    BY <1>2, <1>3, SeqOfValues
  <1>6. \A i \in DOMAIN longer : Faithful(longer[i])
    BY <1>4 DEF Sound
  <1> QED  BY <1>4, <1>5, <1>6 DEF Sound

LEMMA TailSound ==
    ASSUME NEW outs, Sound(outs), outs # <<>>
    PROVE  Sound(Tail(outs)) /\ Faithful(Head(outs))
  <1> DEFINE old == {outs[i] : i \in DOMAIN outs}
             rest == Tail(outs)
  <1>1. outs \in Seq(old)
    BY DEF Sound
  <1>2. /\ rest \in Seq(old) /\ Len(rest) = Len(outs) - 1 /\ Head(outs) = outs[1] /\ 1 \in DOMAIN outs
        /\ \A i \in 1 .. Len(rest) : rest[i] = outs[i + 1] /\ i + 1 \in DOMAIN outs
    BY <1>1, HeadTailProperties
  <1>3. rest \in Seq({rest[i] : i \in DOMAIN rest})
    <2> HIDE DEF rest
    <2> QED  BY <1>2, SeqOfValues
  <1>4. \A i \in DOMAIN rest : Faithful(rest[i])
    BY <1>2 DEF Sound
  <1> QED  BY <1>2, <1>3, <1>4 DEF Sound

----------------------------------------------------------------------------
(* A worker's next capture is a selected one of its group, without outcome. *)
LEMMA TurnIsSelected ==
    ASSUME ListedInv, NEW g, NEW c \in Turn(g)
    PROVE  c \in selected /\ c \in Captures /\ GroupOf(c) = g /\ c \notin Stored(outcomes[g])
  BY DEF Turn, First, Left, ListedInv, SelectionInv

(* What the writer takes is a complete group of the selection. *)
LEMMA TakenIsComplete ==
    ASSUME ListedInv, TakeGroup
    PROVE  \E g \in DOMAIN outcomes \ taken :
               /\ writing = <<>> /\ writing' = outcomes[g] /\ Left(g) = {} /\ taken' = taken \cup {g}
               /\ UNCHANGED <<archive, pc, runs, unfinished, plan, selected, existing, known, outcomes, failures, metrics>>
  <1>1. PICK c \in First({d \in selected : GroupOf(d) \notin taken}) :
            Left(GroupOf(c)) = {} /\ writing' = outcomes[GroupOf(c)] /\ taken' = taken \cup {GroupOf(c)}
    BY DEF TakeGroup
  <1>2. c \in selected /\ GroupOf(c) \notin taken
    BY DEF First
  <1>3. GroupOf(c) \in DOMAIN outcomes \ taken
    BY <1>2 DEF ListedInv, SelectionInv
  <1> QED  BY <1>1, <1>3 DEF TakeGroup

(* Only a download makes an outcome that must be listed. *)
LEMMA ResolvedIsSound ==
    ASSUME ListedInv, NEW g, g \in DOMAIN outcomes, NEW kind, NEW of, NEW result, NEW c, Resolved(g, c, kind, of, result),
           Faithful([capture |-> c, kind |-> kind, of |-> of, result |-> result,
                     source |-> plan.source, run |-> runs])
    PROVE  ListedInv'
  <1> DEFINE o == [capture |-> c, kind |-> kind, of |-> of, result |-> result,
                   source |-> plan.source, run |-> runs]
  <1>1. /\ outcomes' = [outcomes EXCEPT ![g] = Append(@, o)]
        /\ plan' = plan /\ writing' = writing /\ archive' = archive /\ selected' = selected
    BY DEF Resolved
  <1>2. Faithful(o)  OBVIOUS
  <1>3. \A h \in DOMAIN outcomes' : outcomes'[h] = IF h = g THEN Append(outcomes[g], o) ELSE outcomes[h]
    BY <1>1
  <1>4. Sound(Append(outcomes[g], o))
    <2> HIDE DEF o
    <2> QED  BY <1>2, AppendSound DEF ListedInv
  <1>5. \A h \in DOMAIN outcomes' : Sound(outcomes'[h])
    BY <1>1, <1>3, <1>4 DEF ListedInv
  <1>6. SelectionInv'
    BY <1>1 DEF ListedInv, SelectionInv
  <1> QED  BY <1>1, <1>5, <1>6 DEF ListedInv, Sound

LEMMA WorkersKeep ==
    ASSUME ListedInv, NEW g \in DOMAIN outcomes, Reuse(g) \/ Revisit(g) \/ DownloadFails(g) \/ Download(g)
    PROVE  ListedInv'
  <1>1. CASE Reuse(g)
    BY <1>1, TurnIsSelected, ResolvedIsSound DEF Reuse, Faithful
  <1>2. CASE Revisit(g)
    BY <1>2, TurnIsSelected, ResolvedIsSound DEF Revisit, Faithful
  <1>3. CASE DownloadFails(g)
    BY <1>3, TurnIsSelected, ResolvedIsSound DEF DownloadFails, ToDownload, Faithful
  <1>4. CASE Download(g)
    <2>1. plan.source \in Sources
      BY ResolveAssumption DEF ListedInv, SelectionInv
    <2>2. PICK c \in ToDownload(g) : \E result \in Results[plan.source][c] : Resolved(g, c, result.kind, None, result)
      BY <1>4 DEF Download
    <2>3. PICK result \in Results[plan.source][c] : Resolved(g, c, result.kind, None, result)
      BY <2>2
    <2>4. c \in Captures
      BY TurnIsSelected DEF ToDownload
    <2>5. Listed([capture |-> c, kind |-> result.kind, of |-> None, result |-> result,
                  source |-> plan.source, run |-> runs])
           /\ Matches(result.kind, result.body, c.digest)
      BY <2>1, <2>3, <2>4, AcquiredAsListed
    <2> QED  BY <2>3, <2>4, <2>5, ResolvedIsSound DEF Faithful
  <1> QED  BY <1>1, <1>2, <1>3, <1>4

(* The writer appends what it took, unless it is a reuse or a failure. *)
LEMMA CommitKeeps == ASSUME ListedInv, Commit PROVE ListedInv'
  <1> DEFINE o == Head(writing)
  <1>1. /\ writing # <<>> /\ writing' = Tail(writing) /\ plan' = plan /\ outcomes' = outcomes /\ selected' = selected
        /\ archive' = IF o.kind \in {"existing", "failure"} THEN archive ELSE Append(archive, o)
    BY DEF Commit
  <1>2. Sound(writing') /\ Faithful(o)
    BY <1>1, TailSound DEF ListedInv
  <1>3. Sound(archive') /\ \A i \in DOMAIN archive' : archive'[i].kind \notin {"existing", "failure"}
    <2>1. CASE o.kind \in {"existing", "failure"}
      BY <1>1, <2>1 DEF ListedInv
    <2>2. CASE o.kind \notin {"existing", "failure"}
      <3>1. archive' = Append(archive, o) /\ Sound(archive)
        BY <1>1, <2>2 DEF ListedInv
      <3>2. Sound(archive') /\ \A i \in DOMAIN archive' : archive'[i] = o \/ \E j \in DOMAIN archive : archive'[i] = archive[j]
        <4> HIDE DEF o
        <4> QED  BY <1>2, <3>1, AppendSound
      <3> QED  BY <2>2, <3>2 DEF ListedInv
    <2> QED  BY <2>1, <2>2
  <1> QED  BY <1>1, <1>2, <1>3 DEF ListedInv, SelectionInv

LEMMA ForgettingKeeps == ASSUME ListedInv, Forget, UNCHANGED <<archive, plan>> PROVE ListedInv'
  <1>1. outcomes' = <<>> /\ writing' = <<>> /\ selected' = {}
    BY DEF Forget
  <1> QED  BY <1>1, NothingIsSound DEF ListedInv, SelectionInv, Sound

LEMMA NextKeepsListed == ListedInv /\ [Next]_vars => ListedInv'
  <1> SUFFICES ASSUME ListedInv, [Next]_vars PROVE ListedInv'  OBVIOUS
  <1>1. CASE Start
    <2>0. plan' \in Plans /\ selected' = Discover(plan')
      BY <1>1 DEF Start, ListedInv, SelectionInv
    <2>1. selected' \subseteq Captures /\ writing' = <<>> /\ archive' = archive
      <3>1. plan'.source \in Sources  BY <2>0, ResolveAssumption
      <3>2. Lists[plan'.source] \subseteq Captures  BY <3>1 DEF Captures
      <3> QED  BY <1>1, <2>0, <3>2 DEF Start, Discover
    <2>2. DOMAIN outcomes' = {GroupOf(c) : c \in selected'} /\ \A g \in DOMAIN outcomes' : outcomes'[g] = <<>>
      BY <1>1 DEF Start
    <2>3. SelectionInv'
      BY <2>0, <2>1, <2>2 DEF SelectionInv
    <2> QED  BY <2>1, <2>2, <2>3, NothingIsSound DEF ListedInv, Sound
  <1>2. CASE TakeGroup
    <2>1. writing' \in {outcomes[g] : g \in DOMAIN outcomes} /\ UNCHANGED <<archive, plan, outcomes, selected>>
      BY <1>2, TakenIsComplete
    <2> QED  BY SMTT(30), <2>1 DEF ListedInv, SelectionInv, Sound
  <1>3. CASE Commit  BY <1>3, CommitKeeps
  <1>4. CASE Finish \/ UNCHANGED vars
    <2>1. UNCHANGED <<archive, plan, process>>
      BY <1>4 DEF Finish, process, vars
    <2>2. SelectionInv'
      BY <2>1 DEF process, ListedInv, SelectionInv
    <2> QED  BY <2>1, <2>2 DEF process, ListedInv, Sound
  <1>5. CASE Leave \/ Stop
    BY <1>5, ForgettingKeeps DEF Leave, Stop
  <1>6. CASE \E g \in DOMAIN outcomes : Reuse(g) \/ Revisit(g) \/ DownloadFails(g) \/ Download(g)
    BY <1>6, WorkersKeep
  <1> QED  BY <1>1, <1>2, <1>3, <1>4, <1>5, <1>6 DEF Next

(* Whatever sources answer, runs interrupt and plans ask for, a response   *)
(* in the archive is of the resource, the time and the status it was       *)
(* listed with, no stand-in page of the Wayback Machine is stored, and a   *)
(* record that had to be repaired has the listed digest.                   *)
THEOREM StoredAsListed == Spec => []AsListed
  <1>1. Init => ListedInv
    BY NothingIsSound DEF Init, ListedInv, SelectionInv
  <1>2. ListedInv /\ [Next]_vars => ListedInv'  BY NextKeepsListed
  <1>3. ListedInv => AsListed
    BY DEF ListedInv, Sound, Faithful, AsListed
  <1> QED  BY <1>1, <1>2, <1>3, PTL DEF Spec
----------------------------------------------------------------------------
(***************************************************************************)
(* Revisits                                                                *)
(***************************************************************************)
(* A response that stands for the payload of a capture; and who has one.   *)
Stands(o, c) == o.capture = c /\ o.kind \in {"exact", "soft"}
Holds(outs, c) == \E i \in DOMAIN outs : Stands(outs[i], c)

(* A revisit names a capture of its key, not after it. *)
Refers(o) == Key(o.capture) # None /\ Key(o.of) = Key(o.capture) /\ o.of.time <= o.capture.time

(* The capture that a revisit names is in records already, or precedes it. *)
Backed(outs, records) ==
    \A k \in DOMAIN outs : outs[k].kind = "revisit" =>
        /\ Refers(outs[k])
        /\ Holds(records, outs[k].of) \/ \E i \in 1 .. k - 1 : Stands(outs[i], outs[k].of)

(* What a worker knows is in the archive, or will get there with the       *)
(* outcomes of its own group.                                              *)
KnownInv ==
    /\ DOMAIN known = Keys
    /\ \A key \in Keys : known[key] # None =>
          /\ Key(known[key]) = key
          /\ \/ Holds(archive, known[key])
             \/ LET g == GroupOf(known[key]) IN g \in DOMAIN outcomes /\ Holds(outcomes[g], known[key])

RevisitInv ==
    /\ KnownInv
    /\ \A g \in DOMAIN outcomes : Backed(outcomes[g], archive)
    /\ Backed(writing, archive)
    /\ Backed(archive, <<>>)

LEMMA NothingIsBacked == ASSUME NEW records PROVE Backed(<<>>, records)
  BY DEF Backed

LEMMA NothingHeld == ASSUME NEW c PROVE ~Holds(<<>>, c)
  BY DEF Holds

LEMMA Appended ==
    ASSUME NEW S, NEW outs \in Seq(S), NEW o
    PROVE  /\ DOMAIN outs = 1 .. Len(outs) /\ Len(outs) \in Nat
           /\ DOMAIN Append(outs, o) = 1 .. Len(outs) + 1
           /\ \A i \in 1 .. Len(outs) + 1 : Append(outs, o)[i] = IF i = Len(outs) + 1 THEN o ELSE outs[i]
  <1>1. outs \in Seq(S \cup {o}) /\ o \in S \cup {o}
    BY SeqMonotonic
  <1> QED  BY <1>1, AppendProperties

LEMMA AppendHolds ==
    ASSUME NEW S, NEW outs \in Seq(S), NEW o, NEW c
    PROVE  Holds(Append(outs, o), c) <=> Holds(outs, c) \/ Stands(o, c)
  <1> DEFINE longer == Append(outs, o)
  <1>1. /\ DOMAIN outs = 1 .. Len(outs) /\ Len(outs) \in Nat
        /\ DOMAIN longer = 1 .. Len(outs) + 1
        /\ \A i \in 1 .. Len(outs) + 1 : longer[i] = IF i = Len(outs) + 1 THEN o ELSE outs[i]
    BY Appended
  <1> HIDE DEF longer
  <1>2. Holds(longer, c) <=> Holds(outs, c) \/ Stands(o, c)
    BY <1>1 DEF Holds
  <1> QED  BY <1>2 DEF longer

LEMMA AppendBacked ==
    ASSUME NEW S, NEW outs \in Seq(S), NEW o, NEW records, Backed(outs, records),
           o.kind = "revisit" => Refers(o) /\ (Holds(records, o.of) \/ Holds(outs, o.of))
    PROVE  Backed(Append(outs, o), records)
  <1> DEFINE longer == Append(outs, o)
  <1>1. DOMAIN outs = 1 .. Len(outs) /\ Len(outs) \in Nat
    OBVIOUS
  <1>2. /\ DOMAIN longer = 1 .. Len(outs) + 1
        /\ \A i \in 1 .. Len(outs) + 1 : longer[i] = IF i = Len(outs) + 1 THEN o ELSE outs[i]
    BY Appended
  <1> HIDE DEF longer
  <1>3. ASSUME NEW k \in 1 .. Len(outs), longer[k].kind = "revisit"
        PROVE  /\ Refers(longer[k])
               /\ Holds(records, longer[k].of) \/ \E i \in 1 .. k - 1 : Stands(longer[i], longer[k].of)
    <2>1. longer[k] = outs[k] /\ \A i \in 1 .. k - 1 : longer[i] = outs[i]
      BY <1>1, <1>2
    <2> QED  BY <1>1, <1>3, <2>1 DEF Backed
  <1>4. ASSUME NEW k, k = Len(outs) + 1, longer[k].kind = "revisit"
        PROVE  /\ Refers(longer[k])
               /\ Holds(records, longer[k].of) \/ \E i \in 1 .. k - 1 : Stands(longer[i], longer[k].of)
    <2>1. longer[k] = o /\ k - 1 = Len(outs) /\ \A i \in 1 .. k - 1 : longer[i] = outs[i]
      BY <1>1, <1>2, <1>4
    <2> QED  BY <1>1, <1>4, <2>1 DEF Holds
  <1>5. \A k \in DOMAIN longer : k \in 1 .. Len(outs) \/ k = Len(outs) + 1
    BY <1>1, <1>2
  <1>6. Backed(longer, records)
    BY <1>3, <1>4, <1>5 DEF Backed
  <1> QED  BY <1>6 DEF longer

(* What is backed stays so when the records grow. *)
LEMMA BackedByMore ==
    ASSUME NEW outs, NEW records, NEW more, Backed(outs, records), \A c : Holds(records, c) => Holds(more, c)
    PROVE  Backed(outs, more)
  BY DEF Backed

(* The first of the outcomes is backed by the records; once it is among    *)
(* them, so are the others.                                                *)
LEMMA TailBacked ==
    ASSUME NEW S, NEW outs \in Seq(S), outs # <<>>, NEW records, Backed(outs, records), NEW more,
           \A c : Holds(records, c) \/ Stands(Head(outs), c) => Holds(more, c)
    PROVE  /\ Head(outs).kind = "revisit" => Refers(Head(outs)) /\ Holds(records, Head(outs).of)
           /\ Backed(Tail(outs), more)
  <1> DEFINE rest == Tail(outs)
  <1>1. /\ Len(outs) \in Nat \ {0} /\ DOMAIN outs = 1 .. Len(outs) /\ Head(outs) = outs[1]
        /\ rest \in Seq(S) /\ Len(rest) = Len(outs) - 1 /\ DOMAIN rest = 1 .. Len(outs) - 1
        /\ \A i \in 1 .. Len(outs) - 1 : rest[i] = outs[i + 1]
    BY HeadTailProperties, EmptySeq
  <1> HIDE DEF rest
  <1>2. Head(outs).kind = "revisit" => Refers(Head(outs)) /\ Holds(records, Head(outs).of)
    BY <1>1 DEF Backed
  <1>3. ASSUME NEW k \in DOMAIN rest, rest[k].kind = "revisit"
        PROVE  Refers(rest[k]) /\ (Holds(more, rest[k].of) \/ \E i \in 1 .. k - 1 : Stands(rest[i], rest[k].of))
    <2>1. k + 1 \in DOMAIN outs /\ rest[k] = outs[k + 1]
      BY <1>1
    <2>2. Refers(rest[k]) /\ (Holds(records, rest[k].of) \/ \E i \in 1 .. k : Stands(outs[i], rest[k].of))
      <3>1. (k + 1) - 1 = k  BY <1>1
      <3> QED  BY <1>3, <2>1, <3>1 DEF Backed
    <2>3. ASSUME NEW i \in 1 .. k, Stands(outs[i], rest[k].of), i # 1
          PROVE  i - 1 \in 1 .. k - 1 /\ Stands(rest[i - 1], rest[k].of)
      <3>1. i - 1 \in 1 .. k - 1 /\ rest[i - 1] = outs[i]
        BY <1>1, <2>3
      <3> QED  BY <2>3, <3>1
    <2> QED  BY <1>1, <2>2, <2>3
  <1>4. Backed(rest, more)
    BY <1>3 DEF Backed
  <1> QED  BY <1>2, <1>4 DEF rest

(* The inventory names only what the archive holds. *)
LEMMA RepresentativeIsHeld ==
    ASSUME NEW records, \A i \in DOMAIN records : records[i].capture \in Captures,
           NEW key \in Keys, Representatives(records)[key] # None
    PROVE  LET c == Representatives(records)[key] IN Key(c) = key /\ Holds(records, c)
  <1> DEFINE c == Representatives(records)[key]
  <1>1. c \in Exact(records, key)
    <2>1. Exact(records, key) # {} /\ c \in First(Exact(records, key))
      <3>1. Exact(records, key) \subseteq Captures  BY DEF Exact, Stored
      <3> QED  BY <3>1, FirstExists DEF Representatives, Oldest
    <2> QED  BY <2>1 DEF First
  <1> QED  BY <1>1 DEF Exact, Holds, Stands

LEMMA InventoryIsKnown ==
    ASSUME NEW records, \A i \in DOMAIN records : records[i].capture \in Captures
    PROVE  /\ DOMAIN Representatives(records) = Keys
           /\ \A key \in Keys : Representatives(records)[key] # None =>
                 /\ Key(Representatives(records)[key]) = key
                 /\ Holds(records, Representatives(records)[key])
  <1>1. DOMAIN Representatives(records) = Keys
    BY DEF Representatives
  <1> QED  BY <1>1, RepresentativeIsHeld

(* A worker adds an outcome; what it knows of other keys is unchanged.     *)
LEMMA ResolvedIsBacked ==
    ASSUME ListedInv, RevisitInv, NEW g \in DOMAIN outcomes, NEW kind, NEW of, NEW result, NEW c,
           Resolved(g, c, kind, of, result),
           kind = "revisit" =>
               /\ Key(c) # None /\ Key(of) = Key(c) /\ of.time <= c.time
               /\ Holds(archive, of) \/ Holds(outcomes[g], of),
           \/ known' = known
           \/ /\ kind \in {"exact", "soft"} /\ c \in Captures /\ GroupOf(c) = g
              /\ Key(c) # None /\ known' = [known EXCEPT ![Key(c)] = c]
    PROVE  RevisitInv'
  <1> DEFINE o == [capture |-> c, kind |-> kind, of |-> of, result |-> result,
                   source |-> plan.source, run |-> runs]
  <1>1. /\ outcomes' = [outcomes EXCEPT ![g] = Append(@, o)]
        /\ archive' = archive /\ writing' = writing
    BY DEF Resolved
  <1>2. /\ o.capture = c /\ o.kind = kind /\ o.of = of
        /\ o.kind = "revisit" => Refers(o) /\ (Holds(archive, o.of) \/ Holds(outcomes[g], o.of))
    BY DEF Refers
  <1> HIDE DEF o
  <1>3. outcomes[g] \in Seq({outcomes[g][i] : i \in DOMAIN outcomes[g]})
    BY DEF ListedInv, Sound
  <1>4. /\ DOMAIN outcomes' = DOMAIN outcomes /\ outcomes'[g] = Append(outcomes[g], o)
        /\ \A h \in DOMAIN outcomes : h # g => outcomes'[h] = outcomes[h]
    BY <1>1
  <1>5. \A h \in DOMAIN outcomes : Backed(outcomes'[h], archive)
    <2>1. Backed(Append(outcomes[g], o), archive)
      BY <1>2, <1>3, AppendBacked DEF RevisitInv
    <2> QED  BY <1>4, <2>1 DEF RevisitInv
  <1>6. \A h \in DOMAIN outcomes : \A d : Holds(outcomes[h], d) => Holds(outcomes'[h], d)
    <2>1. \A d : Holds(outcomes[g], d) => Holds(Append(outcomes[g], o), d)
      BY <1>3, AppendHolds
    <2> QED  BY <1>4, <2>1
  <1>7. KnownInv'
    <2>1. \A key \in Keys : known[key] # None =>
              /\ Key(known[key]) = key
              /\ \/ Holds(archive, known[key])
                 \/ LET h == GroupOf(known[key]) IN h \in DOMAIN outcomes' /\ Holds(outcomes'[h], known[key])
      BY <1>4, <1>6 DEF RevisitInv, KnownInv
    <2>2. CASE known' = known
      BY <1>1, <2>1, <2>2 DEF RevisitInv, KnownInv
    <2>3. CASE /\ kind \in {"exact", "soft"} /\ c \in Captures /\ GroupOf(c) = g
               /\ Key(c) # None /\ known' = [known EXCEPT ![Key(c)] = c]
      <3>1. Holds(outcomes'[g], c)
        <4>1. Stands(o, c)  BY <1>2, <2>3 DEF Stands
        <4> QED  BY <1>3, <1>4, <4>1, AppendHolds
      <3>2. DOMAIN known' = Keys /\ \A key \in Keys : known'[key] = IF key = Key(c) THEN c ELSE known[key]
        BY <2>3 DEF RevisitInv, KnownInv
      <3> QED  BY <1>1, <1>4, <2>1, <2>3, <3>1, <3>2 DEF KnownInv
    <2> QED  BY <2>2, <2>3
  <1> QED  BY <1>1, <1>4, <1>5, <1>7 DEF RevisitInv

(* What a download gives is one of three kinds of result. *)
LEMMA ResultKinds ==
    ASSUME ListedInv, NEW c \in Captures, NEW result \in Results[plan.source][c]
    PROVE  result.kind \in {"exact", "soft", "other"}
  <1>1. plan.source \in Sources
    BY ResolveAssumption DEF ListedInv, SelectionInv
  <1> DEFINE o == [capture |-> c, result |-> result, source |-> plan.source]
  <1>2. o.capture = c /\ o.result = result /\ o.source = plan.source
    OBVIOUS
  <1>3. Matches(result.kind, result.body, c.digest)
    BY <1>1, <1>2, AcquiredAsListed
  <1> QED  BY <1>3 DEF Matches

(* A capture of the same key is of the same group. *)
LEMMA KeyTellsGroup ==
    ASSUME NEW c, NEW d, Key(c) # None, Key(d) = Key(c)
    PROVE  GroupOf(d) = GroupOf(c) /\ d.digest = c.digest /\ c.digest # Missing
  BY DEF Key, GroupOf

LEMMA WorkersKeepRevisits ==
    ASSUME ListedInv, RevisitInv, NEW g \in DOMAIN outcomes,
           Reuse(g) \/ Revisit(g) \/ DownloadFails(g) \/ Download(g)
    PROVE  RevisitInv'
  <1>1. CASE Reuse(g)
    BY <1>1, ResolvedIsBacked DEF Reuse
  <1>2. CASE DownloadFails(g)
    BY <1>2, ResolvedIsBacked DEF DownloadFails
  <1>3. CASE Revisit(g)
    <2>1. PICK c \in Turn(g) : /\ Usable(c) /\ known' = known
                               /\ Resolved(g, c, "revisit", Representative(c), None)
      BY <1>3 DEF Revisit
    <2> DEFINE r == Representative(c)
    <2>2. c \in Captures /\ GroupOf(c) = g
      BY TurnIsSelected
    <2>3. Key(c) \in Keys /\ Key(c) # None /\ r = known[Key(c)] /\ r # None /\ r.time <= c.time
      BY <2>1, <2>2 DEF Usable, Representative, Keys
    <2>4. Key(r) = Key(c)
      BY <2>3 DEF RevisitInv, KnownInv
    <2>5. Holds(archive, r) \/ Holds(outcomes[g], r)
      <3>1. GroupOf(r) = g
        BY <2>2, <2>3, <2>4, KeyTellsGroup
      <3> QED  BY <2>3, <3>1 DEF RevisitInv, KnownInv
    <2> QED  BY <2>1, <2>3, <2>4, <2>5, ResolvedIsBacked
  <1>4. CASE Download(g)
    <2>1. PICK c \in ToDownload(g) : \E result \in Results[plan.source][c] :
              /\ Resolved(g, c, result.kind, None, result)
              /\ known' = IF result.kind # "other" /\ Key(c) # None THEN [known EXCEPT ![Key(c)] = c] ELSE known
      BY <1>4 DEF Download
    <2>2. PICK result \in Results[plan.source][c] :
              /\ Resolved(g, c, result.kind, None, result)
              /\ known' = IF result.kind # "other" /\ Key(c) # None THEN [known EXCEPT ![Key(c)] = c] ELSE known
      BY <2>1
    <2>3. plan.source \in Sources /\ c \in Captures /\ GroupOf(c) = g
      BY ResolveAssumption, TurnIsSelected DEF ListedInv, SelectionInv, ToDownload
    <2>4. result.kind \in {"exact", "soft", "other"}
      BY <2>3, ResultKinds
    <2> QED  BY <2>2, <2>3, <2>4, ResolvedIsBacked
  <1> QED  BY <1>1, <1>2, <1>3, <1>4

LEMMA CommitKeepsRevisits == ASSUME ListedInv, RevisitInv, Commit PROVE RevisitInv'
  <1> DEFINE o == Head(writing)
  <1>1. /\ writing # <<>> /\ writing' = Tail(writing) /\ UNCHANGED <<known, outcomes>>
        /\ archive' = IF o.kind \in {"existing", "failure"} THEN archive ELSE Append(archive, o)
    BY DEF Commit
  <1>2. /\ writing \in Seq({writing[i] : i \in DOMAIN writing})
        /\ archive \in Seq({archive[i] : i \in DOMAIN archive})
    BY DEF ListedInv, Sound
  <1>3. \A c : Holds(archive, c) \/ Stands(o, c) => Holds(archive', c)
    <2> HIDE DEF o
    <2>1. CASE o.kind \in {"existing", "failure"}
      BY <1>1, <2>1 DEF Stands
    <2>2. CASE o.kind \notin {"existing", "failure"}
      BY <1>1, <1>2, <2>2, AppendHolds
    <2> QED  BY <2>1, <2>2
  <1>4. /\ o.kind = "revisit" => Refers(o) /\ Holds(archive, o.of)
        /\ Backed(writing', archive')
    BY <1>1, <1>2, <1>3, TailBacked DEF RevisitInv
  <1> HIDE DEF o
  <1>5. Backed(archive', <<>>)
    <2>1. CASE o.kind \in {"existing", "failure"}
      BY <1>1, <2>1 DEF RevisitInv
    <2>2. CASE o.kind \notin {"existing", "failure"}
      BY <1>1, <1>2, <1>4, <2>2, AppendBacked DEF RevisitInv
    <2> QED  BY <2>1, <2>2
  <1>6. \A g \in DOMAIN outcomes' : Backed(outcomes'[g], archive')
    BY <1>1, <1>3, BackedByMore DEF RevisitInv
  <1>7. KnownInv'
    BY <1>1, <1>3 DEF RevisitInv, KnownInv
  <1> QED  BY <1>4, <1>5, <1>6, <1>7 DEF RevisitInv

LEMMA NextKeepsRevisits == ListedInv /\ RevisitInv /\ [Next]_vars => RevisitInv'
  <1> SUFFICES ASSUME ListedInv, RevisitInv, [Next]_vars PROVE RevisitInv'  OBVIOUS
  <1>1. CASE Start
    <2>1. archive' = archive /\ writing' = <<>> /\ known' = Representatives(archive)
      BY <1>1 DEF Start
    <2>2. \A g \in DOMAIN outcomes' : outcomes'[g] = <<>>
      BY <1>1 DEF Start
    <2>3. KnownInv'
      <3>1. \A i \in DOMAIN archive : archive[i].capture \in Captures
        BY DEF ListedInv, Sound, Faithful
      <3>2. \A key \in Keys : Representatives(archive)[key] # None =>
                Key(Representatives(archive)[key]) = key /\ Holds(archive, Representatives(archive)[key])
        BY <3>1, InventoryIsKnown
      <3>3. DOMAIN Representatives(archive) = Keys
        BY DEF Representatives
      <3> QED  BY <2>1, <3>2, <3>3 DEF KnownInv
    <2> QED  BY <2>1, <2>2, <2>3, NothingIsBacked DEF RevisitInv
  <1>2. CASE TakeGroup
    <2>1. writing' \in {outcomes[g] : g \in DOMAIN outcomes} /\ UNCHANGED <<archive, outcomes, known>>
      BY <1>2, TakenIsComplete
    <2> QED  BY <2>1 DEF RevisitInv, KnownInv
  <1>3. CASE Commit  BY <1>3, CommitKeepsRevisits
  <1>4. CASE Finish \/ UNCHANGED vars
    <2>1. UNCHANGED <<archive, outcomes, known, writing>>
      BY <1>4 DEF Finish, process, vars
    <2> QED  BY <2>1 DEF RevisitInv, KnownInv
  <1>5. CASE Leave \/ Stop
    <2>1. /\ archive' = archive /\ writing' = <<>> /\ outcomes' = <<>>
          /\ known' = Representatives(<<>>)
      BY <1>5 DEF Leave, Stop, Forget
    <2>2. KnownInv'
      BY <2>1, InventoryIsKnown, NothingHeld DEF KnownInv
    <2> QED  BY <2>1, <2>2, NothingIsBacked DEF RevisitInv
  <1>6. CASE \E g \in DOMAIN outcomes : Reuse(g) \/ Revisit(g) \/ DownloadFails(g) \/ Download(g)
    BY <1>6, WorkersKeepRevisits
  <1> QED  BY <1>1, <1>2, <1>3, <1>4, <1>5, <1>6 DEF Next

LEMMA BackedResolves == ListedInv /\ RevisitInv => RevisitsResolve
  <1> SUFFICES ASSUME ListedInv, RevisitInv, NEW j \in DOMAIN archive, archive[j].kind = "revisit"
               PROVE  \E i \in 1 .. j - 1 :
                          /\ archive[i].capture = archive[j].of /\ archive[i].kind # "revisit"
                          /\ archive[j].capture.digest \in {archive[i].result.body, archive[i].result.body \o <<"n">>}
                          /\ Key(archive[i].capture) = Key(archive[j].capture)
                          /\ archive[i].capture.time <= archive[j].capture.time
    BY DEF RevisitsResolve
  <1>1. Refers(archive[j]) /\ \E i \in 1 .. j - 1 : Stands(archive[i], archive[j].of)
    BY NothingHeld DEF RevisitInv, Backed
  <1>2. PICK i \in 1 .. j - 1 : Stands(archive[i], archive[j].of)
    BY <1>1
  <1>3. i \in DOMAIN archive
    <2>1. DOMAIN archive = 1 .. Len(archive) /\ Len(archive) \in Nat
      BY DEF ListedInv, Sound
    <2> QED  BY <2>1
  <1>4. Matches(archive[i].kind, archive[i].result.body, archive[i].capture.digest)
    BY <1>2, <1>3 DEF ListedInv, Sound, Faithful, Stands
  <1>5. archive[i].capture.digest = archive[j].capture.digest /\ archive[j].capture.digest # Missing
    BY <1>1, <1>2, KeyTellsGroup DEF Refers, Stands
  <1> QED  BY <1>1, <1>2, <1>4, <1>5 DEF Matches, Stands, Refers

(* Whatever runs were stopped, ranges and sources chosen and groups        *)
(* resolved at a time: a revisit in the archive has before it a response   *)
(* of its own key, not later than it, with the payload it was listed with. *)
THEOREM RevisitsAlwaysResolve == Spec => []RevisitsResolve
  <1>1. Init => ListedInv /\ RevisitInv
    <2> SUFFICES ASSUME Init PROVE ListedInv /\ RevisitInv  OBVIOUS
    <2>1. archive = <<>> /\ outcomes = <<>> /\ writing = <<>> /\ known = Representatives(<<>>) /\ plan \in Plans /\ selected = {}
      BY DEF Init
    <2>2. KnownInv
      BY <2>1, InventoryIsKnown, NothingHeld DEF KnownInv
    <2> QED  BY <2>1, <2>2, NothingIsSound, NothingIsBacked DEF ListedInv, SelectionInv, RevisitInv
  <1>2. ListedInv /\ RevisitInv /\ [Next]_vars => ListedInv' /\ RevisitInv'
    BY NextKeepsListed, NextKeepsRevisits
  <1>3. ListedInv /\ RevisitInv => RevisitsResolve  BY BackedResolves
  <1> QED  BY <1>1, <1>2, <1>3, PTL DEF Spec
----------------------------------------------------------------------------
(***************************************************************************)
(* What a group has come to                                                *)
(***************************************************************************)
(* No capture comes twice. *)
Distinct(outs) == \A i, j \in DOMAIN outs : outs[i].capture = outs[j].capture => i = j

(* The outcomes of this run, each for a selected capture of its own; what  *)
(* the inventory held is reused, and nothing else is.                      *)
Walked(outs) ==
    /\ Distinct(outs)
    /\ \A i \in DOMAIN outs :
          /\ outs[i].capture \in selected /\ outs[i].run = runs
          /\ outs[i].kind = "existing" <=> outs[i].capture \in existing

(* Groups do not mix, and one is complete when the writer takes it.        *)
GroupsInv ==
    /\ runs \in Nat /\ taken \subseteq DOMAIN outcomes
    /\ \A g \in DOMAIN outcomes : /\ Walked(outcomes[g])
                                  /\ \A i \in DOMAIN outcomes[g] : GroupOf(outcomes[g][i].capture) = g
    /\ \A g \in taken : Left(g) = {}
    /\ Walked(writing) /\ \A i \in DOMAIN writing : GroupOf(writing[i].capture) \in taken
    /\ \A i \in DOMAIN archive : archive[i].run \in 0 .. runs

LEMMA SoundIsSeq ==
    ASSUME NEW outs, Sound(outs)
    PROVE  /\ outs \in Seq({outs[i] : i \in DOMAIN outs})
           /\ DOMAIN outs = 1 .. Len(outs) /\ Len(outs) \in Nat
  BY DEF Sound

LEMMA AppendDistinct ==
    ASSUME NEW outs, Sound(outs), NEW o
    PROVE  /\ Stored(Append(outs, o)) = Stored(outs) \cup {o.capture}
           /\ Distinct(outs) /\ o.capture \notin Stored(outs) => Distinct(Append(outs, o))
  <1> DEFINE longer == Append(outs, o)
             n == Len(outs)
  <1>1. /\ DOMAIN outs = 1 .. n /\ n \in Nat /\ DOMAIN longer = 1 .. n + 1
        /\ \A i \in 1 .. n + 1 : longer[i] = IF i = n + 1 THEN o ELSE outs[i]
    BY SoundIsSeq, Appended
  <1> HIDE DEF longer, n
  <1>2. /\ longer[n + 1] = o /\ n + 1 \in DOMAIN longer
        /\ \A i \in DOMAIN outs : longer[i] = outs[i] /\ i \in DOMAIN longer
        /\ \A i \in DOMAIN longer : i = n + 1 \/ i \in DOMAIN outs
    BY <1>1
  <1>3. Stored(longer) = Stored(outs) \cup {o.capture}
    BY <1>2 DEF Stored
  <1>4. ASSUME Distinct(outs), o.capture \notin Stored(outs),
               NEW i \in DOMAIN longer, NEW j \in DOMAIN longer, longer[i].capture = longer[j].capture
        PROVE  i = j
    <2>1. \A k \in DOMAIN outs : outs[k].capture # o.capture
      BY <1>4 DEF Stored
    <2> QED  BY <1>2, <1>4, <2>1 DEF Distinct
  <1>5. Distinct(outs) /\ o.capture \notin Stored(outs) => Distinct(longer)
    BY <1>4 DEF Distinct
  <1> QED  BY <1>3, <1>5 DEF longer

(* What is left of a sequence is what was after its head. *)
LEMMA TailShifts ==
    ASSUME NEW outs, Sound(outs), outs # <<>>
    PROVE  /\ 1 \in DOMAIN outs /\ Head(outs) = outs[1]
           /\ DOMAIN outs \subseteq Nat
           /\ \A i \in DOMAIN Tail(outs) : i \in Nat /\ 1 < i + 1 /\ i + 1 \in DOMAIN outs /\ Tail(outs)[i] = outs[i + 1]
           /\ \A i \in DOMAIN outs : i # 1 => i - 1 \in DOMAIN Tail(outs) /\ Tail(outs)[i - 1] = outs[i]
  <1> DEFINE rest == Tail(outs)
             n == Len(outs)
  <1>1. outs \in Seq({outs[i] : i \in DOMAIN outs}) /\ DOMAIN outs = 1 .. n
    BY SoundIsSeq
  <1>2. /\ n \in Nat \ {0} /\ Head(outs) = outs[1]
        /\ rest \in Seq({outs[i] : i \in DOMAIN outs}) /\ Len(rest) = n - 1
        /\ \A i \in 1 .. Len(rest) : rest[i] = outs[i + 1]
    BY <1>1, HeadTailProperties, EmptySeq
  <1>3. DOMAIN rest = 1 .. n - 1
    BY <1>2
  <1> HIDE DEF rest, n
  <1>4. \A i \in DOMAIN rest : i \in Nat /\ 1 < i + 1 /\ i + 1 \in DOMAIN outs /\ rest[i] = outs[i + 1]
    BY <1>1, <1>2, <1>3
  <1>5. ASSUME NEW i \in DOMAIN outs, i # 1 PROVE i - 1 \in DOMAIN rest /\ rest[i - 1] = outs[i]
    <2>1. i \in Nat /\ i - 1 \in DOMAIN rest /\ (i - 1) + 1 = i
      BY <1>1, <1>2, <1>3, <1>5
    <2> QED  BY <1>4, <2>1
  <1>6. 1 \in DOMAIN outs /\ Head(outs) = outs[1] /\ DOMAIN outs \subseteq Nat
    BY <1>1, <1>2
  <1> QED  BY <1>4, <1>5, <1>6 DEF rest

LEMMA TailDistinct ==
    ASSUME NEW outs, Sound(outs), outs # <<>>
    PROVE  /\ Stored(outs) = Stored(Tail(outs)) \cup {Head(outs).capture}
           /\ Distinct(outs) => Distinct(Tail(outs)) /\ Head(outs).capture \notin Stored(Tail(outs))
  <1> DEFINE rest == Tail(outs)
  <1>1. /\ 1 \in DOMAIN outs /\ Head(outs) = outs[1]
        /\ \A i \in DOMAIN rest : i \in Nat /\ 1 < i + 1 /\ i + 1 \in DOMAIN outs /\ rest[i] = outs[i + 1]
        /\ \A i \in DOMAIN outs : i # 1 => i - 1 \in DOMAIN rest /\ rest[i - 1] = outs[i]
    BY TailShifts
  <1> HIDE DEF rest
  <1>2. Stored(outs) = Stored(rest) \cup {Head(outs).capture}
    BY <1>1 DEF Stored
  <1>3. ASSUME Distinct(outs), NEW i \in DOMAIN rest, NEW j \in DOMAIN rest, rest[i].capture = rest[j].capture
        PROVE  i = j
    <2>1. i + 1 = j + 1
      BY <1>1, <1>3 DEF Distinct
    <2>2. i \in Nat /\ j \in Nat
      BY <1>1
    <2> QED  BY <2>1, <2>2
  <1>4. ASSUME Distinct(outs), NEW i \in DOMAIN rest PROVE rest[i].capture # Head(outs).capture
    BY <1>1, <1>4 DEF Distinct
  <1> QED  BY <1>2, <1>3, <1>4 DEF rest, Distinct, Stored

----------------------------------------------------------------------------
(* A worker adds one outcome to a group that the writer has not taken: for *)
(* a capture of the group that had none.                                   *)
Adds(g, o) ==
    /\ outcomes' = [outcomes EXCEPT ![g] = Append(@, o)] /\ g \notin taken
    /\ o.capture \in selected /\ o.capture \in Captures
    /\ GroupOf(o.capture) = g /\ o.capture \notin Stored(outcomes[g])
    /\ o.run = runs /\ (o.kind = "existing" <=> o.capture \in existing)
    /\ \/ o.kind \in {"existing", "revisit", "failure"} /\ known' = known
       \/ /\ o.kind \in {"exact", "soft", "other"} /\ ~Usable(o.capture)
          /\ known' = IF o.kind # "other" /\ Key(o.capture) # None
                      THEN [known EXCEPT ![Key(o.capture)] = o.capture] ELSE known
    /\ UNCHANGED <<archive, pc, runs, selected, existing, taken, writing, failures, metrics>>

LEMMA ResolvedAdds ==
    ASSUME ListedInv, GroupsInv, NEW g \in DOMAIN outcomes, NEW c \in Turn(g), NEW kind, NEW of, NEW result,
           Resolved(g, c, kind, of, result), kind = "existing" <=> c \in existing,
           \/ kind \in {"existing", "revisit", "failure"} /\ known' = known
           \/ /\ kind \in {"exact", "soft", "other"} /\ ~Usable(c)
              /\ known' = IF kind # "other" /\ Key(c) # None THEN [known EXCEPT ![Key(c)] = c] ELSE known
    PROVE  \E o : Adds(g, o)
  <1> DEFINE o == [capture |-> c, kind |-> kind, of |-> of, result |-> result,
                   source |-> plan.source, run |-> runs]
  <1>1. /\ outcomes' = [outcomes EXCEPT ![g] = Append(@, o)]
        /\ UNCHANGED <<archive, pc, runs, selected, existing, taken, writing, failures, metrics>>
    BY DEF Resolved
  <1>2. o.capture = c /\ o.kind = kind /\ o.run = runs
    OBVIOUS
  <1> HIDE DEF o
  <1>3. c \in selected /\ c \in Captures /\ GroupOf(c) = g /\ c \notin Stored(outcomes[g])
    BY TurnIsSelected
  <1>4. g \notin taken
    <2>1. Left(g) # {}  BY DEF Turn, First
    <2> QED  BY <2>1 DEF GroupsInv
  <1>5. Adds(g, o)
    BY <1>1, <1>2, <1>3, <1>4 DEF Adds
  <1> QED  BY <1>5

LEMMA WorkerAdds ==
    ASSUME ListedInv, GroupsInv, NEW g \in DOMAIN outcomes, Reuse(g) \/ Revisit(g) \/ DownloadFails(g) \/ Download(g)
    PROVE  \E o : Adds(g, o)
  <1>1. CASE Reuse(g)
    BY <1>1, ResolvedAdds DEF Reuse
  <1>2. CASE Revisit(g)
    BY <1>2, ResolvedAdds DEF Revisit
  <1>3. CASE DownloadFails(g)
    BY <1>3, ResolvedAdds DEF DownloadFails, ToDownload
  <1>4. CASE Download(g)
    <2>1. PICK c \in ToDownload(g) : \E result \in Results[plan.source][c] :
              /\ Resolved(g, c, result.kind, None, result)
              /\ known' = IF result.kind # "other" /\ Key(c) # None THEN [known EXCEPT ![Key(c)] = c] ELSE known
      BY <1>4 DEF Download
    <2>2. PICK result \in Results[plan.source][c] :
              /\ Resolved(g, c, result.kind, None, result)
              /\ known' = IF result.kind # "other" /\ Key(c) # None THEN [known EXCEPT ![Key(c)] = c] ELSE known
      BY <2>1
    <2>3. c \in Turn(g) /\ c \notin existing /\ ~Usable(c) /\ c \in Captures
      BY TurnIsSelected DEF ToDownload
    <2>4. result.kind \in {"exact", "soft", "other"}
      BY <2>3, ResultKinds
    <2> QED  BY <2>2, <2>3, <2>4, ResolvedAdds
  <1> QED  BY <1>1, <1>2, <1>3, <1>4

----------------------------------------------------------------------------
LEMMA AddsKeepsGroups ==
    ASSUME ListedInv, GroupsInv, NEW g \in DOMAIN outcomes, NEW o, Adds(g, o)
    PROVE  GroupsInv'
  <1>1. /\ UNCHANGED <<archive, runs, selected, existing, taken, writing>>
        /\ DOMAIN outcomes' = DOMAIN outcomes /\ outcomes'[g] = Append(outcomes[g], o) /\ g \notin taken
        /\ \A h \in DOMAIN outcomes : h # g => outcomes'[h] = outcomes[h]
    BY DEF Adds
  <1>2. Sound(outcomes[g]) /\ Walked(outcomes[g]) /\ \A i \in DOMAIN outcomes[g] : GroupOf(outcomes[g][i].capture) = g
    BY DEF ListedInv, GroupsInv
  <1>3. \A i \in DOMAIN outcomes'[g] : outcomes'[g][i] = o \/ \E j \in DOMAIN outcomes[g] : outcomes'[g][i] = outcomes[g][j]
    BY <1>1, <1>2, AppendSound
  <1>4. Distinct(outcomes'[g])
    BY <1>1, <1>2, AppendDistinct DEF Adds, Walked
  <1>5. \A i \in DOMAIN outcomes'[g] :
            LET x == outcomes'[g][i] IN
            x.capture \in selected /\ x.run = runs /\ (x.kind = "existing" <=> x.capture \in existing) /\ GroupOf(x.capture) = g
    BY <1>2, <1>3 DEF Adds, Walked
  <1>6. \A h \in DOMAIN outcomes' : Walked(outcomes[h])' /\ \A i \in DOMAIN outcomes'[h] : GroupOf(outcomes'[h][i].capture) = h
    <2>1. Walked(outcomes[g])'
      BY <1>1, <1>4, <1>5 DEF Walked
    <2>2. \A h \in DOMAIN outcomes : h # g => Walked(outcomes[h])'
      BY <1>1 DEF Walked, GroupsInv
    <2> QED  BY <1>1, <1>5, <2>1, <2>2 DEF GroupsInv
  <1>7. \A h \in taken : Left(h)' = {}
    <2> SUFFICES ASSUME NEW h \in taken PROVE Left(h)' = {}  OBVIOUS
    <2>1. h # g /\ h \in DOMAIN outcomes /\ Left(h) = {}
      BY <1>1 DEF GroupsInv
    <2> QED  BY <1>1, <2>1 DEF Left
  <1>8. Walked(writing)'
    BY <1>1 DEF Walked, GroupsInv
  <1> QED  BY <1>1, <1>6, <1>7, <1>8 DEF GroupsInv

LEMMA TakeKeepsGroups == ASSUME ListedInv, GroupsInv, TakeGroup PROVE GroupsInv'
  <1>1. PICK g \in DOMAIN outcomes \ taken :
            /\ writing' = outcomes[g] /\ Left(g) = {} /\ taken' = taken \cup {g}
            /\ UNCHANGED <<archive, runs, selected, existing, outcomes>>
    BY TakenIsComplete
  <1>2. /\ Walked(outcomes[g]) /\ Walked(outcomes[g])'
        /\ \A i \in DOMAIN outcomes[g] : GroupOf(outcomes[g][i].capture) = g
    BY <1>1 DEF GroupsInv, Walked
  <1>3. Walked(writing)' /\ \A i \in DOMAIN writing' : GroupOf(writing'[i].capture) \in taken'
    BY <1>1, <1>2 DEF Walked
  <1>4. \A h \in taken' : Left(h)' = {}
    BY <1>1 DEF GroupsInv, Left
  <1>5. \A h \in DOMAIN outcomes' : Walked(outcomes[h])'
    BY <1>1 DEF GroupsInv, Walked
  <1> QED  BY <1>1, <1>3, <1>4, <1>5 DEF GroupsInv

(* The writer moves the first of its outcomes to the archive, if it is one *)
(* to be stored.                                                           *)
LEMMA CommitMoves ==
    ASSUME ListedInv, GroupsInv, Commit
    PROVE  LET o == Head(writing) IN
           /\ writing # <<>> /\ writing' = Tail(writing)
           /\ o = writing[1] /\ 1 \in DOMAIN writing
           /\ o.capture \in selected /\ o.capture \in Captures /\ GroupOf(o.capture) \in taken
           /\ o.run = runs /\ (o.kind = "existing" <=> o.capture \in existing)
           /\ Stored(writing) = Stored(writing') \cup {o.capture} /\ o.capture \notin Stored(writing')
           /\ archive' = IF o.kind \in {"existing", "failure"} THEN archive ELSE Append(archive, o)
           /\ Stored(archive') = IF o.kind \in {"existing", "failure"} THEN Stored(archive) ELSE Stored(archive) \cup {o.capture}
           /\ \A i \in DOMAIN archive' : archive'[i] = o \/ \E j \in DOMAIN archive : archive'[i] = archive[j]
           /\ \A i \in DOMAIN writing' : \E j \in DOMAIN writing : writing'[i] = writing[j]
           /\ UNCHANGED <<pc, runs, selected, existing, known, outcomes, taken>>
  <1> DEFINE o == Head(writing)
  <1>1. /\ writing # <<>> /\ writing' = Tail(writing)
        /\ archive' = IF o.kind \in {"existing", "failure"} THEN archive ELSE Append(archive, o)
        /\ UNCHANGED <<pc, runs, selected, existing, known, outcomes, taken>>
    BY DEF Commit
  <1>2. Sound(writing) /\ Sound(archive) /\ Walked(writing)
    BY DEF ListedInv, GroupsInv
  <1>3. /\ o = writing[1] /\ 1 \in DOMAIN writing
        /\ \A i \in DOMAIN writing' : \E j \in DOMAIN writing : writing'[i] = writing[j]
    BY <1>1, <1>2, TailShifts
  <1>4. Stored(writing) = Stored(writing') \cup {o.capture} /\ o.capture \notin Stored(writing')
    BY <1>1, <1>2, TailDistinct DEF Walked
  <1>5. Faithful(o)
    BY <1>1, <1>2, TailSound
  <1> HIDE DEF o
  <1>6. o.capture \in selected /\ GroupOf(o.capture) \in taken /\ o.run = runs /\ (o.kind = "existing" <=> o.capture \in existing)
    BY <1>3 DEF GroupsInv, Walked
  <1>7. o.capture \in Captures
    BY <1>5 DEF Faithful
  <1>8. /\ Stored(archive') = IF o.kind \in {"existing", "failure"} THEN Stored(archive) ELSE Stored(archive) \cup {o.capture}
        /\ \A i \in DOMAIN archive' : archive'[i] = o \/ \E j \in DOMAIN archive : archive'[i] = archive[j]
    <2>1. CASE o.kind \in {"existing", "failure"}
      <3>1. archive' = archive  BY <1>1, <2>1
      <3> QED  BY <2>1, <3>1
    <2>2. CASE o.kind \notin {"existing", "failure"}
      <3>1. archive' = Append(archive, o)  BY <1>1, <2>2
      <3>2. Stored(archive') = Stored(archive) \cup {o.capture}
        BY <1>2, <3>1, AppendDistinct
      <3>3. \A i \in DOMAIN archive' : archive'[i] = o \/ \E j \in DOMAIN archive : archive'[i] = archive[j]
        BY <1>2, <1>5, <3>1, AppendSound
      <3> QED  BY <2>2, <3>2, <3>3
    <2> QED  BY <2>1, <2>2
  <1> QED  BY <1>1, <1>3, <1>4, <1>6, <1>7, <1>8 DEF o

LEMMA CommitKeepsGroups == ASSUME ListedInv, GroupsInv, Commit PROVE GroupsInv'
  <1> DEFINE o == Head(writing)
  <1>1. /\ writing # <<>> /\ writing' = Tail(writing) /\ o.run = runs
        /\ \A i \in DOMAIN archive' : archive'[i] = o \/ \E j \in DOMAIN archive : archive'[i] = archive[j]
        /\ \A i \in DOMAIN writing' : \E j \in DOMAIN writing : writing'[i] = writing[j]
        /\ UNCHANGED <<pc, runs, selected, existing, known, outcomes, taken>>
    BY CommitMoves
  <1>2. Distinct(writing')
    BY <1>1, TailDistinct DEF ListedInv, GroupsInv, Walked
  <1> HIDE DEF o
  <1>3. Walked(writing)' /\ \A i \in DOMAIN writing' : GroupOf(writing'[i].capture) \in taken'
    BY <1>1, <1>2 DEF GroupsInv, Walked
  <1>4. \A i \in DOMAIN archive' : archive'[i].run \in 0 .. runs'
    BY <1>1 DEF GroupsInv
  <1>5. \A h \in taken' : Left(h)' = {}
    BY <1>1 DEF GroupsInv, Left
  <1>6. \A h \in DOMAIN outcomes' : Walked(outcomes[h])'
    BY <1>1 DEF GroupsInv, Walked
  <1> QED  BY <1>1, <1>3, <1>4, <1>5, <1>6 DEF GroupsInv

LEMMA NextKeepsGroups == ListedInv /\ GroupsInv /\ [Next]_vars => GroupsInv'
  <1> SUFFICES ASSUME ListedInv, GroupsInv, [Next]_vars PROVE GroupsInv'  OBVIOUS
  <1>0. DOMAIN <<>> = {}
    OBVIOUS
  <1>1. CASE Start
    <2>1. /\ archive' = archive /\ runs' = runs + 1 /\ taken' = {} /\ writing' = <<>>
          /\ \A g \in DOMAIN outcomes' : outcomes'[g] = <<>>
      BY <1>1 DEF Start
    <2>2. \A i \in DOMAIN archive' : archive'[i].run \in 0 .. runs'
      BY <2>1 DEF GroupsInv
    <2> QED  BY <1>0, <2>1, <2>2 DEF GroupsInv, Walked, Distinct
  <1>2. CASE TakeGroup  BY <1>2, TakeKeepsGroups
  <1>3. CASE Commit  BY <1>3, CommitKeepsGroups
  <1>4. CASE Finish \/ UNCHANGED vars
    <2>1. UNCHANGED <<archive, runs, process>>
      BY <1>4 DEF Finish, vars
    <2> QED  BY <2>1 DEF process, GroupsInv, Walked, Left
  <1>5. CASE Leave \/ Stop
    <2>1. UNCHANGED <<archive, runs>> /\ taken' = {} /\ writing' = <<>> /\ outcomes' = <<>>
      BY <1>5 DEF Leave, Stop, Forget
    <2> QED  BY <1>0, <2>1 DEF GroupsInv, Walked, Distinct
  <1>6. CASE \E g \in DOMAIN outcomes : Reuse(g) \/ Revisit(g) \/ DownloadFails(g) \/ Download(g)
    BY <1>6, WorkerAdds, AddsKeepsGroups
  <1> QED  BY <1>1, <1>2, <1>3, <1>4, <1>5, <1>6 DEF Next

----------------------------------------------------------------------------
(***************************************************************************)
(* One copy                                                                *)
(***************************************************************************)
(* An exact copy of a payload counts in every run, a soft one in its own;  *)
(* it bars what comes after it and is not before it in time.               *)
Counts(x, run) == x.kind = "exact" \/ (x.kind = "soft" /\ x.run = run)
Bars(x, y) ==
    /\ Key(x.capture) = Key(y.capture) /\ Key(x.capture) # None
    /\ Counts(x, y.run) /\ x.capture.time <= y.capture.time
Spared(x, y) == Bars(x, y) => y.kind \in {"revisit", "existing", "failure"}

InOrder(outs) == \A i, j \in DOMAIN outs : i < j => Spared(outs[i], outs[j])
Across(records, outs) == \A i \in DOMAIN records, j \in DOMAIN outs : Spared(records[i], outs[j])

(* A worker knows of every payload of its group that these outcomes hold,  *)
(* from its oldest copy on.                                                *)
Knows(outs, g) ==
    \A i \in DOMAIN outs :
        LET c == outs[i].capture IN
        Counts(outs[i], runs) /\ Key(c) # None /\ GroupOf(c) = g
            => known[Key(c)] # None /\ known[Key(c)].time <= c.time

CoverInv ==
    /\ \A key \in Keys : known[key] # None => known[key] \in Captures
    /\ \A g \in DOMAIN outcomes \ taken : Knows(archive, g) /\ Knows(outcomes[g], g)

OrderInv ==
    /\ InOrder(archive) /\ InOrder(writing) /\ Across(archive, writing)
    /\ \A g \in DOMAIN outcomes : InOrder(outcomes[g])
    /\ \A g \in DOMAIN outcomes \ taken : Across(archive, outcomes[g])

LEMMA TimesAreNumbers == \A c \in Captures : c.time \in Nat
  BY ResolveAssumption, DecodingAssumption

LEMMA AppendInOrder ==
    ASSUME NEW outs, Sound(outs), NEW o, InOrder(outs), \A i \in DOMAIN outs : Spared(outs[i], o)
    PROVE  InOrder(Append(outs, o))
  <1> DEFINE longer == Append(outs, o)
             n == Len(outs)
  <1>1. /\ DOMAIN outs = 1 .. n /\ n \in Nat /\ DOMAIN longer = 1 .. n + 1
        /\ \A i \in 1 .. n + 1 : longer[i] = IF i = n + 1 THEN o ELSE outs[i]
    BY SoundIsSeq, Appended
  <1> HIDE DEF longer, n
  <1>2. ASSUME NEW i \in DOMAIN longer, NEW j \in DOMAIN longer, i < j PROVE Spared(longer[i], longer[j])
    <2>1. i \in DOMAIN outs /\ longer[i] = outs[i]
      BY <1>1, <1>2
    <2>2. CASE j = n + 1
      BY <1>1, <2>1, <2>2
    <2>3. CASE j # n + 1
      <3>1. j \in DOMAIN outs /\ longer[j] = outs[j]
        BY <1>1, <2>3
      <3> QED  BY <1>2, <2>1, <3>1 DEF InOrder
    <2> QED  BY <2>2, <2>3
  <1> QED  BY <1>2 DEF longer, InOrder

LEMMA TailInOrder ==
    ASSUME NEW outs, Sound(outs), outs # <<>>, InOrder(outs)
    PROVE  InOrder(Tail(outs)) /\ \A j \in DOMAIN Tail(outs) : Spared(Head(outs), Tail(outs)[j])
  <1> DEFINE rest == Tail(outs)
  <1>1. /\ 1 \in DOMAIN outs /\ Head(outs) = outs[1]
        /\ \A i \in DOMAIN rest : i \in Nat /\ 1 < i + 1 /\ i + 1 \in DOMAIN outs /\ rest[i] = outs[i + 1]
    BY TailShifts
  <1> HIDE DEF rest
  <1>2. ASSUME NEW i \in DOMAIN rest, NEW j \in DOMAIN rest, i < j PROVE Spared(rest[i], rest[j])
    <2>1. i + 1 < j + 1
      BY <1>1, <1>2
    <2> QED  BY <1>1, <2>1 DEF InOrder
  <1>3. ASSUME NEW j \in DOMAIN rest PROVE Spared(Head(outs), rest[j])
    BY <1>1 DEF InOrder
  <1> QED  BY <1>2, <1>3 DEF rest, InOrder

(* Captures of different groups do not bar each other. *)
LEMMA OtherGroupSpared ==
    ASSUME NEW x, NEW y, GroupOf(x.capture) # GroupOf(y.capture)
    PROVE  Spared(x, y)
  BY KeyTellsGroup DEF Spared, Bars

(* What a worker decides spares what it knows of. *)
LEMMA AddedIsSpared ==
    ASSUME CoverInv, NEW g \in DOMAIN outcomes, NEW o, Adds(g, o),
           NEW outs, Knows(outs, g), \A i \in DOMAIN outs : outs[i].capture \in Captures
    PROVE  \A i \in DOMAIN outs : Spared(outs[i], o)
  <1> SUFFICES ASSUME NEW i \in DOMAIN outs, Bars(outs[i], o),
                      o.kind \in {"exact", "soft", "other"}, ~Usable(o.capture)
               PROVE  FALSE
    BY DEF Spared, Adds
  <1> DEFINE c == outs[i].capture
  <1>1. Key(c) = Key(o.capture) /\ Key(c) # None /\ Counts(outs[i], runs) /\ c.time <= o.capture.time
    BY DEF Bars, Adds
  <1>2. GroupOf(c) = g
    BY <1>1, KeyTellsGroup DEF Adds
  <1>3. known[Key(c)] # None /\ known[Key(c)].time <= c.time
    BY <1>1, <1>2 DEF Knows
  <1>4. known[Key(c)].time \in Nat /\ c.time \in Nat /\ o.capture.time \in Nat
    <2>1. c \in Captures /\ Key(c) \in Keys
      BY <1>1 DEF Keys
    <2>2. known[Key(c)] \in Captures
      BY <1>3, <2>1 DEF CoverInv
    <2>3. o.capture \in Captures
      BY DEF Adds
    <2> QED  BY <2>1, <2>2, <2>3, TimesAreNumbers
  <1>5. known[Key(c)].time <= o.capture.time
    BY <1>1, <1>3, <1>4
  <1> QED  BY <1>1, <1>3, <1>5 DEF Usable, Representative

LEMMA AddsKeepsCover ==
    ASSUME ListedInv, RevisitInv, GroupsInv, CoverInv, NEW g \in DOMAIN outcomes, NEW o, Adds(g, o)
    PROVE  CoverInv'
  <1>1. /\ UNCHANGED <<archive, runs, selected, taken>> /\ o.capture \in Captures /\ GroupOf(o.capture) = g
        /\ DOMAIN outcomes' = DOMAIN outcomes /\ outcomes'[g] = Append(outcomes[g], o) /\ g \notin taken
        /\ \A h \in DOMAIN outcomes : h # g => outcomes'[h] = outcomes[h]
    BY DEF Adds
  <1>2. \A i \in DOMAIN outcomes'[g] : outcomes'[g][i] = o \/ \E j \in DOMAIN outcomes[g] : outcomes'[g][i] = outcomes[g][j]
    BY <1>1, Appended DEF ListedInv, Sound
  (* What is known of a key only gets older. *)
  <1>3. \A key \in Keys : known[key] # None =>
            known'[key] # None /\ known'[key].time <= known[key].time
    <2> SUFFICES ASSUME NEW key \in Keys, known[key] # None
                 PROVE  known'[key] # None /\ known'[key].time <= known[key].time
      OBVIOUS
    <2>1. known[key] \in Captures /\ known[key].time \in Nat /\ o.capture.time \in Nat
      BY <1>1, TimesAreNumbers DEF CoverInv
    <2>2. CASE known'[key] = known[key]
      BY <2>1, <2>2
    <2>3. CASE known'[key] # known[key]
      <3>1. /\ o.kind \in {"exact", "soft", "other"} /\ ~Usable(o.capture)
            /\ known' = [known EXCEPT ![Key(o.capture)] = o.capture]
        BY <2>3 DEF Adds
      <3>2. key = Key(o.capture) /\ known'[key] = o.capture
        BY <2>3, <3>1 DEF RevisitInv, KnownInv
      <3>3. Representative(o.capture) = known[key]
        <4>1. key # None  BY DEF Keys
        <4> QED  BY <3>2, <4>1 DEF Representative
      <3>4. ~(known[key].time <= o.capture.time)
        BY <3>1, <3>3 DEF Usable
      <3>5. o.capture # None
        BY <1>1, ResolveAssumption
      <3> QED  BY <2>1, <3>2, <3>4, <3>5
    <2> QED  BY <2>2, <2>3
  <1>4. \A key \in Keys : known'[key] # None => known'[key] \in Captures
    BY <1>1 DEF Adds, CoverInv, RevisitInv, KnownInv
  <1>5. ASSUME NEW outs, NEW h, Knows(outs, h), \A i \in DOMAIN outs : outs[i].capture \in Captures
        PROVE  Knows(outs, h)'
    <2> SUFFICES ASSUME NEW i \in DOMAIN outs, Counts(outs[i], runs), Key(outs[i].capture) # None,
                        GroupOf(outs[i].capture) = h
                 PROVE  known'[Key(outs[i].capture)] # None /\ known'[Key(outs[i].capture)].time <= outs[i].capture.time
      BY <1>1 DEF Knows
    <2> DEFINE c == outs[i].capture
    <2>1. known[Key(c)] # None /\ known[Key(c)].time <= c.time
      BY <1>5 DEF Knows
    <2>2. Key(c) \in Keys /\ c \in Captures
      BY <1>5 DEF Keys
    <2>3. known'[Key(c)] # None /\ known'[Key(c)].time <= known[Key(c)].time
      BY <1>3, <2>1, <2>2
    <2>4. c.time \in Nat /\ known[Key(c)].time \in Nat /\ known'[Key(c)].time \in Nat
      BY <1>4, <2>1, <2>2, <2>3, TimesAreNumbers DEF CoverInv
    <2> QED  BY <2>1, <2>3, <2>4
  <1>6. \A i \in DOMAIN archive : archive[i].capture \in Captures
    BY DEF ListedInv, Sound, Faithful
  <1>7. \A h \in DOMAIN outcomes : \A i \in DOMAIN outcomes[h] : outcomes[h][i].capture \in Captures
    BY DEF ListedInv, Sound, Faithful
  <1>8. ASSUME NEW h \in DOMAIN outcomes' \ taken' PROVE Knows(archive, h)' /\ Knows(outcomes[h], h)'
    <2>1. h \in DOMAIN outcomes \ taken /\ Knows(archive, h) /\ Knows(outcomes[h], h)
      BY <1>1, <1>8 DEF CoverInv
    <2>2. Knows(archive, h)'
      <3>1. \A i \in DOMAIN archive :
                LET c == archive[i].capture IN
                Counts(archive[i], runs') /\ Key(c) # None /\ GroupOf(c) = h
                    => known'[Key(c)] # None /\ known'[Key(c)].time <= c.time
        BY <1>5, <1>6, <2>1 DEF Knows
      <3> QED  BY <1>1, <3>1 DEF Knows
    <2>3. CASE h # g
      <3>1. outcomes'[h] = outcomes[h]  BY <1>1, <2>1, <2>3
      <3>2. \A i \in DOMAIN outcomes[h] :
                LET c == outcomes[h][i].capture IN
                Counts(outcomes[h][i], runs') /\ Key(c) # None /\ GroupOf(c) = h
                    => known'[Key(c)] # None /\ known'[Key(c)].time <= c.time
        BY <1>5, <1>7, <2>1 DEF Knows
      <3>3. Knows(outcomes[h], h)'
        BY <3>1, <3>2 DEF Knows
      <3> QED  BY <2>2, <3>3
    <2>4. CASE h = g
      <3>1. \A i \in DOMAIN outcomes[g] :
                LET c == outcomes[g][i].capture IN
                Counts(outcomes[g][i], runs') /\ Key(c) # None /\ GroupOf(c) = g
                    => known'[Key(c)] # None /\ known'[Key(c)].time <= c.time
        BY <1>5, <1>7, <2>1, <2>4 DEF Knows
      <3>2. Counts(o, runs') /\ Key(o.capture) # None => known'[Key(o.capture)] = o.capture
        <4> SUFFICES ASSUME Counts(o, runs'), Key(o.capture) # None PROVE known'[Key(o.capture)] = o.capture
          OBVIOUS
        <4>1. o.kind \in {"exact", "soft"}  BY DEF Counts
        <4>2. known' = [known EXCEPT ![Key(o.capture)] = o.capture]
          BY <4>1 DEF Adds
        <4>3. Key(o.capture) \in DOMAIN known
          BY <1>1 DEF RevisitInv, KnownInv, Keys
        <4> QED  BY <4>2, <4>3
      <3>3. o.capture # None /\ o.capture.time <= o.capture.time
        BY <1>1, TimesAreNumbers, ResolveAssumption
      <3>4. \A i \in DOMAIN outcomes'[g] :
                LET c == outcomes'[g][i].capture IN
                Counts(outcomes'[g][i], runs') /\ Key(c) # None /\ GroupOf(c) = g
                    => known'[Key(c)] # None /\ known'[Key(c)].time <= c.time
        BY <1>2, <3>1, <3>2, <3>3
      <3>5. Knows(outcomes[g], g)'
        BY <3>4 DEF Knows
      <3> QED  BY <2>2, <2>4, <3>5
    <2> QED  BY <2>3, <2>4
  <1> QED  BY <1>4, <1>8 DEF CoverInv

LEMMA AddsKeepsOrder ==
    ASSUME ListedInv, GroupsInv, CoverInv, OrderInv, NEW g \in DOMAIN outcomes, NEW o, Adds(g, o)
    PROVE  OrderInv'
  <1>1. /\ UNCHANGED <<archive, taken, writing>>
        /\ DOMAIN outcomes' = DOMAIN outcomes /\ outcomes'[g] = Append(outcomes[g], o) /\ g \notin taken
        /\ \A h \in DOMAIN outcomes : h # g => outcomes'[h] = outcomes[h]
    BY DEF Adds
  <1>2. Sound(outcomes[g])
    BY DEF ListedInv
  <1>3. \A i \in DOMAIN outcomes'[g] : outcomes'[g][i] = o \/ \E j \in DOMAIN outcomes[g] : outcomes'[g][i] = outcomes[g][j]
    BY <1>1, <1>2, Appended DEF Sound
  <1>4. \A i \in DOMAIN archive : Spared(archive[i], o)
    <2>1. Knows(archive, g)  BY <1>1 DEF CoverInv
    <2>2. \A i \in DOMAIN archive : archive[i].capture \in Captures
      BY DEF ListedInv, Sound, Faithful
    <2> QED  BY <2>1, <2>2, AddedIsSpared
  <1>5. \A i \in DOMAIN outcomes[g] : Spared(outcomes[g][i], o)
    <2>1. Knows(outcomes[g], g)  BY <1>1 DEF CoverInv
    <2>2. \A i \in DOMAIN outcomes[g] : outcomes[g][i].capture \in Captures
      BY DEF ListedInv, Sound, Faithful
    <2> QED  BY <2>1, <2>2, AddedIsSpared
  <1>6. InOrder(outcomes'[g])
    BY <1>1, <1>2, <1>5, AppendInOrder DEF OrderInv
  <1>7. Across(archive, outcomes'[g])
    BY <1>1, <1>3, <1>4 DEF OrderInv, Across
  <1> QED  BY <1>1, <1>6, <1>7 DEF OrderInv

----------------------------------------------------------------------------
LEMMA TakeKeepsOrder == ASSUME ListedInv, CoverInv, OrderInv, TakeGroup PROVE CoverInv' /\ OrderInv'
  <1>1. PICK g \in DOMAIN outcomes \ taken :
            /\ writing' = outcomes[g] /\ taken' = taken \cup {g}
            /\ UNCHANGED <<archive, runs, known, outcomes>>
    BY TakenIsComplete
  <1>2. CoverInv'
    BY <1>1 DEF CoverInv, Knows
  <1>3. OrderInv'
    BY <1>1 DEF OrderInv
  <1> QED  BY <1>2, <1>3

(* What the writer appends is of a group that no worker is at any more.    *)
LEMMA CommitKeepsOrder == ASSUME ListedInv, GroupsInv, CoverInv, OrderInv, Commit PROVE CoverInv' /\ OrderInv'
  <1> DEFINE o == Head(writing)
  <1>1. /\ writing # <<>> /\ writing' = Tail(writing) /\ o = writing[1] /\ 1 \in DOMAIN writing
        /\ GroupOf(o.capture) \in taken
        /\ archive' = IF o.kind \in {"existing", "failure"} THEN archive ELSE Append(archive, o)
        /\ \A i \in DOMAIN archive' : archive'[i] = o \/ \E j \in DOMAIN archive : archive'[i] = archive[j]
        /\ \A i \in DOMAIN writing' : \E j \in DOMAIN writing : writing'[i] = writing[j]
        /\ UNCHANGED <<runs, known, outcomes, taken>>
    BY CommitMoves
  <1>2. InOrder(writing') /\ \A j \in DOMAIN writing' : Spared(o, writing'[j])
    BY <1>1, TailInOrder DEF ListedInv, OrderInv
  <1> HIDE DEF o
  <1>3. Across(archive', writing')
    BY <1>1, <1>2 DEF OrderInv, Across
  <1>4. InOrder(archive')
    <2>1. CASE o.kind \in {"existing", "failure"}
      BY <1>1, <2>1 DEF OrderInv
    <2>2. CASE o.kind \notin {"existing", "failure"}
      <3>1. \A i \in DOMAIN archive : Spared(archive[i], o)
        BY <1>1 DEF OrderInv, Across
      <3> QED  BY <1>1, <2>2, <3>1, AppendInOrder DEF ListedInv, OrderInv
    <2> QED  BY <2>1, <2>2
  <1>5. ASSUME NEW g \in DOMAIN outcomes \ taken PROVE Across(archive', outcomes[g]) /\ Knows(archive, g)'
    <2>1. GroupOf(o.capture) # g
      BY <1>1
    <2>2. \A j \in DOMAIN outcomes[g] : Spared(o, outcomes[g][j])
      BY <2>1, OtherGroupSpared DEF GroupsInv
    <2>3. Across(archive, outcomes[g]) /\ Knows(archive, g)
      BY DEF OrderInv, CoverInv
    <2>4. Across(archive', outcomes[g])
      BY <1>1, <2>2, <2>3 DEF Across
    <2>5. Knows(archive, g)'
      BY <1>1, <2>1, <2>3 DEF Knows
    <2> QED  BY <2>4, <2>5
  <1>6. CoverInv'
    BY <1>1, <1>5 DEF CoverInv, Knows
  <1>7. OrderInv'
    BY <1>1, <1>2, <1>3, <1>4, <1>5 DEF OrderInv
  <1> QED  BY <1>6, <1>7

(* The inventory of a new run knows the oldest exact copy of each payload; *)
(* soft copies of earlier runs do not count.                               *)
LEMMA InventoryCovers ==
    ASSUME NEW records, \A i \in DOMAIN records : records[i].capture \in Captures,
           NEW i \in DOMAIN records, records[i].kind = "exact", Key(records[i].capture) # None
    PROVE  LET c == records[i].capture IN
           /\ Representatives(records)[Key(c)] # None
           /\ Representatives(records)[Key(c)].time <= c.time
  <1> DEFINE c == records[i].capture
             S == Exact(records, Key(c))
  <1>1. S \subseteq Captures /\ c \in S
    BY DEF Exact, Stored
  <1>2. Key(c) \in Keys
    BY <1>1 DEF Keys
  <1>3. First(S) # {} /\ \A d \in First(S) : d \in S /\ d.time <= c.time
    <2> HIDE DEF S
    <2> QED  BY <1>1, FirstExists DEF First
  <1>4. Oldest(S) \in First(S)
    <2> HIDE DEF S
    <2> QED  BY <1>1, <1>3 DEF Oldest
  <1>5. Representatives(records)[Key(c)] = Oldest(S)
    BY <1>2 DEF Representatives
  <1>6. Oldest(S) # None
    <2> HIDE DEF S
    <2> QED  BY <1>1, <1>3, <1>4, ResolveAssumption
  <1> QED  BY <1>3, <1>4, <1>5, <1>6

LEMMA RepresentativesAreListed ==
    ASSUME NEW records, \A i \in DOMAIN records : records[i].capture \in Captures,
           NEW key \in Keys, Representatives(records)[key] # None
    PROVE  Representatives(records)[key] \in Captures
  <1> DEFINE S == Exact(records, key)
  <1>1. S \subseteq Captures
    BY DEF Exact, Stored
  <1>2. Representatives(records)[key] = Oldest(S)
    BY DEF Representatives
  <1> HIDE DEF S
  <1>3. S # {} /\ Oldest(S) = CHOOSE c \in First(S) : TRUE
    BY <1>2 DEF Oldest
  <1>4. First(S) # {} /\ First(S) \subseteq S
    BY <1>1, <1>3, FirstExists DEF First
  <1> QED  BY <1>1, <1>2, <1>3, <1>4

LEMMA NextKeepsOrder ==
    ListedInv /\ RevisitInv /\ GroupsInv /\ CoverInv /\ OrderInv /\ [Next]_vars => CoverInv' /\ OrderInv'
  <1> SUFFICES ASSUME ListedInv, RevisitInv, GroupsInv, CoverInv, OrderInv, [Next]_vars PROVE CoverInv' /\ OrderInv'
    OBVIOUS
  <1>0. DOMAIN <<>> = {}
    OBVIOUS
  <1>1. CASE Start
    <2>1. /\ archive' = archive /\ runs' = runs + 1 /\ known' = Representatives(archive) /\ writing' = <<>>
          /\ \A g \in DOMAIN outcomes' : outcomes'[g] = <<>>
      BY <1>1 DEF Start
    <2>2. \A i \in DOMAIN archive : archive[i].capture \in Captures /\ archive[i].run # runs'
      BY <2>1 DEF ListedInv, GroupsInv, Sound, Faithful
    <2>3. \A g \in DOMAIN outcomes' : Knows(archive, g)' /\ Knows(outcomes[g], g)'
      <3>1. ASSUME NEW i \in DOMAIN archive, Counts(archive[i], runs'), Key(archive[i].capture) # None
            PROVE  LET c == archive[i].capture IN
                   known'[Key(c)] # None /\ known'[Key(c)].time <= c.time
        <4>1. archive[i].kind = "exact"  BY <2>2, <3>1 DEF Counts
        <4> QED  BY <2>1, <2>2, <3>1, <4>1, InventoryCovers
      <3> QED  BY <1>0, <2>1, <3>1 DEF Knows
    <2>4. CoverInv'
      <3>1. \A key \in Keys : Representatives(archive)[key] # None => Representatives(archive)[key] \in Captures
        BY <2>2, RepresentativesAreListed
      <3> QED  BY <2>1, <2>3, <3>1 DEF CoverInv
    <2>5. OrderInv'
      BY <1>0, <2>1 DEF OrderInv, InOrder, Across
    <2> QED  BY <2>4, <2>5
  <1>2. CASE TakeGroup  BY <1>2, TakeKeepsOrder
  <1>3. CASE Commit  BY <1>3, CommitKeepsOrder
  <1>4. CASE Finish \/ UNCHANGED vars
    <2>1. UNCHANGED <<archive, runs, known, outcomes, taken, writing>>
      BY <1>4 DEF Finish, process, vars
    <2> QED  BY <2>1 DEF CoverInv, Knows, OrderInv
  <1>5. CASE Leave \/ Stop
    <2>1. archive' = archive /\ writing' = <<>> /\ outcomes' = <<>> /\ known' = Representatives(<<>>)
      BY <1>5 DEF Leave, Stop, Forget
    <2>2. \A key \in Keys : known'[key] # None => known'[key] \in Captures
      BY <1>0, <2>1, RepresentativesAreListed
    <2> QED  BY <1>0, <2>1, <2>2 DEF CoverInv, OrderInv, InOrder, Across
  <1>6. CASE \E g \in DOMAIN outcomes : Reuse(g) \/ Revisit(g) \/ DownloadFails(g) \/ Download(g)
    <2>1. PICK g \in DOMAIN outcomes : \E o : Adds(g, o)
      BY <1>6, WorkerAdds
    <2> QED  BY <2>1, AddsKeepsCover, AddsKeepsOrder
  <1> QED  BY <1>1, <1>2, <1>3, <1>4, <1>5, <1>6 DEF Next

----------------------------------------------------------------------------
(***************************************************************************)
(* The account                                                             *)
(***************************************************************************)
(* The captures the writer is done with. *)
Settled == {c \in selected : GroupOf(c) \in taken /\ c \notin Stored(writing)}

(* What is settled is stored or failed; of the rest the archive has what   *)
(* it had when the run started.                                            *)
AccountInv ==
    /\ Distinct(archive) /\ IsFiniteSet(selected) /\ failures \subseteq Settled
    /\ \A c \in Settled : (c \in Stored(archive)) = (c \notin failures)
    /\ \A c \in selected \ Settled : (c \in Stored(archive)) = (c \in existing)
    /\ pc = "done" => Settled = selected

MetricsInv ==
    /\ metrics \in [local_reuses : Nat, downloads : Nat, revisits : Nat, represented : Nat]
    /\ metrics.represented = metrics.local_reuses + metrics.revisits + metrics.downloads
    /\ metrics.represented + Cardinality(failures) = Cardinality(Settled)

(* Records of different captures are as many as the captures. *)
LEMMA DistinctIsCounted ==
    ASSUME NEW outs, Sound(outs), Distinct(outs)
    PROVE  Cardinality(Stored(outs)) = Len(outs)
  <1> DEFINE S == Stored(outs)
             f == [i \in 1 .. Len(outs) |-> outs[i].capture]
  <1>1. DOMAIN outs = 1 .. Len(outs) /\ Len(outs) \in Nat
    BY SoundIsSeq
  <1>2. f \in Bijection(1 .. Len(outs), S)
    <2>1. f \in [1 .. Len(outs) -> S] /\ \A c \in S : \E i \in 1 .. Len(outs) : f[i] = c
      BY <1>1 DEF Stored
    <2>2. \A i, j \in 1 .. Len(outs) : f[i] = f[j] => i = j
      BY <1>1 DEF Distinct
    <2> QED  BY <2>1, <2>2 DEF Bijection, Injection, Surjection, IsInjective
  <1>3. ExistsBijection(1 .. Len(outs), S)
    BY <1>2 DEF ExistsBijection
  <1> QED  BY <1>1, <1>3, FS_CountingElements

(* What a worker adds, and what the writer takes, settles nothing. *)
LEMMA AddsKeepsAccount ==
    ASSUME AccountInv, MetricsInv, NEW g \in DOMAIN outcomes, NEW o, Adds(g, o)
    PROVE  AccountInv' /\ MetricsInv'
  <1>1. UNCHANGED <<archive, pc, selected, existing, taken, writing, failures, metrics>>
    BY DEF Adds
  <1>2. Settled' = Settled
    BY <1>1 DEF Settled
  <1> QED  BY <1>1, <1>2 DEF AccountInv, MetricsInv

LEMMA TakeKeepsAccount ==
    ASSUME ListedInv, GroupsInv, AccountInv, MetricsInv, TakeGroup
    PROVE  AccountInv' /\ MetricsInv'
  <1>1. PICK g \in DOMAIN outcomes \ taken :
            /\ writing = <<>> /\ writing' = outcomes[g] /\ Left(g) = {} /\ taken' = taken \cup {g}
            /\ UNCHANGED <<archive, pc, selected, existing, failures, metrics>>
    BY TakenIsComplete
  <1>2. Stored(writing) = {}
    <2>1. DOMAIN writing = {}  BY <1>1
    <2> QED  BY <2>1 DEF Stored
  <1>3. \A c \in selected : GroupOf(c) = g <=> c \in Stored(outcomes[g])
    <2>1. \A c \in selected : GroupOf(c) = g => c \in Stored(outcomes[g])
      BY <1>1 DEF Left
    <2>2. \A c \in Stored(outcomes[g]) : GroupOf(c) = g
      BY DEF GroupsInv, Stored
    <2> QED  BY <2>1, <2>2
  <1>4. Settled' = Settled
    BY <1>1, <1>2, <1>3 DEF Settled
  <1> QED  BY <1>1, <1>4 DEF AccountInv, MetricsInv

(* One more is represented, and one more of its kind. *)
LEMMA OneMoreCounted ==
    ASSUME NEW m \in [local_reuses : Nat, downloads : Nat, revisits : Nat, represented : Nat],
           m.represented = m.local_reuses + m.revisits + m.downloads,
           NEW kind \in {"local_reuses", "downloads", "revisits"}
    PROVE  LET more == [m EXCEPT ![kind] = @ + 1, !.represented = @ + 1] IN
           /\ more \in [local_reuses : Nat, downloads : Nat, revisits : Nat, represented : Nat]
           /\ more.represented = more.local_reuses + more.revisits + more.downloads
           /\ more.represented = m.represented + 1 /\ m.represented \in Nat
  <1> DEFINE more == [m EXCEPT ![kind] = @ + 1, !.represented = @ + 1]
  <1>1. m.local_reuses \in Nat /\ m.downloads \in Nat /\ m.revisits \in Nat /\ m.represented \in Nat
    OBVIOUS
  <1>2. /\ more.represented = m.represented + 1
        /\ more.local_reuses = m.local_reuses + (IF kind = "local_reuses" THEN 1 ELSE 0)
        /\ more.downloads = m.downloads + (IF kind = "downloads" THEN 1 ELSE 0)
        /\ more.revisits = m.revisits + (IF kind = "revisits" THEN 1 ELSE 0)
    BY <1>1
  <1>3. more \in [local_reuses : Nat, downloads : Nat, revisits : Nat, represented : Nat]
    <2> DEFINE one == [m EXCEPT ![kind] = @ + 1]
    <2>1. one \in [local_reuses : Nat, downloads : Nat, revisits : Nat, represented : Nat]
      OBVIOUS
    <2>2. more = [one EXCEPT !.represented = @ + 1]
      OBVIOUS
    <2> HIDE DEF one, more
    <2> QED  BY <2>1, <2>2
  <1> HIDE DEF more
  <1>4. more.represented = more.local_reuses + more.revisits + more.downloads
    BY <1>1, <1>2
  <1> QED  BY <1>1, <1>2, <1>3, <1>4 DEF more

(* The writer settles the capture whose outcome it commits. *)
LEMMA CommitKeepsAccount ==
    ASSUME ListedInv, GroupsInv, AccountInv, MetricsInv, Commit
    PROVE  AccountInv' /\ MetricsInv'
  <1> DEFINE o == Head(writing)
             c == o.capture
  <1>1. /\ c \in selected /\ GroupOf(c) \in taken /\ (o.kind = "existing" <=> c \in existing)
        /\ Stored(writing) = Stored(writing') \cup {c} /\ c \notin Stored(writing')
        /\ archive' = IF o.kind \in {"existing", "failure"} THEN archive ELSE Append(archive, o)
        /\ Stored(archive') = IF o.kind \in {"existing", "failure"} THEN Stored(archive) ELSE Stored(archive) \cup {c}
        /\ UNCHANGED <<pc, selected, existing, taken>>
    BY CommitMoves
  <1>2. /\ failures' = IF o.kind = "failure" THEN failures \cup {c} ELSE failures
        /\ metrics' = Count(o.kind) /\ pc = "run"
    BY DEF Commit
  <1> HIDE DEF o, c
  <1>3. Settled' = Settled \cup {c} /\ c \notin Settled
    BY <1>1 DEF Settled
  <1>4. (c \in Stored(archive)) = (c \in existing) /\ c \notin failures
    BY <1>1, <1>3 DEF AccountInv
  <1>5. Distinct(archive')
    <2>1. CASE o.kind \in {"existing", "failure"}
      BY <1>1, <2>1 DEF AccountInv
    <2>2. CASE o.kind \notin {"existing", "failure"}
      <3>1. c \notin Stored(archive)
        BY <1>1, <1>4, <2>2
      <3> QED  BY <1>1, <2>2, <3>1, AppendDistinct DEF c, ListedInv, AccountInv
    <2> QED  BY <2>1, <2>2
  <1>6. (c \in Stored(archive')) = (c \notin failures')
    BY <1>1, <1>2, <1>4
  <1>7. \A d \in selected \ {c} : /\ (d \in Stored(archive')) = (d \in Stored(archive))
                                  /\ (d \in failures') = (d \in failures)
    BY <1>1, <1>2
  <1>8. AccountInv'
    BY <1>1, <1>2, <1>3, <1>5, <1>6, <1>7 DEF AccountInv, Settled
  <1>9. Cardinality(Settled') = Cardinality(Settled) + 1 /\ Cardinality(Settled) \in Nat
    <2>1. IsFiniteSet(Settled)
      <3>1. Settled \in SUBSET selected  BY DEF Settled
      <3> QED  BY <3>1, FS_Subset DEF AccountInv
    <2> QED  BY <1>3, <2>1, FS_AddElement, FS_CardinalityType
  <1>10. /\ Cardinality(failures) \in Nat
         /\ Cardinality(failures') = Cardinality(failures) + (IF o.kind = "failure" THEN 1 ELSE 0)
    <2>1. IsFiniteSet(failures)
      <3>1. failures \in SUBSET selected  BY DEF AccountInv, Settled
      <3> QED  BY <3>1, FS_Subset DEF AccountInv
    <2>2. Cardinality(failures) \in Nat
      BY <2>1, FS_CardinalityType
    <2>3. CASE o.kind = "failure"
      BY <1>2, <1>4, <2>1, <2>2, <2>3, FS_AddElement
    <2>4. CASE o.kind # "failure"
      BY <1>2, <2>2, <2>4
    <2> QED  BY <2>2, <2>3, <2>4
  <1>11. /\ metrics' \in [local_reuses : Nat, downloads : Nat, revisits : Nat, represented : Nat]
         /\ metrics'.represented = metrics'.local_reuses + metrics'.revisits + metrics'.downloads
         /\ metrics'.represented = metrics.represented + (IF o.kind = "failure" THEN 0 ELSE 1)
         /\ metrics.represented \in Nat
    <2>1. CASE o.kind = "failure"
      BY <1>2, <2>1 DEF Count, MetricsInv
    <2>2. CASE o.kind # "failure"
      <3>1. \E kind \in {"local_reuses", "downloads", "revisits"} :
                metrics' = [metrics EXCEPT ![kind] = @ + 1, !.represented = @ + 1]
        BY <1>2, <2>2 DEF Count
      <3>2. PICK kind \in {"local_reuses", "downloads", "revisits"} :
                metrics' = [metrics EXCEPT ![kind] = @ + 1, !.represented = @ + 1]
        BY <3>1
      <3>3. /\ metrics \in [local_reuses : Nat, downloads : Nat, revisits : Nat, represented : Nat]
            /\ metrics.represented = metrics.local_reuses + metrics.revisits + metrics.downloads
        BY DEF MetricsInv
      <3>4. /\ metrics' \in [local_reuses : Nat, downloads : Nat, revisits : Nat, represented : Nat]
            /\ metrics'.represented = metrics'.local_reuses + metrics'.revisits + metrics'.downloads
            /\ metrics'.represented = metrics.represented + 1 /\ metrics.represented \in Nat
        <4> DEFINE more == [metrics EXCEPT ![kind] = @ + 1, !.represented = @ + 1]
        <4>1. /\ more \in [local_reuses : Nat, downloads : Nat, revisits : Nat, represented : Nat]
              /\ more.represented = more.local_reuses + more.revisits + more.downloads
              /\ more.represented = metrics.represented + 1 /\ metrics.represented \in Nat
          BY <3>3, OneMoreCounted
        <4>2. metrics' = more
          BY <3>2
        <4> HIDE DEF more
        <4> QED  BY <4>1, <4>2
      <3> QED  BY <2>2, <3>4
    <2> QED  BY <2>1, <2>2
  <1>12. metrics'.represented + Cardinality(failures') = Cardinality(Settled')
    <2>1. metrics.represented + Cardinality(failures) = Cardinality(Settled)
      BY DEF MetricsInv
    <2> QED  BY <1>9, <1>10, <1>11, <2>1
  <1>13. MetricsInv'
    BY <1>11, <1>12 DEF MetricsInv
  <1> QED  BY <1>8, <1>13

(* When the writer has taken every group and holds nothing, all is settled. *)
LEMMA FinishKeepsAccount ==
    ASSUME AccountInv, MetricsInv, Finish
    PROVE  AccountInv' /\ MetricsInv'
  <1>1. UNCHANGED <<archive, process>> /\ writing = <<>> /\ \A c \in selected : GroupOf(c) \in taken
    BY DEF Finish
  <1>2. UNCHANGED <<archive, selected, existing, taken, writing, failures, metrics>> /\ Settled' = Settled
    BY <1>1 DEF process, Settled
  <1>3. Settled = selected
    <2>1. Stored(writing) = {}
      <3>1. DOMAIN writing = {}  BY <1>1
      <3> QED  BY <3>1 DEF Stored
    <2> QED  BY <1>1, <2>1 DEF Settled
  <1> QED  BY <1>2, <1>3 DEF AccountInv, MetricsInv

(* A run begins, and is left, with nothing settled and nothing counted. *)
LEMMA ClearedIsAccounted ==
    ASSUME taken' = {}, failures' = {}, metrics' = Zero, pc' # "done", archive' = archive, Distinct(archive),
           IsFiniteSet(selected'), \A c \in selected' : (c \in Stored(archive)) = (c \in existing')
    PROVE  AccountInv' /\ MetricsInv'
  <1>1. Settled' = {}
    BY DEF Settled
  <1>2. Cardinality({}) = 0
    BY FS_EmptySet
  <1>3. AccountInv'
    BY <1>1 DEF AccountInv
  <1>4. MetricsInv'
    BY <1>1, <1>2 DEF MetricsInv, Zero
  <1> QED  BY <1>3, <1>4

LEMMA NextKeepsAccount ==
    ListedInv /\ GroupsInv /\ AccountInv /\ MetricsInv /\ [Next]_vars => AccountInv' /\ MetricsInv'
  <1> SUFFICES ASSUME ListedInv, GroupsInv, AccountInv, MetricsInv, [Next]_vars PROVE AccountInv' /\ MetricsInv'
    OBVIOUS
  <1>1. CASE Start
    <2>1. /\ plan' \in Plans /\ selected' = Discover(plan') /\ existing' = Stored(archive)
          /\ taken' = {} /\ failures' = {} /\ metrics' = Zero /\ pc' = "run" /\ archive' = archive
      BY <1>1 DEF Start, ListedInv, SelectionInv
    <2>2. IsFiniteSet(selected')
      <3>1. IsFiniteSet(Lists[plan'.source])
        BY <2>1, ResolveAssumption
      <3>2. selected' \in SUBSET Lists[plan'.source]
        BY <2>1 DEF Discover
      <3> QED  BY <3>1, <3>2, FS_Subset
    <2> QED  BY <2>1, <2>2, ClearedIsAccounted DEF AccountInv
  <1>2. CASE TakeGroup  BY <1>2, TakeKeepsAccount
  <1>3. CASE Commit  BY <1>3, CommitKeepsAccount
  <1>4. CASE Finish  BY <1>4, FinishKeepsAccount
  <1>5. CASE Leave \/ Stop
    <2>1. /\ selected' = {} /\ taken' = {} /\ failures' = {} /\ metrics' = Zero
          /\ pc' = "idle" /\ archive' = archive
      BY <1>5 DEF Leave, Stop, Forget
    <2> QED  BY <2>1, FS_EmptySet, ClearedIsAccounted DEF AccountInv
  <1>6. CASE \E g \in DOMAIN outcomes : Reuse(g) \/ Revisit(g) \/ DownloadFails(g) \/ Download(g)
    BY <1>6, WorkerAdds, AddsKeepsAccount
  <1>7. CASE UNCHANGED vars
    BY <1>7 DEF vars, process, AccountInv, MetricsInv, Settled
  <1> QED  BY <1>1, <1>2, <1>3, <1>4, <1>5, <1>6, <1>7 DEF Next

----------------------------------------------------------------------------
(***************************************************************************)
(* Both, for every behaviour                                               *)
(***************************************************************************)
IInv == ListedInv /\ RevisitInv /\ GroupsInv /\ CoverInv /\ OrderInv /\ AccountInv /\ MetricsInv

LEMMA InitIInv == Init => IInv
  <1> SUFFICES ASSUME Init PROVE IInv  OBVIOUS
  <1>1. /\ archive = <<>> /\ outcomes = <<>> /\ writing = <<>> /\ known = Representatives(<<>>) /\ plan \in Plans
        /\ selected = {} /\ taken = {} /\ failures = {} /\ metrics = Zero /\ runs = 0 /\ pc = "idle"
    BY DEF Init
  <1>2. DOMAIN <<>> = {} /\ Cardinality({}) = 0 /\ IsFiniteSet({})
    BY FS_EmptySet
  <1>3. ListedInv /\ RevisitInv
    <2>1. KnownInv
      BY <1>1, <1>2, InventoryIsKnown, NothingHeld DEF KnownInv
    <2> QED  BY <1>1, <2>1, NothingIsSound, NothingIsBacked DEF ListedInv, SelectionInv, RevisitInv
  <1>4. GroupsInv
    BY <1>1, <1>2 DEF GroupsInv, Walked, Distinct
  <1>5. CoverInv /\ OrderInv
    <2>1. \A key \in Keys : known[key] # None => known[key] \in Captures
      BY <1>1, <1>2, RepresentativesAreListed
    <2> QED  BY <1>1, <1>2, <2>1 DEF CoverInv, OrderInv, InOrder, Across
  <1>6. AccountInv /\ MetricsInv
    <2>1. Settled = {}  BY <1>1 DEF Settled
    <2> QED  BY <1>1, <1>2, <2>1 DEF AccountInv, MetricsInv, Distinct, Zero
  <1> QED  BY <1>3, <1>4, <1>5, <1>6 DEF IInv

LEMMA NextKeepsIInv == IInv /\ [Next]_vars => IInv'
  BY NextKeepsListed, NextKeepsRevisits, NextKeepsGroups, NextKeepsOrder, NextKeepsAccount DEF IInv

LEMMA InOrderIsOneCopy == ListedInv /\ OrderInv => OneCopy
  <1> SUFFICES ASSUME ListedInv, OrderInv, NEW i \in DOMAIN archive, NEW j \in DOMAIN archive,
                      i < j, Bars(archive[i], archive[j])
               PROVE  archive[j].kind = "revisit"
    BY DEF OneCopy, Bars, Counts
  <1>1. archive[j].kind \in {"revisit", "existing", "failure"}
    BY DEF OrderInv, InOrder, Spared
  <1> QED  BY <1>1 DEF ListedInv

(* However runs were stopped, ranges and sources chosen and groups         *)
(* resolved at a time: no payload the archive holds is stored once more    *)
(* for a later capture of it.  A worker knows the oldest copy in the       *)
(* archive and in its own group (CoverInv), and only its own group can     *)
(* hold one.                                                               *)
THEOREM NothingIsCopied == Spec => []OneCopy
  <1>1. IInv => OneCopy
    BY InOrderIsOneCopy DEF IInv
  <1> QED  BY <1>1, InitIInv, NextKeepsIInv, PTL DEF Spec

(* However the groups were resolved and whatever earlier runs left: when a *)
(* run is done, every selected capture is in one record of the archive or  *)
(* among the failures, and the counts add up to the selection.             *)
THEOREM EverythingIsAccounted == Spec => []Accounted
  <1>1. IInv => Accounted
    <2> SUFFICES ASSUME IInv, pc = "done"
                 PROVE  /\ \A c \in selected : (c \in Stored(archive)) = (c \notin failures)
                        /\ Cardinality(Stored(archive)) = Len(archive)
                        /\ metrics.represented + Cardinality(failures) = Cardinality(selected)
                        /\ metrics.represented = metrics.local_reuses + metrics.revisits + metrics.downloads
      BY DEF Accounted
    <2>1. Settled = selected
      BY DEF IInv, AccountInv
    <2>2. Cardinality(Stored(archive)) = Len(archive)
      BY DistinctIsCounted DEF IInv, ListedInv, AccountInv
    <2> QED  BY <2>1, <2>2 DEF IInv, AccountInv, MetricsInv
  <1> QED  BY <1>1, InitIInv, NextKeepsIInv, PTL DEF Spec
=============================================================================
