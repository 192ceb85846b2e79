------------------------------ MODULE Decoding ------------------------------
(***************************************************************************)
(* What becomes of a source's answer to the request for one capture:       *)
(* decode_memento.py for the Wayback Machine, and for Common Crawl         *)
(* retrieve_common_crawl_range.py and decode_common_crawl_capture.py, with *)
(* the recovery of two defects of ARC records that a digest can verify.    *)
(*                                                                         *)
(* Bytes are a sequence of letters: "h" stands for the HTTP header block,  *)
(* "n" for a newline, "e" for the end of a WARC record, "stub" for the     *)
(* Invalid-URI page; a digest is the bytes it is the digest of.            *)
(***************************************************************************)
EXTENDS Naturals, Sequences, FiniteSets, SequencesExt

CONSTANTS
    Urls,
    Escaped,        (* a URL with its spaces written %20                     *)
    Unquoted,       (* a URL with every escape undone                        *)
    Times, Statuses, Bodies, (* what a source may hold                       *)
    Missing,        (* the missing digest                                    *)
    Unknown         (* the status of a capture listed without one            *)

Redirects == 300 .. 399

ASSUME DecodingAssumption ==
    /\ Escaped \in [Urls -> Urls] /\ Unquoted \in [Urls -> Urls]
    /\ \A u \in Urls : Unquoted[Escaped[u]] = Unquoted[u]
    /\ Times \subseteq Nat /\ Statuses \subseteq Nat /\ Unknown \notin Statuses
    /\ \A b \in Bodies : b \in Seq({"x", "y", "n", "stub"})

(* A failed decoding: to be tried again or recovered, or for good. *)
Corrupt == [kind |-> "corrupt"]
Refused == [kind |-> "refused"]

(* A CaptureResult.  Its body has the listed digest, has it but for a      *)
(* newline, or does not match it; the record may have been repaired.       *)
Result(r, body, kind, repaired) ==
    [kind |-> kind, body |-> body, repaired |-> repaired,
     date |-> r.time, status |-> r.status, resource |-> Unquoted[r.url]]

(* The same resource but for escapes; a URL as recovery reads it. *)
SameOriginalUrl(u, v) == Unquoted[u] = Unquoted[v]
RecoveryUrl(u) == Escaped[u]

SameStatus(r, c) == c.status \in {Unknown, r.status}

----------------------------------------------------------------------------
(***************************************************************************)
(* Wayback Machine                                                         *)
(***************************************************************************)
Stub == <<"stub">>
Playbacks == [url : Urls, time : Times, status : Statuses, body : Bodies \cup {Stub}]

(* The Invalid-URI page, or an empty body that the listing contradicts. *)
Unusable(r, c) ==
    \/ r.body # <<>> /\ Head(r.body) = "stub"
    \/ r.body = <<>> /\ r.status \notin Redirects /\ c.digest \notin {Missing, <<>>}

Matched(body, c) ==
    CASE body = c.digest -> "exact"
      [] c.digest = Missing \/ body \o <<"n">> = c.digest -> "soft"
      [] OTHER -> "other"

(* Broken variant: the nearest capture will do. *)
DecodeNearest(r, c) ==
    IF ~Unusable(r, c) /\ SameOriginalUrl(r.url, c.url) /\ SameStatus(r, c)
    THEN Result(r, r.body, Matched(r.body, c), FALSE) ELSE Refused

DecodeMemento(r, c) ==
    IF ~Unusable(r, c) /\ r.time = c.time /\ SameOriginalUrl(r.url, c.url) /\ SameStatus(r, c)
    THEN Result(r, r.body, Matched(r.body, c), FALSE) ELSE Refused

----------------------------------------------------------------------------
(***************************************************************************)
(* Common Crawl                                                            *)
(***************************************************************************)
(* The crawler's record, as it is delivered: the block and what follows    *)
(* it, the block's declared length, whether it is an HTTP response, whether *)
(* it declares itself truncated, what was damaged on the way.              *)
Blocks == {<<"h">> \o b : b \in Bodies} \cup {<<>>}
Ends == [arc |-> {<<>>, <<"n">>}, warc |-> {<<"e">>, <<>>}]
Delivered(format) ==
    [format : {format}, url : Urls, time : Times, status : Statuses,
     rest : {b \o e : b \in Blocks, e \in Ends[format]}, declared : 0 .. 3,
     response : BOOLEAN, truncated : BOOLEAN, damage : {"none", "range", "member"}]

(* The answer is the advertised range, the whole of it and nothing else. *)
Ranged(r) == r.damage # "range"
(* The range is one complete gzip member. *)
Inflated(r) == r.damage # "member"

(* The identity of a repaired record is compared up to the spaces in URLs. *)
Identified(r, c, repaired) ==
    /\ IF repaired THEN RecoveryUrl(r.url) = RecoveryUrl(c.url) ELSE r.url = c.url
    /\ r.time = c.time /\ SameStatus(r, c)

DecodeBlock(r, block, c, repaired) ==
    IF ~r.response THEN Refused ELSE IF block = <<>> THEN Corrupt
    ELSE IF r.truncated \/ ~Identified(r, c, repaired) THEN Refused
    ELSE Result(r, Tail(block), IF Tail(block) = c.digest THEN "exact" ELSE "other", repaired)

(* Framed(r, length, ends): the block is followed by one of these ends. *)
Framed(r, length, ends) ==
    length <= Len(r.rest) /\ SubSeq(r.rest, length + 1, Len(r.rest)) \in ends

DecodeRecord(r, length, ends, c, repaired) ==
    IF Framed(r, length, ends) THEN DecodeBlock(r, SubSeq(r.rest, 1, length), c, repaired) ELSE Corrupt

DecodeArc(r, length, c, repaired) == DecodeRecord(r, length, {<<>>, <<"n">>}, c, repaired)

(* A header line has five fields, so a space in the URL makes it invalid. *)
StrictArc(r, c) == IF RecoveryUrl(r.url) # r.url THEN Corrupt ELSE DecodeArc(r, r.declared, c, FALSE)

(* The block is all that follows the header, or all but a last newline. *)
Lengths(r) ==
    {Len(r.rest)} \cup (IF r.rest # <<>> /\ Last(r.rest) = "n" THEN {Len(r.rest) - 1} ELSE {})

(* Candidates differ from the record in their header only: the length, or  *)
(* the spaces of the URL.                                                  *)
Candidates(r, c) ==
    { DecodeArc([r EXCEPT !.url = RecoveryUrl(@)], length, c, TRUE) :
        length \in {l \in Lengths(r) : l # r.declared \/ RecoveryUrl(r.url) # r.url} }

(* Broken variant: the only candidate that can be read is taken. *)
RecoverUnverified(r, c) ==
    LET read == Candidates(r, c) \ {Corrupt}
    IN  IF c.digest = Missing \/ Refused \in read \/ Cardinality(read) # 1 THEN Refused
        ELSE CHOOSE result \in read : TRUE

(* One candidate, and one only, has the listed digest. *)
RecoverArc(r, c) ==
    LET accepted == {result \in Candidates(r, c) : result.kind = "exact"}
    IN  IF c.digest = Missing \/ Refused \in Candidates(r, c) \/ Cardinality(accepted) # 1 THEN Refused
        ELSE CHOOSE result \in accepted : TRUE

DecodeCommonCrawl(r, c) ==
    IF ~Ranged(r) \/ ~Inflated(r) THEN Corrupt
    ELSE IF r.format = "warc" THEN DecodeRecord(r, r.declared, {<<"e">>}, c, FALSE)
    ELSE IF StrictArc(r, c) = Corrupt THEN RecoverArc(r, c) ELSE StrictArc(r, c)

----------------------------------------------------------------------------
(***************************************************************************)
(* Both, as resolve_captures sees them                                     *)
(***************************************************************************)
Sources == {"wayback", "common_crawl"}

(* The Wayback adapter does not ask for what is listed as the stub. *)
Preflight(source, c) == source = "wayback" => c.digest # Stub

Decoded(source, c) ==
    IF source = "wayback" THEN {DecodeMemento(r, c) : r \in Playbacks}
    ELSE {DecodeCommonCrawl(r, c) : r \in Delivered("arc") \cup Delivered("warc")}

(* The results a capture can come to; any attempt may fail instead. *)
Acquired(source, c) == IF Preflight(source, c) THEN Decoded(source, c) \ {Corrupt, Refused} ELSE {}
=============================================================================
