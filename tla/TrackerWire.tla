---------------------------- MODULE TrackerWire ----------------------------
(***************************************************************************)
(* A message between TrackerClient and the tracker while it is on its way: *)
(* an announce as the query of a URL (peer/tracker_client.py builds it,    *)
(* tracker/tracker_server.py parses it), or a reply in Bencode (the other  *)
(* way round).  A reply may come from any server or be damaged, so symbols *)
(* of it may be replaced, inserted or deleted.                             *)
(***************************************************************************)
EXTENDS Bencode

CONSTANTS IdLength,    \* 20
          SentRequests,    \* what a client may ask
          SentResponses,   \* what the tracker may answer
          Alphabet,        \* the symbols that damage puts in
          MaxEdits,
          MaxPort          \* 65535

ASSUME WireSizes == IdLength \in Nat /\ MaxEdits \in Nat /\ MaxPort \in Nat

ASSUME DamageIsOfSymbols == Alphabet \subseteq Range(Symbols)

VARIABLES sent,   \* what the sender meant: [request |-> r], [response |-> r] or [failure |-> s]
          text,   \* the symbols on the wire
          edits

wireVars == <<sent, text, edits>>

-----------------------------------------------------------------------------
(* urllib.parse: a reserved byte is replaced by an escape, one symbol here. *)
Escapes == {<<"space", "%20">>, <<"%", "%25">>, <<"&", "%26">>, <<"+", "%2B">>, <<"=", "%3D">>}

QuoteByte(c) ==
    IF \E e \in Escapes : e[1] = c THEN (CHOOSE e \in Escapes : e[1] = c)[2] ELSE c

(* Mutant of Quote: the plus sign goes as it is.                           *)
Quote_plus(s) == [k \in 1..Len(s) |-> IF s[k] = "+" THEN "+" ELSE QuoteByte(s[k])]

Quote(s) == [k \in 1..Len(s) |-> QuoteByte(s[k])]

(* _decode_query_component *)
UnquoteByte(c) ==
    IF c = "+" THEN "space"
    ELSE IF \E e \in Escapes : e[2] = c THEN (CHOOSE e \in Escapes : e[2] = c)[1]
    ELSE c

Unquote(s) == [k \in 1..Len(s) |-> UnquoteByte(s[k])]

(* build_announce_url; the announce URL may have parameters of its own.    *)
Fields(r) ==
    <<<<"info_hash", Quote(r.info_hash)>>, <<"peer_id", Quote(r.peer_id)>>,
      <<"port", Decimal(r.port)>>, <<"uploaded", Decimal(r.uploaded)>>,
      <<"downloaded", Decimal(r.downloaded)>>, <<"left", Decimal(r.left)>>>>
    \o (IF r.event = "none" THEN <<>> ELSE <<<<"event", <<r.event>>>>>>)

Query(r) ==
    LET fields == r.own \o Fields(r) IN
    FlattenSeq([i \in 1..Len(fields) |->
        (IF i = 1 THEN <<>> ELSE <<"&">>) \o <<fields[i][1], "=">> \o fields[i][2]])

(* parse_announce_query.  The query is cut at each ampersand, and what lies *)
(* between two cuts with none in between is a component, unless it is empty. *)
Cuts(query) == {0, Len(query) + 1} \cup {k \in 1..Len(query) : query[k] = "&"}

Components(query) ==
    {c \in Cuts(query) \X Cuts(query) :
        c[1] + 1 < c[2] /\ \A k \in (c[1] + 1)..(c[2] - 1) : k \notin Cuts(query)}

Component(query, c) == SubSeq(query, c[1] + 1, c[2] - 1)

HasSign(s) == Find(s, "=", 1) # {}
NameOf(s)  == Unquote(SubSeq(s, 1, Min(Find(s, "=", 1)) - 1))
ValueOf(s) == Unquote(SubSeq(s, Min(Find(s, "=", 1)) + 1, Len(s)))

Parameters(query) ==
    LET parts == Components(query)
        Name(c) == NameOf(Component(query, c))
    IN  IF /\ \A c \in parts : HasSign(Component(query, c)) /\ Name(c) # <<>>
           /\ \A c, d \in parts : Name(c) = Name(d) => c = d
        THEN {[name \in {Name(c) : c \in parts} |->
                  ValueOf(Component(query, CHOOSE c \in parts : Name(c) = name))]}
        ELSE {}

Required == {"info_hash", "peer_id", "port", "uploaded", "downloaded", "left"}
Numbers  == {"port", "uploaded", "downloaded", "left"}
EventNames == {"started", "completed", "stopped"}

Identifiers == {s \in Texts : Len(s) = IdLength}

(* The parameters that an announce URL may bring along.  An event there is *)
(* left out: the tracker would take it for the client's.                   *)
OwnFields == (STRING \ {"&", "=", "event"}) \X Seq(STRING \ {"&"})

AnnounceRequests ==
    [info_hash : Identifiers, peer_id : Identifiers, port : Nat, uploaded : Nat,
     downloaded : Nat, left : Nat, event : {"none"} \cup EventNames, own : Seq(OwnFields)]

(* The escapes are no symbols: "%" followed by "2" and "0" is three.       *)
ASSUME RequestsAreLegal ==
    /\ SentRequests \subseteq AnnounceRequests
    /\ \A e \in Escapes : e[2] \notin Range(Symbols)

(* parse_announce_parameters, without the request's own parameters.        *)
IsRequest(p) ==
    /\ DOMAIN p \subseteq {<<n>> : n \in Required \cup {"event"}}
    /\ {<<n>> : n \in Required} \subseteq DOMAIN p
    /\ Len(p[<<"info_hash">>]) = IdLength /\ Len(p[<<"peer_id">>]) = IdLength
    /\ \A n \in Numbers : p[<<n>>] # <<>> /\ \A k \in DOMAIN p[<<n>>] : IsDigit(p[<<n>>][k])
    /\ <<"event">> \in DOMAIN p =>
          p[<<"event">>] \in {<<>>} \cup {<<e>> : e \in EventNames}

RequestOf(p) ==
    [info_hash  |-> p[<<"info_hash">>],  peer_id |-> p[<<"peer_id">>],
     port       |-> Min(PyInt(p[<<"port">>])),
     uploaded   |-> Min(PyInt(p[<<"uploaded">>])),
     downloaded |-> Min(PyInt(p[<<"downloaded">>])),
     left       |-> Min(PyInt(p[<<"left">>])),
     event      |-> IF <<"event">> \notin DOMAIN p \/ p[<<"event">>] = <<>> THEN "none"
                    ELSE Head(p[<<"event">>])]

ParseRequest(query) == {RequestOf(p) : p \in {q \in Parameters(query) : IsRequest(q)}}

-----------------------------------------------------------------------------
(* do_GET and _send_failure: the payload that is bencoded.                 *)
AnInt(n)     == [int |-> n]
SomeBytes(s) == [bytes |-> s]

Item(name, value) == [key |-> <<name>>, value |-> value]

PeerEntry(peer) ==
    [dict |-> {Item("peer_id", SomeBytes(peer.peer_id)), Item("ip", SomeBytes(peer.ip)),
               Item("port", AnInt(peer.port))}]

Payload(r) ==
    [dict |-> {Item("interval", AnInt(r.interval)), Item("complete", AnInt(r.complete)),
               Item("incomplete", AnInt(r.incomplete)),
               Item("peers", [list |-> [i \in 1..Len(r.peers) |-> PeerEntry(r.peers[i])]])}]

FailurePayload(reason) == [dict |-> {Item("failure_reason", SomeBytes(reason))}]

Responses ==
    [interval : Nat \ {0}, complete : Nat, incomplete : Nat,
     peers : Seq([peer_id : Identifiers, ip : {s \in Texts : "xff" \notin Range(s)},
                  port : 1..MaxPort])]

(* The names of the payloads are symbols, in the order of their bytes.     *)
ASSUME ResponsesAreLegal ==
    /\ SentResponses \subseteq Responses
    /\ {"complete", "incomplete", "interval", "peers", "ip", "peer_id", "port",
        "failure_reason", "reason"} \subseteq Range(Symbols)
    /\ Rank("complete") < Rank("incomplete") /\ Rank("incomplete") < Rank("interval")
    /\ Rank("interval") < Rank("peers")
    /\ Rank("ip") < Rank("peer_id") /\ Rank("peer_id") < Rank("port")

Nesting == 3   \* dictionary, list, dictionary, number or bytes

(* _require_int, _decode_text *)
Has(d, name) == \E item \in d : item.key = <<name>>
Get(d, name) == (CHOOSE item \in d : item.key = <<name>>).value

HasInt(d, name, minimum) ==
    Has(d, name) /\ "int" \in DOMAIN Get(d, name) /\ Get(d, name).int >= minimum

HasText(d, name) ==
    /\ Has(d, name)
    /\ "bytes" \in DOMAIN Get(d, name)
    /\ "xff" \notin Range(Get(d, name).bytes)   \* that is not UTF-8

IsPeerEntry(v) ==
    /\ "dict" \in DOMAIN v
    /\ Has(v.dict, "peer_id") /\ "bytes" \in DOMAIN Get(v.dict, "peer_id")
    /\ Len(Get(v.dict, "peer_id").bytes) = IdLength
    /\ HasText(v.dict, "ip")
    /\ HasInt(v.dict, "port", 1) /\ Get(v.dict, "port").int <= MaxPort

IsResponse(d) ==
    /\ HasInt(d, "interval", 1) /\ HasInt(d, "complete", 0) /\ HasInt(d, "incomplete", 0)
    /\ Has(d, "peers") /\ "list" \in DOMAIN Get(d, "peers")
    /\ \A i \in 1..Len(Get(d, "peers").list) : IsPeerEntry(Get(d, "peers").list[i])

PeerOf(v) ==
    [peer_id |-> Get(v.dict, "peer_id").bytes, ip |-> Get(v.dict, "ip").bytes,
     port |-> Get(v.dict, "port").int]

ResponseOf(d) ==
    LET list == Get(d, "peers").list IN
    [interval   |-> Get(d, "interval").int,
     complete   |-> Get(d, "complete").int,
     incomplete |-> Get(d, "incomplete").int,
     peers      |-> [i \in 1..Len(list) |-> PeerOf(list[i])]]

(* parse_tracker_response: a response, a failure, or nothing (the text is  *)
(* refused with a TrackerClientError).                                     *)
Interpret(d) ==
    IF Has(d, "failure_reason")
    THEN IF Cardinality(d) = 1 /\ HasText(d, "failure_reason")
         THEN {[failure |-> Get(d, "failure_reason").bytes]}
         ELSE {}
    ELSE IF IsResponse(d) THEN {[response |-> ResponseOf(d)]} ELSE {}

ParseReply(data) == UNION {Interpret(v.dict) : v \in {w \in Decode(data) : "dict" \in DOMAIN w}}

-----------------------------------------------------------------------------
Send(meaning, symbols) == sent = meaning /\ text = symbols /\ edits = 0

WireInit ==
    \/ \E r \in SentRequests : Send([request |-> r], Query(r))
    \/ \E r \in SentResponses : Send([response |-> r], Encode(Nesting, Payload(r)))
    \/ Send([failure |-> <<"reason">>], Encode(Nesting, FailurePayload(<<"reason">>)))

Damage ==
    /\ "request" \notin DOMAIN sent
    /\ edits < MaxEdits
    /\ edits' = edits + 1
    /\ \/ \E k \in DOMAIN text, c \in Alphabet : text' = [text EXCEPT ![k] = c]
       \/ \E k \in 1..(Len(text) + 1), c \in Alphabet : text' = InsertAt(text, k, c)
       \/ \E k \in DOMAIN text : text' = RemoveAt(text, k)
    /\ UNCHANGED sent

WireNext == Damage

WireSpec == WireInit /\ [][WireNext]_wireVars

-----------------------------------------------------------------------------
(* A request the client builds is what the server reads, whatever bytes    *)
(* the info hash and the peer id have; but an announce URL with parameters *)
(* of its own, which the client allows for, is always refused.             *)
RequestArrives ==
    "request" \in DOMAIN sent =>
        LET r == sent.request IN
        ParseRequest(text) =
            IF r.own # <<>> THEN {}
            ELSE {[n \in Required \cup {"event"} |-> r[n]]}

(* A reply the server encodes is what the client reads, and a reply that   *)
(* arrives damaged is read as a usable one or refused: the client never    *)
(* takes a failure for a response, or a response for a failure.            *)
ReplyArrives ==
    "request" \notin DOMAIN sent =>
        LET read == ParseReply(text) IN
        /\ edits = 0 => read = {sent}
        /\ \A r \in read : DOMAIN r = DOMAIN sent

(* The decoder takes no text but the one the encoder writes for the value  *)
(* it returns, except in numbers: int() takes blanks, signs, underscores.  *)
DecoderIsCanonical ==
    "request" \notin DOMAIN sent =>
        \A v \in Decode(text) :
            Range(text) \cap {"space", "+", "_"} = {} => Encode(Len(text), v) = text
=============================================================================
