------------------------------ MODULE ModbusTcp -----------------------------
(***************************************************************************)
(* The Modbus TCP driver (driver/modbus/modbus_tcp.go) on its client       *)
(* (pkg/modbuslib/codec.go): how the tags of a group are merged into       *)
(* requests, how an answer is cut into values again, how a value is        *)
(* written, and how the client keeps in step with a device that answers    *)
(* late, twice, with another transaction id, or not at all.                *)
(*                                                                         *)
(* A register is two bytes, and a byte is symbolic: where it lies, in      *)
(* which version of the device's memory, and which half of the register it *)
(* is.  The connection is a stream of frames; when the header of a frame   *)
(* was read but not its body, what is read next is no header (`shifted`).  *)
(* Such bytes are taken never to look like the header that is expected.    *)
(* Reads and writes come one at a time, under ioSem (SouthRuntime), all    *)
(* for the one unit of the group.                                          *)
(***************************************************************************)
EXTENDS Naturals, Sequences, FiniteSetsExt, SequencesExt

CONSTANTS
    N,              \* how many tags the group has
    Layouts,        \* the tags it may be configured with
    Top,            \* the highest address of the device
    MaxSpan, Gap,   \* of mergeSpans: 120 and 8
    MaxBits, MaxRegs, \* what the protocol lets a request ask for: 2000, 125
    Tids,           \* how many transaction ids there are (2^16)
    Expired,        \* after so many operations without an answer the idle
                    \* time is over
    Versions,       \* how often the device's memory changes (bound)
    Faults,         \* how often something goes wrong (bound)
    Room,           \* frames that lie in the stream (bound)
    Areas,          \* those the device has: "coil", "discrete", "input", "holding"
    Bad, None

Types == {"bool", "word", "dword", "qword", "text"}
Tags == 1..N

(* An address is its area and number, the first being 1; length counts     *)
(* only for text, the schema bounds it; order is a permutation.            *)
TagRows == [address : [area : Areas \cup {"other"}, number : 0..9999],
            type : Types, length : 1..100, bit : 0..15, order : Seq(1..8),
            access : {"RO", "RW", "WO"}]

ASSUME LayoutsOK == Layouts \subseteq [Tags -> TagRows]
ASSUME BoundsOK ==
    /\ Areas \subseteq {"coil", "discrete", "input", "holding"}
    /\ {N, Top, Gap, Versions, Faults} \subseteq Nat
    /\ {MaxSpan, MaxBits, MaxRegs, Tids, Expired, Room} \subseteq Nat \ {0}

VARIABLES
    conf,       \* the tags
    mem,        \* the memory of the device, by area and address
    version,
    out,        \* the values of the last or current read
    held,       \* the memories since it began
    clean,      \* nothing has gone wrong since it began
    wrote,      \* the value that was last written to a tag, and not since
                \* overwritten by anyone
    todo,       \* the spans that are still to be read
    req,        \* the request under way
    conn, age,  \* c.conn, and the operations since c.lastUse
    stream,     \* the frames that arrive; the transaction id of each is kept
                \* as its distance from the last one of c.tid
    shifted,    \* see above
    faults

device == <<mem, version>>
result == <<out, held, clean, wrote>>
link == <<conn, age, stream, shifted>>
vars == <<conf, device, result, todo, req, link, faults>>

-----------------------------------------------------------------------------
(* Addresses, registers and spans.                                         *)

ParsesAddress(t) == t.address.area # "other" /\ t.address.number > 0
Area(t) == t.address.area
Offset(t) == t.address.number - 1
IsWrite(t) == Area(t) \in {"coil", "holding"}

RegisterCount(t) == CASE t.type \in {"bool", "word"} -> 1
                      [] t.type = "dword" -> 2
                      [] t.type = "qword" -> 4
                      [] t.type = "text" -> t.length

Readable(i) == conf[i].access # "WO" /\ ParsesAddress(conf[i])
GroupByArea(area) == {i \in Tags : Readable(i) /\ Area(conf[i]) = area}

(* The sort is stable.                                                     *)
Before(i, j) == \/ Offset(conf[i]) < Offset(conf[j])
                \/ Offset(conf[i]) = Offset(conf[j]) /\ i < j

SortByOffset(items) ==
    CHOOSE s \in SetToSeqs(items) :
        \A k, l \in DOMAIN s : k < l => Before(s[k], s[l])

SpanOf(i) == [area  |-> Area(conf[i]), start |-> Offset(conf[i]), items |-> <<i>>,
              end   |-> Offset(conf[i]) + RegisterCount(conf[i]) - 1]

Merges(cur, new) ==
    /\ new.start <= cur.end + Gap
    /\ new.end - cur.start + 1 <= MaxSpan

(* Mutant: the span ends with the item that was added last.                *)
MergeToLast(spans, i) ==
    LET new == SpanOf(i) IN
    IF spans # <<>> /\ Merges(Last(spans), new)
    THEN Front(spans) \o <<[Last(spans) EXCEPT !.end = new.end,
                                               !.items = Append(@, i)]>>
    ELSE Append(spans, new)

(* One turn of the loop of mergeSpans.  (Offsets are below 9999 and        *)
(* lengths at most 100: nothing overflows its 16 bits.)                    *)
Merge(spans, i) ==
    LET new == SpanOf(i) IN
    IF spans # <<>> /\ Merges(Last(spans), new)
    THEN Front(spans) \o <<[Last(spans) EXCEPT !.end = Max({@, new.end}),
                                               !.items = Append(@, i)]>>
    ELSE Append(spans, new)

MergeSpans(area) == FoldLeft(Merge, <<>>, SortByOffset(GroupByArea(area)))

(* The areas come in any order (a Go map), the spans of each in theirs.    *)
ReadOrders ==
    LET used == {a \in Areas : MergeSpans(a) # <<>>} IN
    {FlattenSeq([k \in DOMAIN as |-> MergeSpans(as[k])]) : as \in SetToSeqs(used)}

Quantity(span) == span.end - span.start + 1
QuantityOK(span) ==
    Quantity(span) <= IF span.area \in {"coil", "discrete"} THEN MaxBits
                      ELSE MaxRegs

-----------------------------------------------------------------------------
(* Values.                                                                 *)

Bits == {"coil", "discrete"}
Cell(src, k, v) == <<<<src, k, v, "hi">>, <<src, k, v, "lo">>>>

Reorder(data, order) == [i \in DOMAIN data |-> data[order[i]]]

(* The interpretation of bytes that are in order as a number is left out.  *)
DecodeBytes(data, order) ==
    IF Len(order) = Len(data) THEN Reorder(data, order) ELSE Bad

DecodeByType(t, data) ==
    CASE t.type = "bool" -> <<data[2]>>                  \* the low byte
      [] t.type = "text" -> data
      [] OTHER -> DecodeBytes(data, t.order)

(* decodeOne: the tag's part of what a span holds.  A request for bits is  *)
(* answered by whole bytes, what is over being zero.                       *)
DecodeOne(t, span, raw) ==
    LET off  == Offset(t) - span.start
        bit  == off + t.bit
        n    == RegisterCount(t)
    IN  IF Area(t) \in Bits
        THEN CASE bit < Len(raw) -> raw[bit + 1]
               [] bit >= Len(raw) /\ bit < ((Len(raw) + 7) \div 8) * 8 -> <<"zero">>
               [] OTHER -> Bad
        ELSE IF off + n > Len(raw) THEN Bad
             ELSE DecodeByType(t, FlattenSeq(SubSeq(raw, off + 1, off + n)))

(* What the device holds at the tag's own address.                         *)
Reading(t, m) ==
    IF Area(t) \in Bits THEN m[Area(t)][Offset(t) + t.bit]
    ELSE DecodeByType(t, FlattenSeq([k \in 1..RegisterCount(t) |->
                                       m[Area(t)][Offset(t) + k - 1]]))

(* The registers a write sets, after typeMeta.                             *)
WriteCount(t) ==
    IF Area(t) = "coil" \/ t.type = "text" THEN 1 ELSE RegisterCount(t)

(* toInt16 and its like: a number loses the bytes it is too long by.       *)
Convert(value, n) == SubSeq(value, Len(value) - n + 1, Len(value))
Number == FlattenSeq([k \in 1..4 |-> Cell("new", k, 0)])

EncodeBytes(value, order) ==
    Reorder(Convert(value, Len(order)), Reverse(order))

CanEncode(t) == Area(t) = "coil" \/ Len(t.order) = 2 * WriteCount(t)
NewValue(t) == Convert(Number, 2 * WriteCount(t))

(* WriteSingleCoil, WriteSingleRegister or WriteMultipleRegisters, done.   *)
Written(t) ==
    LET bytes == IF Area(t) = "coil" THEN NewValue(t)
                 ELSE EncodeBytes(Number, t.order)
    IN  [mem EXCEPT ![Area(t)] =
           [r \in DOMAIN @ |->
              LET k == r + 1 - Offset(t) IN
              IF k \in 1..WriteCount(t) THEN <<bytes[2*k - 1], bytes[2*k]>>
              ELSE @[r]]]

-----------------------------------------------------------------------------
(* The client.                                                             *)

Reads(r) == r.write = 0
Idle == todo = <<>> /\ req = None
Fault == faults < Faults /\ faults' = faults + 1 /\ clean' = FALSE

CloseConn == conn' = FALSE /\ stream' = <<>> /\ shifted' = FALSE

BadItems(r) == [i \in Tags |-> IF Reads(r) /\ i \in ToSet(r.span.items)
                               THEN Bad ELSE out[i]]

(* checkIdle: the connection has not been idle for too long.               *)
Kept(a) == conn /\ a < Expired

(* Mutant: a request counts as a use, whatever becomes of it.              *)
SendRefreshes(r, a) ==
    /\ conn' = TRUE
    /\ stream' = IF Kept(a) THEN [k \in DOMAIN stream |->
                                    [stream[k] EXCEPT !.behind = (@ + 1) % Tids]]
                 ELSE <<>>
    /\ shifted' = (Kept(a) /\ shifted)
    /\ age' = 0
    /\ req' = r

(* requestWithSlaveID up to the write of the frame: a connection that is   *)
(* not kept is closed, and one that is closed is dialled.                  *)
Send(r, a) ==
    /\ conn' = TRUE
    /\ stream' = IF Kept(a) THEN [k \in DOMAIN stream |->
                                    [stream[k] EXCEPT !.behind = (@ + 1) % Tids]]
                 ELSE <<>>
    /\ shifted' = (Kept(a) /\ shifted)
    /\ age' = IF Kept(a) THEN a ELSE 0
    /\ req' = r

(* It cannot dial, or cannot write.                                        *)
SendFails(r) ==
    /\ Fault /\ CloseConn
    /\ out' = BadItems(r)
    /\ UNCHANGED <<age, req, held, wrote>>

(* The answer to the request: its data, or nothing for a write.            *)
Frame(r, m) ==
    [behind |-> 0,
     body |-> IF Reads(r)
              THEN [k \in 1..Quantity(r.span) |->
                      m[r.span.area][r.span.start + k - 1]]
              ELSE <<>>]

Taken(m) ==
    /\ mem' = m
    /\ held' = IF Idle THEN held ELSE held \cup {m}

Result == IF Reads(req) THEN mem ELSE Written(conf[req.write])

Answer ==
    /\ req # None /\ ~req.answered /\ Len(stream) < Room
    /\ Taken(Result)
    /\ stream' = Append(stream, Frame(req, Result))
    /\ req' = [req EXCEPT !.answered = TRUE]
    /\ UNCHANGED <<conf, version, out, clean, wrote, todo, conn, age,
                   shifted, faults>>

(* It answers with an exception or too little (`Bad`), with another id,    *)
(* or twice.                                                               *)
AnswersWrong ==
    /\ req # None /\ ~req.answered /\ Len(stream) < Room
    /\ Fault
    /\ \/ /\ \/ stream' = Append(stream, [behind |-> 0, body |-> Bad])
             \/ stream' = Append(stream, [behind |-> 1, body |-> Bad])
          /\ UNCHANGED <<mem, held>>
       \/ /\ Len(stream) + 1 < Room
          /\ Taken(Result)
          /\ stream' = stream \o <<Frame(req, Result), Frame(req, Result)>>
    /\ req' = [req EXCEPT !.answered = TRUE]
    /\ UNCHANGED <<conf, version, out, wrote, todo, conn, age, shifted>>

(* The request has failed.                                                 *)
Failed ==
    /\ out' = BadItems(req)
    /\ req' = None
    /\ UNCHANGED wrote

(* The body was read and belongs to the header.                            *)
Accepted(body) ==
    \/ body = Bad /\ Failed
    \/ /\ body # Bad /\ Reads(req)
       /\ IF Len(body) = Quantity(req.span)         \* responseData
          THEN /\ out' = [i \in Tags |->
                            IF i \in ToSet(req.span.items)
                            THEN DecodeOne(conf[i], req.span, body) ELSE out[i]]
               /\ UNCHANGED wrote /\ req' = None
          ELSE Failed
    \/ /\ body # Bad /\ ~Reads(req)
       /\ wrote' = [i \in Tags |-> IF i = req.write THEN NewValue(conf[i]) ELSE None]
       /\ out' = [out EXCEPT ![req.write] = None]
       /\ req' = None

(* Mutant: the transaction id is not compared.                             *)
ReceiveAny ==
    /\ req # None /\ ~shifted /\ stream # <<>>
    /\ Accepted(Head(stream).body)
    /\ age' = 0
    /\ stream' = Tail(stream)
    /\ UNCHANGED <<conf, device, held, clean, todo, conn, shifted, faults>>

(* The header is read and compared.  If it is not the one expected the     *)
(* request has failed, and the body of the frame stays in the stream.      *)
Receive ==
    /\ req # None /\ ~shifted /\ stream # <<>>
    /\ IF Head(stream).behind = 0
       THEN Accepted(Head(stream).body) /\ age' = 0 /\ UNCHANGED shifted
       ELSE Failed /\ shifted' = TRUE /\ UNCHANGED age
    /\ stream' = Tail(stream)
    /\ UNCHANGED <<conf, device, held, clean, todo, conn, faults>>

(* Seven bytes out of the middle of a frame, which may end where a frame   *)
(* ends.                                                                   *)
ReceiveShifted ==
    /\ req # None /\ shifted
    /\ \E k \in 0..Len(stream) : stream' = SubSeq(stream, k + 1, Len(stream))
    /\ shifted' \in BOOLEAN
    /\ Failed
    /\ UNCHANGED <<conf, device, held, clean, todo, conn, age, faults>>

(* No answer in time, or the peer has closed.                              *)
TimesOut ==
    /\ req # None
    /\ \/ shifted /\ UNCHANGED <<clean, faults>>
       \/ Fault
    /\ CloseConn /\ Failed
    /\ UNCHANGED <<conf, device, held, todo, age>>

-----------------------------------------------------------------------------
(* The driver.                                                             *)

NoRequest == [write |-> 0, answered |-> FALSE, span |-> None]

InStep == ~shifted /\ \A k \in DOMAIN stream : req # None /\ stream[k].behind = 0

(* Time passes before an operation: less than the idle time, or more.      *)
Ages == {Min({age + 1, Expired}), Expired}

(* Connect by ReadTags, when the client is not connected.                  *)
Connects ==
    IF conn THEN age' \in Ages /\ UNCHANGED conn
    ELSE conn' = TRUE /\ age' = 0

ConnectFails == ~conn /\ Fault /\ UNCHANGED <<conn, age>>

(* Without a connection all tags are bad.                                  *)
ReadTags ==
    /\ Idle
    /\ held' = {mem}
    /\ \/ /\ Connects
          /\ \E spans \in ReadOrders : todo' = spans
          /\ out' = [i \in Tags |-> IF Readable(i) THEN None ELSE Bad]
          /\ clean' = InStep
          /\ UNCHANGED faults
       \/ /\ ConnectFails
          /\ out' = [i \in Tags |-> Bad]
          /\ UNCHANGED todo
    /\ UNCHANGED <<conf, device, wrote, req, stream, shifted>>

(* readGroup and readSpan, for the next span.                              *)
ReadSpan ==
    /\ req = None /\ todo # <<>>
    /\ todo' = Tail(todo)
    /\ LET r == [NoRequest EXCEPT !.span = Head(todo)] IN
       IF QuantityOK(Head(todo))
       THEN (Send(r, age) /\ UNCHANGED <<result, faults>>) \/ SendFails(r)
       ELSE out' = BadItems(r) /\ UNCHANGED <<held, clean, wrote, req, link, faults>>
    /\ UNCHANGED <<conf, device>>

(* WriteTag and writeOne, with a number as the value.                      *)
WriteTag(i) ==
    /\ Idle
    /\ conf[i].access # "RO" /\ ParsesAddress(conf[i])
    /\ IsWrite(conf[i]) /\ CanEncode(conf[i])
    /\ LET r == [NoRequest EXCEPT !.write = i] IN
       \/ (\E a \in Ages : Send(r, a)) /\ clean' = FALSE /\ UNCHANGED <<out, held, wrote, faults>>
       \/ SendFails(r)
    /\ UNCHANGED <<conf, device, todo>>

(* closeConnection takes ioSem, so no read is under way.                   *)
Disconnect ==
    /\ Idle /\ conn
    /\ CloseConn
    /\ UNCHANGED <<conf, device, result, todo, req, age, faults>>

DeviceChanges ==
    /\ version < Versions
    /\ version' = version + 1
    /\ mem' = [a \in Areas |-> [r \in 0..Top |-> Cell(a, r, version + 1)]]
    /\ held' = held \cup {mem'}
    /\ wrote' = [i \in Tags |-> None]
    /\ UNCHANGED <<conf, out, clean, todo, req, link, faults>>

-----------------------------------------------------------------------------
Init ==
    /\ conf \in Layouts
    /\ mem = [a \in Areas |-> [r \in 0..Top |-> Cell(a, r, 0)]]
    /\ version = 0 /\ faults = 0
    /\ out = [i \in Tags |-> None] /\ wrote = [i \in Tags |-> None]
    /\ held = {mem} /\ clean = FALSE
    /\ todo = <<>> /\ req = None
    /\ conn = FALSE /\ age = 0 /\ stream = <<>> /\ shifted = FALSE

Next ==
    \/ ReadTags \/ ReadSpan \/ (\E i \in Tags : WriteTag(i)) \/ Disconnect
    \/ Answer \/ AnswersWrong \/ DeviceChanges
    \/ Receive \/ ReceiveShifted \/ TimesOut

Spec == Init /\ [][Next]_vars

(* The group is polled, and a request ends by what is read or in time.     *)
(* There is always a step that can be taken: this is WF_vars(Next).        *)
FairSpec == Spec /\ []<><<TRUE>>_vars

-----------------------------------------------------------------------------
TypeOK ==
    /\ conf \in Layouts
    /\ DOMAIN mem = Areas /\ version \in 0..Versions
    /\ DOMAIN out = Tags /\ DOMAIN wrote = Tags
    /\ clean \in BOOLEAN /\ conn \in BOOLEAN /\ shifted \in BOOLEAN
    /\ mem \in held
    /\ req # None => req.write \in {0} \cup Tags
    /\ age \in 0..Expired /\ faults \in 0..Faults
    /\ Len(stream) <= Room

Good(i) == out[i] \notin {None, Bad}

(* A good value is the one the device held, at the tag's own address, at   *)
(* some moment of the read: neither another tag's part of a merged answer  *)
(* nor the answer to an earlier request.                                   *)
GoodIsRight ==
    \A i \in Tags : Good(i) => \E m \in held : out[i] = Reading(conf[i], m)

(* A read in which nothing goes wrong has a good value for every tag that  *)
(* may be read, whatever it was merged with.                               *)
CleanReadsAreGood ==
    clean /\ Idle =>
      \A i \in Tags :
        Readable(i) /\ Reading(conf[i], mem) # Bad => Good(i)

(* What was written to a tag is what is read from it: the byte order AB is *)
(* "high byte first" (docs/modbus-config.md:40) in both directions.        *)
WrittenReadsBack ==
    \A i \in Tags : wrote[i] # None /\ Good(i) => out[i] = wrote[i]

(* When nothing goes wrong any more, the client gets in step with the      *)
(* device again: an answer that was not the expected one leaves the stream *)
(* shifted, no read succeeds, and the idle time ends the connection.       *)
LinkRecovers == <>[]InStep
-----------------------------------------------------------------------------
(* The inductive invariant.                                                *)

(* A span is a request that holds all of each of its tags, and one that    *)
(* the protocol allows when it allows what it could have to ask for.       *)
Spans == [area : Areas, start : Nat, items : Seq(Tags), end : Nat]

RequestsAllowed ==
    /\ MaxSpan <= MaxBits /\ MaxSpan <= MaxRegs
    /\ \A layout \in Layouts, i \in Tags :
         /\ RegisterCount(layout[i]) <= MaxBits
         /\ RegisterCount(layout[i]) <= MaxRegs

Covers(span, i) ==
    /\ Readable(i) /\ Area(conf[i]) = span.area
    /\ span.start <= Offset(conf[i])
    /\ Offset(conf[i]) + RegisterCount(conf[i]) - 1 <= span.end

Fits(span) ==
    /\ span \in Spans
    /\ \A i \in ToSet(span.items) : Covers(span, i)
    /\ RequestsAllowed => QuantityOK(span)

Requests == [write : {0} \cup Tags, answered : BOOLEAN, span : Spans \cup {None}]

Shape ==
    /\ conf \in Layouts
    /\ age \in 0..Expired
    /\ out = [i \in Tags |-> out[i]]

PlanFits ==
    /\ todo \in Seq(Spans) /\ Len(todo) <= N
    /\ \A k \in DOMAIN todo : Fits(todo[k])

RequestFits ==
    req # None =>
      /\ req \in Requests
      /\ conn /\ age < Expired /\ Len(todo) < N
      /\ Reads(req) => Fits(req.span)

IsFrame(f) == f = [behind |-> f.behind, body |-> f.body] /\ f.behind \in Nat

(* What arrives first is the answer to the earlier request; and a request  *)
(* is not so old that its id has come round again.                         *)
InOrder ==
    /\ stream \in Seq(ToSet(stream))
    /\ ~conn => stream = <<>>
    /\ \A k \in DOMAIN stream :
         /\ IsFrame(stream[k])
         /\ \A l \in DOMAIN stream :
              k < l => stream[k].behind >= stream[l].behind
         /\ age < Expired => stream[k].behind <= N * age + N - Len(todo)
         /\ req # None /\ ~req.answered => stream[k].behind > 0

(* The frame that answers the request holds what the device held.          *)
FramesRight ==
    req # None /\ Reads(req) =>
      \A k \in DOMAIN stream :
         stream[k].behind = 0 =>
           \/ stream[k].body = Bad
           \/ \E m \in held : stream[k].body = Frame(req, m).body

IInv ==
    /\ Shape /\ PlanFits /\ RequestFits /\ InOrder /\ FramesRight
    /\ GoodIsRight

(* What makes a read good: the registers are pairs of bytes, and as long   *)
(* as nothing goes wrong there is no frame but the one that answers the    *)
(* request, and every tag that can be decoded is still to be read, being   *)
(* read, or good.                                                          *)
Cells(m) ==
    /\ m = [a \in Areas |-> [r \in 0..Top |-> m[a][r]]]
    /\ \A a \in Areas, r \in 0..Top : m[a][r] = <<m[a][r][1], m[a][r][2]>>

Decodable(t) ==
    \/ Area(t) \in Bits \/ t.type \in {"bool", "text"}
    \/ Len(t.order) = 2 * RegisterCount(t)

Items(spans) == UNION {ToSet(spans[k].items) : k \in DOMAIN spans}

OnlyAnswer ==
    /\ ~shifted
    /\ req # None => Reads(req)
    /\ IF req # None /\ req.answered
       THEN \E m \in held : stream = <<Frame(req, m)>>
       ELSE stream = <<>>

NoneMissed ==
    \A i \in Tags :
        Readable(i) /\ Decodable(conf[i]) =>
          \/ Good(i) \/ i \in Items(todo)
          \/ req # None /\ i \in ToSet(req.span.items)

CleanInv ==
    /\ \A m \in held \cup {mem} : Cells(m)
    /\ clean => OnlyAnswer /\ NoneMissed

(* What the theorems about them suppose.  A coil is addressed by its number *)
(* alone, no more requests than there are transaction ids are sent before  *)
(* the idle time is over, and the tags lie within the device.              *)
NoBitNumbers ==
    \A layout \in Layouts, i \in Tags :
        Area(layout[i]) \in Bits => layout[i].bit = 0

TidsSuffice == N * Expired < Tids

InDevice ==
    \A layout \in Layouts, i \in Tags :
        ParsesAddress(layout[i]) =>
          /\ Area(layout[i]) \in Areas
          /\ Offset(layout[i]) + RegisterCount(layout[i]) <= Top + 1
=============================================================================
