----------------------------- MODULE ByteRanges -----------------------------
(***************************************************************************)
(* The part of an artifact a download answers with, from the Range header *)
(* an operator or a device sends: "bytes=first-last", either of them      *)
(* missing. Each has a route of its own; the server then sends the range  *)
(* of the file as it is by that time.                                     *)
(***************************************************************************)
EXTENDS Integers

CONSTANTS
  Sizes,    \* of files
  Offsets,  \* numbers in headers
  Word,     \* how many numbers a std::uintmax_t tells apart
  Missing   \* a number that is not there

ASSUME RangeAssumption ==
  /\ Word \in Nat \ {0} /\ Missing \notin Offsets
  /\ Sizes \subseteq 0..(Word - 1) /\ Offsets \subseteq 0..(Word - 1)

VARIABLES route, size, range, response

rangeVars == <<route, size, range, response>>

\* A response: what its status line says, the bytes its Content-Range names,
\* and how many from the first are to be sent, 0 being all that are left.
Reply(status, first, last, length) ==
  [status |-> status, first |-> first, last |-> last, length |-> length]
NoBytes(status) == Reply(status, 0, 0, 0)

First(n, r) ==
  IF r.first # Missing THEN r.first ELSE IF r.last >= n THEN 0 ELSE n - r.last

\* Mutant of Last: the last byte of a range is not part of it.
LastExcluded(n, r) ==
  IF r.first = Missing \/ r.last = Missing \/ r.last >= n THEN n - 1 ELSE r.last - 1

\* The end a header states, not beyond the file's.
Last(n, r) ==
  IF r.first = Missing \/ r.last = Missing \/ r.last >= n THEN n - 1 ELSE r.last

\* Sums of two numbers wrap around.
Wrap(k) == IF k < Word THEN k ELSE k - Word

\* An operator is sent what the header names. A device is sent as many bytes as
\* it asked for, the bound being left out of the count.
Length(n, r) ==
  IF route = "operator" \/ r.first = Missing \/ r.last = Missing
    THEN Last(n, r) - First(n, r) + 1
    ELSE Wrap(r.last - r.first + 1)

\* A suffix of no bytes, and a range that ends before it begins, are refused.
Readable(n, r) ==
  /\ n > 0
  /\ IF r.first = Missing THEN r.last # Missing /\ r.last > 0
                          ELSE r.first < n /\ (r.last = Missing \/ r.first <= r.last)

Select(n, r) ==
  IF ~Readable(n, r) THEN NoBytes("416")
  ELSE Reply("206", First(n, r), Last(n, r), Length(n, r))

RangeInit ==
  /\ route \in {"operator", "device"}
  /\ size \in Sizes /\ response = NoBytes("none")
  /\ range \in [given: BOOLEAN, first: Offsets \cup {Missing},
                 last: Offsets \cup {Missing}]

\* The device's route has no empty files.
Download ==
  /\ response.status = "none"
  /\ response' = IF route = "device" /\ size = 0 THEN NoBytes("503")
                 ELSE IF range.given THEN Select(size, range)
                 ELSE Reply("200", 0, size - 1, size)
  /\ UNCHANGED <<route, size, range>>

\* A file that does not reach as far, because it is shorter by now or because
\* the range was not bounded, ends the connection without an answer.
Serve(n) ==
  /\ response.status \in {"200", "206"}
  /\ size' = n
  /\ response' =
       LET length == IF response.length = 0 THEN n - response.first ELSE response.length
       IN IF response.first > n \/ Wrap(response.first + length) > n
          THEN NoBytes("dropped")
          ELSE [response EXCEPT !.status = "sent", !.length = length]
  /\ UNCHANGED <<route, range>>

RangeNext == Download \/ \E n \in Sizes : n <= size /\ Serve(n)

RangeSpec == RangeInit /\ [][RangeNext]_rangeVars

-----------------------------------------------------------------------------

\* The bytes of the file a range asks for.
Asked ==
  IF ~range.given THEN 0..(size - 1)
  ELSE {b \in 0..(size - 1) :
          IF range.first = Missing
            THEN range.last # Missing /\ b >= size - range.last
            ELSE b >= range.first /\ (range.last = Missing \/ b <= range.last)}

Named == response.first..response.last

\* The bytes a connection carries: Content-Length of them, or all there are.
Sent == {b \in 0..(size - 1) :
           response.first <= b /\ b < response.first + response.length}

\* The one end with which a device's count does not fit a word.
Widest ==
  route = "device" /\ range.given /\ range.first # Missing /\ range.last = Word - 1

\* Content-Range names exactly what was asked for, so far as the file has it,
\* nothing is refused that could be sent, and nothing is sent beside it; what
\* is sent is all of it, in as many bytes as Content-Length says, but for the
\* widest range a device can ask for (control_plane.cpp:1017-1044, 1747-1781,
\* http_server.cpp:234-262).
RangesAreExact ==
  /\ response.status \in {"416", "503"} => Asked = {}
  /\ response.status \in {"200", "206"} => Named = Asked
  /\ response.status = "206" => Named # {}
  /\ response.status = "sent" => Sent \subseteq Named
  /\ response.status = "sent" /\ ~Widest =>
       Sent = Named /\ response.length = response.last - response.first + 1
=============================================================================
