----------------------------- MODULE CyclicChecks -----------------------------
(***************************************************************************)
(* The table-driven CRC of the crc tool, over octets of OctetBits bits: a  *)
(* register, an octet and a polynomial are the sets of the places of their *)
(* ones, the lowest place 0.                                               *)
(***************************************************************************)
EXTENDS Integers, SequencesExt

CONSTANT OctetBits

ASSUME OctetsHaveBits == OctetBits \in Nat \ {0}

Up(r, n)        == {i + n : i \in r}
Down(r, n)      == {i - n : i \in {j \in r : j >= n}}
Masked(r, w)    == {i \in r : i < w}
Reflect(r, w)   == {w - 1 - i : i \in r}
ReflectOctet(r) == Reflect(r, OctetBits)

\* A register narrower than an octet is kept at its upper end.
RegisterLayout(m) ==
  LET justify == IF m.width >= OctetBits THEN 0 ELSE OctetBits - m.width
  IN [width |-> m.width + justify, poly |-> Up(m.poly, justify), init |-> Up(m.init, justify), justify |-> justify]

Stepped(layout, crc) ==
  LET up == Masked(Up(crc, 1), layout.width)
  IN IF layout.width - 1 \in crc THEN SymDiff(up, layout.poly) ELSE up

Entry(layout, index) ==
  LET crc[bit \in 0 .. OctetBits] ==
        IF bit = 0 THEN Up(index, layout.width - OctetBits) ELSE Stepped(layout, crc[bit - 1])
  IN crc[OctetBits]

\* What the form makes of its fields: an index into the catalogue, or values
\* typed by hand, of which the polynomial alone must be there and all must fit.
NoValue == {-1}  \* a field that is empty, or no number
ResolveModel(form) ==
  LET Fits(field)  == form[field] = NoValue \/ form[field] \subseteq 0 .. form.width - 1
      Given(field) == IF form[field] = NoValue THEN {} ELSE form[field]
      custom == [form EXCEPT !.init = Given("init"), !.xorOut = Given("xorOut")]
  IN IF form.model # "custom" THEN [ok |-> TRUE, problem |-> "none", model |-> form]
     ELSE IF form.poly = NoValue \/ ~Fits("poly") THEN [ok |-> FALSE, problem |-> "poly", model |-> form]
     ELSE IF ~Fits("init")   THEN [ok |-> FALSE, problem |-> "init", model |-> form]
     ELSE IF ~Fits("xorOut") THEN [ok |-> FALSE, problem |-> "xorOut", model |-> form]
     ELSE [ok |-> TRUE, problem |-> "none", model |-> custom]

CrcStart(form) == LET r == ResolveModel(form) IN IF r.ok THEN RegisterLayout(r.model).init ELSE {}

Fed(m, crc, octet) ==
  LET layout == RegisterLayout(m)
      index  == SymDiff(Down(crc, layout.width - OctetBits), IF m.refIn THEN ReflectOctet(octet) ELSE octet)
  IN SymDiff(Masked(Up(crc, OctetBits), layout.width), Entry(layout, index))

\* Fields that resolve to nothing read the file all the same.
CrcUpdate(form, crc, chunk) ==
  LET r == ResolveModel(form)
      after[k \in 0 .. Len(chunk)] == IF k = 0 THEN crc ELSE Fed(r.model, after[k - 1], chunk[k])
  IN IF r.ok THEN after[Len(chunk)] ELSE crc

\* The padding of a narrow register is dropped before anything else.
CrcDigest(m, crc) ==
  LET raw == Down(crc, RegisterLayout(m).justify)
  IN SymDiff(IF m.refOut THEN Reflect(raw, m.width) ELSE raw, m.xorOut)

\* The highest octet first.
ToOctets(value, width) ==
  LET n == (width + OctetBits - 1) \div OctetBits
  IN [k \in 1 .. n |-> Masked(Down(value, (n - k) * OctetBits), OctetBits)]

CrcFinish(form, crc) ==
  LET r == ResolveModel(form)
  IN [ok |-> r.ok, out |-> IF r.ok THEN ToOctets(CrcDigest(r.model, crc), r.model.width) ELSE <<>>]

\* The table shown beside the result for loops that take the lowest bit first.
ReflectedEntry(layout, index) == Reflect(Entry(layout, ReflectOctet(index)), layout.width)

-----------------------------------------------------------------------------
(* What they are compared with. *)

\* Long division, from the highest term down.
Cancelled(q, i, divisor, degree) == IF i \in q THEN SymDiff(q, Up(divisor, i - degree)) ELSE q

Modulo(p, divisor, degree) ==
  LET top == Max(p \cup {degree})
      left[k \in 0 .. top - degree + 1] == IF k = 0 THEN p ELSE Cancelled(left[k - 1], top + 1 - k, divisor, degree)
  IN left[top - degree + 1]

\* The message, with the width's zeros after it and the first register added
\* to its beginning; and what it leaves.
Dividend(m, octets) ==
  LET n == Len(octets)
      Octet(k) == IF m.refIn THEN ReflectOctet(octets[k]) ELSE octets[k]
  IN SymDiff(UNION {Up(Octet(k), (n - k) * OctetBits + m.width) : k \in 1 .. n}, Up(m.init, n * OctetBits))

Residue(m, octets) == Modulo(Dividend(m, octets), m.poly \cup {m.width}, m.width)

CrcOf(m, octets) == SymDiff(IF m.refOut THEN Reflect(Residue(m, octets), m.width) ELSE Residue(m, octets), m.xorOut)

CrcOneShot(form, octets) ==
  LET r == ResolveModel(form)
  IN [ok |-> r.ok, out |-> IF r.ok THEN ToOctets(CrcOf(r.model, octets), r.model.width) ELSE <<>>]

\* The usual loop over the reflected table, for a model reflected at both ends:
\* its register ends up at the lower end, where it is read without a shift.
TakenLow(layout, crc, octet) ==
  SymDiff(Down(crc, OctetBits), ReflectedEntry(layout, SymDiff(Masked(crc, OctetBits), octet)))

ByReflectedTable(m, octets) ==
  LET layout == RegisterLayout(m)
      after[k \in 0 .. Len(octets)] ==
        IF k = 0 THEN Reflect(layout.init, layout.width) ELSE TakenLow(layout, after[k - 1], octets[k])
  IN SymDiff(after[Len(octets)], m.xorOut)
=============================================================================
