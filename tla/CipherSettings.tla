---------------------------- MODULE CipherSettings ----------------------------
(***************************************************************************)
(* The form of a cipher: what its settings are resolved to or refused for, *)
(* which fields it shows, what Generate puts in them, which rules speak up *)
(* and what their fixes do.  A spec keeps the value of every field it has  *)
(* ever shown.  A field of bytes is its length and its flaw: "garbled"     *)
(* cannot be decoded, "weak" is one of DES's weak keys, "twin" has two     *)
(* equal halves, "fresh" has just been drawn.                              *)
(***************************************************************************)
EXTENDS Integers, FiniteSetsExt, SequencesExt

-----------------------------------------------------------------------------
(* The catalogue: AES's modes, and one tool of every kind.                  *)

Plain(nonceLen) ==
  [aead |-> FALSE, nonceLen |-> nonceLen, nonceLens |-> {nonceLen}, tagLens |-> {}, blockAligned |-> FALSE, keyLengths |-> {}]
Sealed(nonceLen) == [Plain(nonceLen) EXCEPT !.aead = TRUE]
Tagged(nonceLens) == [Sealed(12) EXCEPT !.nonceLens = nonceLens, !.tagLens = {4, 6, 8, 10, 12, 14, 16}]

AesModes ==
  [gcm    |-> Sealed(12),   gcmsiv |-> [Sealed(12) EXCEPT !.keyLengths = {16, 32}],
   ccm    |-> Tagged(7 .. 13), ocb |-> Tagged(1 .. 15), aessiv |-> [Sealed(0) EXCEPT !.keyLengths = {32, 48, 64}],
   cbc    |-> [Plain(16) EXCEPT !.blockAligned = TRUE], ecb |-> [Plain(0) EXCEPT !.blockAligned = TRUE],
   ctr    |-> Plain(16),    ofb |-> Plain(16),  cfb |-> Plain(16),
   xts    |-> [Plain(16) EXCEPT !.keyLengths = {32, 64}], kw |-> Plain(0), kwp |-> Plain(0),
   none   |-> Plain(0)]

\* keys are the exact lengths, or none where the key has a range; a nonce that
\* no mode decides has the lengths of nonces, the first one required.
Tool(aead, keys, nonces) ==
  [aead |-> aead, broken |-> FALSE, block |-> 0, modes |-> <<"none">>, keys |-> keys, range |-> {},
   generate |-> IF keys = {} THEN 0 ELSE Max(keys), nonces |-> nonces, sets |-> <<>>, first |-> "none", tagLens |-> {}]
BlockTool(size, modes, keys) == [Tool(FALSE, keys, <<>>) EXCEPT !.block = size, !.modes = modes]
Ranged(tool, range, generate) == [tool EXCEPT !.range = range, !.generate = generate]
Chaining == <<"cbc", "cfb", "ofb", "ctr", "ecb">>
Set(block, key, nonce, tag) == [block |-> block, key |-> key, nonce |-> nonce, tag |-> tag]

CipherTools ==
  [aes       |-> [BlockTool(16, <<"gcm", "gcmsiv", "ccm", "ocb", "xts", "aessiv", "kw", "kwp">> \o Chaining, {16, 24, 32, 48, 64}) EXCEPT !.generate = 32],
   camellia  |-> BlockTool(16, <<"gcm", "ccm">> \o Chaining, {16, 24, 32}),
   des       |-> [BlockTool(8, Chaining, {8}) EXCEPT !.broken = TRUE],
   blowfish  |-> Ranged(BlockTool(8, Chaining, {}), 4 .. 56, 56),
   speck     |-> [BlockTool(16, Chaining, {8, 12, 16}) EXCEPT !.generate = 16, !.first = "128-128",
                    !.sets = "32-64" :> Set(4, 8, 0, 0) @@ "64-96" :> Set(8, 12, 0, 0) @@ "128-128" :> Set(16, 16, 0, 0)],
   xxtea     |-> BlockTool(8, Chaining, {16}),
   chacha20poly1305 |-> Tool(TRUE, {32}, <<12>>),
   chacha20orig     |-> Tool(FALSE, {32}, <<8>>),
   aegis256  |-> [Tool(TRUE, {32}, <<32>>) EXCEPT !.tagLens = {16, 32}],
   rc4       |-> [Ranged(Tool(FALSE, {}, <<>>), 1 .. 256, 16) EXCEPT !.broken = TRUE],
   rabbit    |-> Tool(FALSE, {16}, <<0, 8>>),
   trivium   |-> Tool(FALSE, {10}, <<4, 8, 10>>),
   schwaemm  |-> [Tool(TRUE, {16, 24, 32}, <<16, 24, 32>>) EXCEPT !.first = "256-128",
                    !.sets = "128-128" :> Set(0, 16, 16, 16) @@ "192-192" :> Set(0, 24, 24, 24) @@ "256-128" :> Set(0, 16, 32, 16)],
   elephant  |-> [Tool(TRUE, {16}, <<12>>) EXCEPT !.first = "dumbo",
                    !.sets = "dumbo" :> Set(0, 16, 12, 8) @@ "delirium" :> Set(0, 16, 12, 16)],
   fernet    |-> Tool(TRUE, {32}, <<0, 16>>),
   cobblestone |-> [Tool(TRUE, {16, 32}, <<>>) EXCEPT !.first = "128",
                    !.sets = "128" :> Set(0, 16, 0, 16) @@ "256" :> Set(0, 32, 0, 16)]]

-----------------------------------------------------------------------------
(* What a spec selects.  Its tool is the entry of the catalogue.            *)

Catalogue(name) == [name |-> name] @@ CipherTools[name]

\* A mode the tool does not offer is read as its own first.
ModeForSpec(s) ==
  IF s.tool.name = "xxtea" /\ s.profile = "online-tools" THEN "none"
  ELSE IF s.mode \in Range(s.tool.modes) THEN s.mode ELSE s.tool.modes[1]

\* Of a tool with sets, the one selected, or else its default.
HasSets(s) == DOMAIN s.tool.sets # {}
SetOf(s) == s.tool.sets[IF s.set \in DOMAIN s.tool.sets THEN s.set ELSE s.tool.first]
BlockOf(s) == IF HasSets(s) THEN SetOf(s).block ELSE s.tool.block

\* Mutant: every mode takes one block of the cipher.
OneBlock(s, mode) ==
  LET m == AesModes[mode]
  IN CASE s.tool.block > 0 -> IF m.nonceLen = 0 THEN 0 ELSE BlockOf(s)
       [] s.tool.block = 0 /\ s.tool.nonces = <<>> -> 0
       [] OTHER -> IF HasSets(s) THEN SetOf(s).nonce ELSE s.tool.nonces[1]

\* Zero is none.  A chaining mode takes one block of the cipher, an
\* authenticated one has a length of its own.
RequiredNonceLength(s, mode) ==
  LET m == AesModes[mode]
  IN CASE s.tool.block > 0 -> IF m.nonceLen = 0 \/ m.aead THEN m.nonceLen ELSE BlockOf(s)
       [] s.tool.block = 0 /\ s.tool.nonces = <<>> -> 0
       [] OTHER -> IF HasSets(s) THEN SetOf(s).nonce ELSE s.tool.nonces[1]

AcceptedNonceLengths(s, mode) ==
  LET m == AesModes[mode]
  IN CASE s.tool.block > 0 -> IF m.nonceLen = 0 THEN {} ELSE IF m.aead THEN m.nonceLens ELSE {BlockOf(s)}
       [] s.tool.block = 0 /\ s.tool.nonces = <<>> -> {}
       [] OTHER -> IF HasSets(s) THEN {SetOf(s).nonce} ELSE Range(s.tool.nonces)

\* Empty where the key has a range.  A size left over from a mode that splits
\* its key stays declared in one that does not.
CipherKeyLengths(s) ==
  LET m == AesModes[ModeForSpec(s)]
  IN CASE m.keyLengths # {} -> m.keyLengths
       [] m.keyLengths = {} /\ HasSets(s) -> {SetOf(s).key}
       [] m.keyLengths = {} /\ s.tool.name = "aes" -> {s.keySize}
       [] OTHER -> s.tool.keys

\* How many bytes Generate draws.  Only AES and Cobblestone size a key by
\* what is selected.
CipherGenerateLength(s, field) ==
  LET accepted == CipherKeyLengths(s)
      needed   == RequiredNonceLength(s, ModeForSpec(s))
  IN CASE field = "key" /\ s.tool.name = "aes" -> IF s.keySize \in accepted THEN s.keySize ELSE Max(accepted)
       [] field = "key" /\ s.tool.name = "cobblestone" -> SetOf(s).key
       [] field = "key" /\ s.tool.name \notin {"aes", "cobblestone"} -> s.tool.generate
       [] field = "nonce" -> IF needed > 0 THEN needed ELSE Last(s.tool.nonces)

Fresh(length) == [len |-> length, flaw |-> "fresh"]
Generated(s, field) == [s EXCEPT ![field] = Fresh(CipherGenerateLength(s, field))]

-----------------------------------------------------------------------------
(* Where the key comes from.                                                *)

Typed(s)       == s.source = "directinput"
IvIsDerived(s) == ~Typed(s) /\ s.derives = "key-iv"

\* A password or a salt that cannot be decoded is read as an empty one.
Legible(field) == IF field.flaw = "garbled" THEN 0 ELSE field.len
Password(s)    == Legible(s.password)
Salt(s)        == [i \in 1 .. Legible(s.salt) |-> <<"salt", i>>]

\* The field that keeps a key from being derived, if one does.
KeySourceProblem(s) ==
  LET unsalted == Salt(s) = <<>>
  IN CASE Typed(s) -> "none"
       [] ~Typed(s) /\ Password(s) = 0 -> "password"
       [] ~Typed(s) /\ Password(s) > 0 /\ unsalted
            /\ \/ s.envelope # "openssl" /\ s.source # "hkdf"
               \/ s.source = "bcryptpbkdf" /\ s.direction = "encrypt" -> "salt"
       [] OTHER -> "none"

\* OpenSSL's envelope carries eight bytes of salt: those of the field, or eight
\* random ones when it is empty.
OpensslSaltBytes == 8
RandomSalt       == [i \in 1 .. OpensslSaltBytes |-> <<"random", i>>]
OpensslHeader(salt) == [i \in 1 .. OpensslSaltBytes |-> IF i <= Len(salt) THEN salt[i] ELSE <<"zero">>]
EnvelopeSalt(s)  == IF Salt(s) = <<>> THEN RandomSalt ELSE Salt(s)
UsedSalt(s, header) ==
  CASE s.envelope # "openssl" -> Salt(s)
    [] s.envelope = "openssl" /\ s.direction = "encrypt" -> EnvelopeSalt(s)
    [] s.envelope = "openssl" /\ s.direction = "decrypt" -> header

-----------------------------------------------------------------------------
(* Resolving.                                                               *)

KeyFits(s) ==
  LET exact == CipherKeyLengths(s)
  IN Typed(s) => s.key.len > 0 /\ s.key.len \in IF exact # {} THEN exact ELSE s.tool.range

\* Mutant: a nonce that is going to be derived is judged all the same.
EveryNonceFits(s) ==
  LET accepted == AcceptedNonceLengths(s, ModeForSpec(s))
  IN accepted # {} => s.nonce.len \in accepted

NonceFits(s) ==
  LET accepted == AcceptedNonceLengths(s, ModeForSpec(s))
  IN ~IvIsDerived(s) /\ accepted # {} => s.nonce.len \in accepted

\* The first field that is refused, in the order they are looked at.
Refusal(s) ==
  LET underived == KeySourceProblem(s)
  IN IF underived # "none" THEN underived
     ELSE IF s.key.flaw = "garbled" \/ ~KeyFits(s) THEN "key"
     ELSE IF s.nonce.flaw = "garbled" \/ ~NonceFits(s) THEN "nonce"
     ELSE IF s.tool.name = "cobblestone" /\ s.messageSalt \notin {0, 24} THEN "message salt"
     ELSE "none"

Resolves(s) == Refusal(s) = "none"

Aead(s) == IF s.tool.name = "aes" THEN AesModes[ModeForSpec(s)].aead ELSE s.tool.aead

TagLength(s) ==
  LET m == AesModes[ModeForSpec(s)]
  IN CASE ~Aead(s) -> 0
       [] Aead(s) /\ HasSets(s) -> SetOf(s).tag
       [] Aead(s) /\ ~HasSets(s) /\ s.tagLen \in s.tool.tagLens \cup m.tagLens -> s.tagLen
       [] OTHER -> 16

DerivedKeyLength(s) == IF CipherKeyLengths(s) # {} THEN Max(CipherKeyLengths(s)) ELSE s.key.len
DerivedIvLength(s)  == IF IvIsDerived(s) THEN RequiredNonceLength(s, ModeForSpec(s)) ELSE 0

\* What the cipher is called with: everything that can change its answer.
Call(s) ==
  LET mode == ModeForSpec(s)
      salt == UsedSalt(s, RandomSalt)
  IN [tool |-> s.tool, direction |-> s.direction, mode |-> mode,
      set  |-> IF HasSets(s) THEN <<SetOf(s)>> ELSE <<>>,
      key  |-> IF Typed(s) THEN <<"typed", s.key>>
               ELSE <<"derived", s.source, Password(s), salt, IF s.source = "pbkdf2" THEN s.iterations ELSE 0, DerivedKeyLength(s)>>,
      nonce |-> CASE DerivedIvLength(s) > 0 -> <<"derived", DerivedIvLength(s)>>
                  [] DerivedIvLength(s) = 0 /\ AcceptedNonceLengths(s, mode) # {} -> <<"typed", s.nonce>>
                  [] OTHER -> <<"none">>,
      padding |-> IF AesModes[mode].blockAligned THEN s.padding ELSE "none",
      tag     |-> TagLength(s)]

Outcome(s) == [refused |-> Refusal(s), call |-> IF Resolves(s) THEN <<Call(s)>> ELSE <<>>]

\* The fields on the form.
Shown(s) ==
  LET mode == ModeForSpec(s)
      m    == AesModes[mode]
      When(fields, shown) == IF shown THEN fields ELSE {}
  IN When({"key"}, Typed(s)) \cup When({"password", "salt", "derives", "envelope"}, ~Typed(s))
     \cup When({"iterations"}, s.source = "pbkdf2")
     \cup When({"nonce"}, ~IvIsDerived(s) /\ IF s.tool.block > 0 THEN m.nonceLen > 0 ELSE s.tool.nonces # <<>>)
     \cup When({"padding"}, m.blockAligned)
     \cup When({"tagLen"}, m.tagLens \cup s.tool.tagLens # {})
     \cup When({"keySize"}, s.tool.name = "aes")

-----------------------------------------------------------------------------
(* The rules, and their fixes.  What has to resolve first is ok.            *)

Levels == <<"error", "insecure", "warning", "info">>

Note(code, level, fix, fires) == [code |-> code, level |-> level, fix |-> fix, fires |-> fires]

Checked(s, ok) ==
  LET mode    == ModeForSpec(s)
      aligned == AesModes[mode].blockAligned
      sealing == s.direction = "encrypt"
      Sealing(fix) == IF sealing THEN fix ELSE "none"
      unauthenticated == ok /\ ~Aead(s) /\ mode # "ecb" /\ s.tool.name # "rc4"
  IN << Note("C001", "insecure", "gcm", ok /\ s.tool.name = "aes" /\ mode = "ecb"),
        Note("C002", "info", "none", unauthenticated /\ mode = "xts"),
        Note("C002", "warning", IF s.tool.name = "aes" THEN "gcm" ELSE "none", unauthenticated /\ mode # "xts"),
        Note("C003", "info", "nonce", ok /\ sealing /\ AcceptedNonceLengths(s, mode) # {} /\ s.nonce.len > 0
                                         /\ mode \notin {"gcmsiv", "xts"}),
        Note("C004", "insecure", "none", s.tool.broken),
        Note("C005", "error", "none", ~ok),
        Note("C006", "warning", "key", ok /\ s.tool.name = "des" /\ Typed(s) /\ s.key.flaw = "weak"),
        Note("C007", "info", "none", ok /\ HasSets(s) /\ s.tool.block > 0 /\ BlockOf(s) <= 8),
        Note("C008", "insecure", "half", ok /\ mode = "xts" /\ Typed(s) /\ s.key.flaw = "twin"),
        Note("C009", "warning", Sealing("pkcs7"), ok /\ aligned /\ s.padding = "zero"),
        Note("C010", "info", "none", ok /\ aligned /\ s.padding = "iso10126" /\ sealing),
        Note("C011", "insecure", Sealing("pbkdf2"), ok /\ s.source = "evpkdf"),
        Note("C012", "warning", "iterations", ok /\ s.source = "pbkdf2" /\ s.iterations < 10000),
        Note("C013", "info", "none", ok /\ ~Typed(s) /\ sealing /\ s.envelope = "openssl" /\ Salt(s) = <<>>) >>

\* The rules that fire, by level and then by code.
Lint(s) ==
  LET fired == SelectSeq(Checked(s, Resolves(s)), LAMBDA note : note.fires)
  IN FlattenSeq([l \in DOMAIN Levels |-> SelectSeq(fired, LAMBDA note : note.level = Levels[l])])

\* Mutant: the nonce of the old mode is kept.
WithModeAlone(s) == [s EXCEPT !.mode = "gcm"]

\* To GCM, with a nonce that fits it.
WithModeAndValidNonce(s) ==
  LET next   == [s EXCEPT !.mode = "gcm"]
      needed == RequiredNonceLength(next, "gcm")
  IN IF s.nonce.flaw = "garbled" \/ s.nonce.len # needed THEN [next EXCEPT !.nonce = Fresh(needed)] ELSE next

\* Only AES's mode is looked up.
WithFreshNonce(s) ==
  LET needed == RequiredNonceLength(s, IF s.tool.name = "aes" THEN s.mode ELSE "none")
  IN IF needed = 0 THEN s ELSE [s EXCEPT !.nonce = Fresh(needed)]

Fixed(s, fix) ==
  CASE fix = "none"       -> s
    [] fix = "gcm"        -> WithModeAndValidNonce(s)
    [] fix = "nonce"      -> WithFreshNonce(s)
    [] fix = "key"        -> [s EXCEPT !.key = Fresh(IF Resolves(s) THEN s.key.len ELSE 8)]
    [] fix = "half"       -> IF Resolves(s) THEN [s EXCEPT !.key.flaw = "fresh"] ELSE s
    [] fix = "pkcs7"      -> [s EXCEPT !.padding = "pkcs7"]
    [] fix = "pbkdf2"     -> [s EXCEPT !.source = "pbkdf2"]
    [] fix = "iterations" -> [s EXCEPT !.iterations = 600000]

FixedInOrder(s, fixes) ==
  LET after[n \in 0 .. Len(fixes)] == IF n = 0 THEN s ELSE Fixed(after[n - 1], fixes[n])
  IN after[Len(fixes)]

FixesOf(s) == LET notes == Lint(s) IN [i \in DOMAIN notes |-> notes[i].fix]

ApplyAllFixes(s) == FixedInOrder(s, FixesOf(s))
=============================================================================
