--------------------------- MODULE SettingPromises ---------------------------
(***************************************************************************)
(* What the form of a cipher promises: a form that is not refused runs,    *)
(* Generate gives what its field accepts, a field that is hidden is of no  *)
(* consequence, and the fixes of the rules hold.                           *)
(***************************************************************************)
EXTENDS ToolStream

Settings == INSTANCE CipherSettings

IsForm(j) == j.config.engine = "code" /\ j.config.code = "settings"

FieldNames == {"tool", "direction", "mode", "set", "profile", "keySize", "key", "nonce", "padding", "tagLen", "messageSalt",
               "source", "derives", "envelope", "salt", "password", "iterations"}

\* A form has every field there is, whatever it shows; AES's key sizes are
\* chosen from a list.
FormIsFilledIn(s) ==
  /\ FieldNames \subseteq DOMAIN s
  /\ s.direction \in {"encrypt", "decrypt"} /\ s.salt.len \in Nat
  /\ s.tool.name = "aes" => s.keySize \in {16, 24, 32, 48, 64}

\* What the catalogue keeps to: a tool has keys of some lengths, one of them the
\* one it generates; its modes are known ones, and those that split a key are
\* AES's; one of its sets is the first, AES has none and Cobblestone some; and
\* a set has a key, a block where the tool has blocks and a nonce where it
\* has nonces.
ToolIsConsistent(t) ==
  /\ t.block \in Nat /\ t.nonces \in Seq(Nat)
  /\ t.modes # <<>> /\ t.modes \in Seq(DOMAIN Settings!AesModes)
  /\ t.name # "aes" => \A m \in Range(t.modes) : Settings!AesModes[m].keyLengths = {}
  /\ t.keys \cup t.range \subseteq Nat \ {0}
  /\ t.generate \in IF t.keys # {} THEN t.keys ELSE t.range
  /\ t.keys # {} => \E n \in t.keys : \A k \in t.keys : k <= n
  /\ t.name = "aes" => DOMAIN t.sets = {}
  /\ t.name = "cobblestone" => DOMAIN t.sets # {}
  /\ DOMAIN t.sets # {} => t.first \in DOMAIN t.sets
  /\ \A n \in DOMAIN t.sets :
       /\ t.sets[n].key \in Nat \ {0} /\ t.sets[n].block \in Nat /\ t.sets[n].nonce \in Nat
       /\ t.block > 0 => t.sets[n].block > 0
       /\ t.nonces # <<>> => t.sets[n].nonce > 0

ASSUME FormsAreSound ==
  \A j \in Jobs : IsForm(j) => FormIsFilledIn(j.config.spec) /\ ToolIsConsistent(j.config.spec.tool)

\* A form is answered with its outcome.
ASSUME FormsAreAnswered ==
  \A j \in Jobs : IsForm(j) => ReadBack(j.config, j.data) = Settings!Outcome(j.config.spec)

-----------------------------------------------------------------------------
Read(codes) == config.engine = "code" /\ status = "done" /\ config.code \in codes
Result == emitted[1]

\* What Generate puts in a field is accepted there.  It sizes a key by the tool
\* and not by the set selected, so a set whose key is another length refuses it.
GenerateFits(s) ==
  \A field \in {"key", "nonce"} \cap Settings!Shown(s) :
    \/ Settings!Refusal(Settings!Generated(s, field)) # field
    \/ field = "key" /\ Settings!HasSets(s) /\ s.tool.name # "cobblestone" /\ s.tool.generate # Settings!SetOf(s).key

\* What resolves has a key and a nonce the cipher takes.  Not so, in AES, under
\* a size declared for a mode that splits its key; under a derived key, where
\* the key may be of many lengths; and with an IV that is to be derived, where
\* a typed one is optional.
CipherTakes(s) ==
  LET mode   == Settings!ModeForSpec(s)
      takes  == IF s.tool.name = "aes" /\ Settings!AesModes[mode].keyLengths = {} THEN {16, 24, 32}
                ELSE Settings!CipherKeyLengths(s) \cup s.tool.range
      given  == IF Settings!Typed(s) THEN s.key.len ELSE Settings!DerivedKeyLength(s)
      nonces == Settings!AcceptedNonceLengths(s, mode)
      iv     == Settings!DerivedIvLength(s)
  IN /\ \/ given \in takes
        \/ s.tool.name = "aes" /\ s.keySize \in {48, 64}
        \/ ~Settings!Typed(s) /\ s.tool.range # {}
     /\ \/ nonces = {} \/ (IF iv > 0 THEN iv ELSE s.nonce.len) \in nonces
        \/ Settings!IvIsDerived(s) /\ 0 \in nonces

\* The salt that OpenSSL's envelope carries opens it again, when it is random or
\* eight bytes long.
SaltTravels(s) ==
  LET header == Settings!OpensslHeader(Settings!EnvelopeSalt(s))
      back   == [s EXCEPT !.direction = "decrypt"]
  IN s.direction = "encrypt" /\ s.envelope = "openssl" /\ Len(Settings!Salt(s)) \in {0, 8} =>
       Settings!Resolves(back) /\ Settings!UsedSalt(back, header) = Settings!UsedSalt(s, header)

\* A form that is not refused runs: Generate gives what its field accepts, what
\* resolves the cipher can be called with, and what it enveloped it can open.
SettingsCanRun ==
  Read({"settings"}) =>
    LET s == config.spec
    IN /\ GenerateFits(s)
       /\ Result.refused = "none" => CipherTakes(s) /\ (~Settings!Typed(s) => SaltTravels(s))

\* What another field may hold.
Others(field) ==
  CASE field \in {"key", "nonce", "salt", "password"} -> {[len |-> n, flaw |-> "none"] : n \in {0, 12, 16}}
    [] field = "padding"    -> {"zero", "pkcs7"}
    [] field = "tagLen"     -> {8, 32}
    [] field = "derives"    -> {"key", "key-iv"}
    [] field = "envelope"   -> {"none", "openssl"}
    [] field = "iterations" -> {1000}
    [] field = "keySize"    -> {16, 64}

\* Two hidden fields are read all the same: a hidden key's length where the
\* cipher takes many, and a hidden nonce where none is required.
ReadAnyway(s, field) ==
  \/ field = "key" /\ s.tool.range # {}
  \/ field = "nonce" /\ 0 \in Settings!AcceptedNonceLengths(s, Settings!ModeForSpec(s))

Fields == {"key", "nonce", "salt", "password", "padding", "tagLen", "derives", "envelope", "iterations", "keySize"}

\* A field is blamed only where it can be seen, unless what it still holds can
\* no longer be decoded; and whatever a hidden field still holds, the outcome
\* is the same.
HiddenFieldsAreIgnored ==
  Read({"settings"}) =>
    LET s     == config.spec
        shown == Settings!Shown(s)
    IN (\A field \in {"key", "nonce"} \ shown : s[field].flaw # "garbled") =>
         /\ Result.refused \in shown \cup {"none", "message salt"}
         /\ \A field \in Fields \ shown : ReadAnyway(s, field) \/
              \A value \in Others(field) : Settings!Outcome([s EXCEPT ![field] = value]) = Result

Worst(notes) == IF notes = <<>> THEN 5 ELSE CHOOSE l \in 1 .. 4 : Settings!Levels[l] = notes[1].level
CodesOf(notes) == {notes[i].code : i \in DOMAIN notes}

\* rules.ts: the fixes leave "a spec that actually resolves whichever order the
\* fixes ran in".  Each alone silences its own rule and none makes the worst
\* level worse; all in one pass leave nothing to fix but the warning about
\* nonces, which no nonce silences, and iterations that came into force with
\* PBKDF2.  A fresh nonce is drawn wherever the length is not the mode's to say
\* and not optional.
FixesHold ==
  Read({"settings"}) /\ Result.refused = "none" =>
    LET s       == config.spec
        fixable == {note \in ToSet(Settings!Lint(s)) : note.fix # "none"}
        orders  == SetToSeqs({note.fix : note \in fixable})
    IN /\ \A mended \in {Settings!FixedInOrder(s, order) : order \in orders} : Settings!Resolves(mended)
       /\ \A r \in {[note |-> note, spec |-> Settings!Fixed(s, note.fix)] : note \in fixable} :
            \A left \in {Settings!Lint(r.spec)} :
              /\ r.note.code \notin CodesOf(left) \ {"C003"}
              /\ Worst(left) >= Worst(Settings!Lint(s))
              /\ r.note.code = "C003" => \/ r.spec.nonce.flaw = "fresh" \/ s.tool.modes # <<"none">>
                                         \/ 0 \in ToSet(s.tool.nonces)
       /\ \A mended \in {Settings!ApplyAllFixes(s)} :
            CodesOf(SelectSeq(Settings!Lint(mended), LAMBDA note : note.fix # "none")) \subseteq
              {"C003"} \cup (IF s.source = "evpkdf" THEN {"C012"} ELSE {})
=============================================================================
