------------------------------ MODULE MCSettings ------------------------------
(***************************************************************************)
(* Forms a cipher can be left with: every mode of AES over keys and nonces *)
(* of the mode before it, typed and derived; every padding, key source,    *)
(* envelope and salt; and the other tools, set by set.                     *)
(***************************************************************************)
EXTENDS SettingPromises

Sound(n) == [len |-> n, flaw |-> "none"]
Flawed(n, flaw) == [len |-> n, flaw |-> flaw]
Garbled == Flawed(0, "garbled")

NewForm ==
  [tool |-> Settings!Catalogue("aes"), direction |-> "encrypt", mode |-> "gcm", set |-> "none", profile |-> "online-tools",
   keySize |-> 32, key |-> Sound(32), nonce |-> Sound(12), padding |-> "pkcs7", tagLen |-> 16, messageSalt |-> 0,
   source |-> "directinput", derives |-> "key-iv", envelope |-> "none", salt |-> Sound(8), password |-> Sound(4), iterations |-> 10000]

Modes == DOMAIN Settings!AesModes \ {"none"}

TypedForms ==
  {[NewForm EXCEPT !.mode = m, !.keySize = size, !.key = Sound(k), !.nonce = Sound(n)] :
     m \in Modes, size \in {16, 32, 64}, k \in {0, 16, 32, 64}, n \in {0, 12, 16}}

DerivedForms ==
  {[NewForm EXCEPT !.mode = m, !.keySize = size, !.key = Sound(0), !.nonce = n, !.source = source, !.derives = derives] :
     m \in Modes, size \in {32, 48}, n \in {Sound(0), Sound(12), Sound(16)}, source \in {"pbkdf2", "evpkdf"}, derives \in {"key", "key-iv"}}

FlawedForms ==
  {[NewForm EXCEPT !.mode = m, !.key = k, !.nonce = n, !.source = source, !.derives = derives, !.tagLen = 8] :
     m \in {"gcm", "ccm", "cbc", "ecb", "xts"}, k \in {Garbled, Flawed(32, "twin"), Flawed(64, "twin")}, n \in {Garbled, Sound(16)},
     source \in {"directinput", "hkdf"}, derives \in {"key", "key-iv"}}

PaddedForms ==
  {[NewForm EXCEPT !.tool = Settings!Catalogue(t), !.mode = m, !.padding = p, !.direction = dir, !.source = source, !.iterations = i,
                  !.key = IF t = "des" THEN Flawed(8, "weak") ELSE @, !.nonce = Sound(IF t = "des" THEN 8 ELSE 16)] :
     t \in {"aes", "des"}, m \in {"cbc", "ecb"}, p \in {"pkcs7", "zero", "iso10126"}, dir \in {"encrypt", "decrypt"},
     source \in {"directinput", "pbkdf2", "evpkdf"}, i \in {1000, 10000}}

EnvelopeForms ==
  {[NewForm EXCEPT !.mode = "cbc", !.direction = dir, !.source = source, !.envelope = e, !.salt = salt, !.password = pw] :
     dir \in {"encrypt", "decrypt"}, source \in {"pbkdf2", "evpkdf", "hkdf", "bcryptpbkdf"}, e \in {"none", "openssl"},
     salt \in {Sound(0), Sound(5), Sound(8), Sound(12), Garbled}, pw \in {Sound(0), Sound(4), Garbled}}

\* A set of another tool is what a tool finds selected when it is chosen.
OtherForms ==
  UNION {LET t == Settings!CipherTools[name]
         IN {[NewForm EXCEPT !.tool = Settings!Catalogue(name), !.mode = m, !.set = set, !.profile = profile, !.messageSalt = salt,
                            !.key = Sound(k), !.nonce = Sound(n), !.source = from[1], !.derives = from[2], !.tagLen = 32] :
               m \in {"gcm", "ccm", "ctr", "ecb"} \cap (ToSet(t.modes) \cup {"gcm"}),
               set \in DOMAIN t.sets \cup {"none"},
               profile \in IF name = "xxtea" THEN {"online-tools", "two-word-block"} ELSE {"online-tools"},
               salt \in IF name = "cobblestone" THEN {0, 8, 24} ELSE {0},
               k \in {0, t.generate} \cup (IF t.sets = <<>> THEN {3} ELSE {s.key : s \in Settings!Range(t.sets)}),
               n \in {0, 8, 12} \cup ToSet(t.nonces),
               from \in {<<"directinput", "key-iv">>, <<"pbkdf2", "key-iv">>, <<"pbkdf2", "key">>}} :
           name \in DOMAIN Settings!CipherTools \ {"aes"}}

SettingJobs ==
  {[config |-> [engine |-> "code", code |-> "settings", spec |-> s], data |-> <<>>] :
     s \in TypedForms \cup DerivedForms \cup FlawedForms \cup PaddedForms \cup EnvelopeForms \cup OtherForms}
=============================================================================
