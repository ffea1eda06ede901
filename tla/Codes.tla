-------------------------------- MODULE Codes --------------------------------
(***************************************************************************)
(* What the tools that read a code back do with what they are given, in    *)
(* one call: a received word, a number, a line of bits, some shares, a      *)
(* ciphertext, an encoded text, the settings of a cipher, a list of         *)
(* certificates, or random bytes to choose by.                              *)
(***************************************************************************)
EXTENDS CheckDigits, ParityCodes, LinearCodes, SecretSharing

Machines == INSTANCE CipherMachines
Ciphers  == INSTANCE LetterCiphers
Texts    == INSTANCE TextCodes
CipherForms == INSTANCE CipherSettings
Draws    == INSTANCE Sampling
Chains   == INSTANCE CertificateChains

\* A message as a cipher or a textual encoding writes it.
Ciphered(c, d) ==
  CASE c.code = "machine" -> Machines!Crypt(c, "encrypt", d)
    [] c.code = "letters" -> Ciphers!Crypt(c, "encrypt", d)
    [] c.code = "text"    -> Texts!Encode(c, d)

\* Bits in the order they are received: as positions from 1, or with the
\* last one the lowest.
Ones(bits) == {i \in DOMAIN bits : bits[i] = 1}
Low(bits)  == {Len(bits) - i : i \in Ones(bits)}

ValidNumber(scheme, s) ==
  CASE scheme = "verhoeff" -> VerhoeffValidate(s)
    [] scheme = "damm"     -> DammValidate(s)
    [] scheme = "luhn"     -> LuhnValidate(s)
    [] scheme = "isbn10"   -> Isbn10Validate(s)
    [] scheme = "isbn13"   -> Isbn13Validate(s)
    [] scheme = "aba"      -> AbaValidate(s)
    [] scheme = "sedol"    -> SedolValidate(s)
    [] scheme = "cusip"    -> CusipValidate(s)
    [] scheme = "isin"     -> IsinValidate(s)
    [] scheme = "iban"     -> IbanValidate(s, 16)

\* The number with its check digit.
Numbered(scheme, body) ==
  LET check == CASE scheme = "verhoeff" -> VerhoeffCompute(body)
                 [] scheme = "damm"     -> DammCompute(body)
                 [] scheme = "luhn"     -> LuhnCompute(body)
                 [] scheme = "isbn10"   -> Isbn10Compute(body)
                 [] scheme = "isbn13"   -> Isbn13Compute(body)
                 [] scheme = "aba"      -> AbaCompute(body)
                 [] scheme = "sedol"    -> SedolCompute(body)
                 [] scheme = "cusip"    -> CusipCompute(body)
                 [] scheme = "isin"     -> IsinCompute(body)
  IN IF scheme = "iban" THEN IbanGenerate(SubSeq(body, 1, 2), SubSeq(body, 3, Len(body)))
     ELSE Append(body, check)

\* A word of data as it is sent.
Encoded(c, d) ==
  LET InOrder(word, n) == [i \in 1 .. n |-> IF n - i \in word THEN 1 ELSE 0]
      AtPlaces(word, n) == [i \in 1 .. n |-> IF i \in word THEN 1 ELSE 0]
  IN CASE c.code = "hamming" ->
            AtPlaces(HammingEncode(c.dataBits, d, c.extended), HammingCodeBits(c.dataBits) + (IF c.extended THEN 1 ELSE 0))
       [] c.code = "longhand" ->
            IF c.extended THEN AtPlaces(Hamming84Encode(d), 8) ELSE AtPlaces(Hamming74Encode(d), 7)
       [] c.code = "rs"       -> d \o RsEncode(RsField(c.profile), d, c.ecc)
       [] c.code = "bch"      -> InOrder(BchEncode(BchProfile[c.profile], d), BchProfile[c.profile].n)
       [] c.code = "golay"    -> InOrder(GolayEncodeWord(d), 24)
       [] c.code = "hadamard" -> InOrder(HadamardEncodeWord(d, c.m), 2^c.m)
       [] c.code = "packed"   -> Packed(d, c.k)

Decode(c, word) ==
  CASE c.code = "hamming"  -> HammingDecode(c.dataBits, Ones(word), c.extended)
    [] c.code = "longhand" -> IF c.extended THEN Hamming84Decode(Ones(word)) ELSE Hamming74Decode(Ones(word))
    [] c.code = "rs"       -> RsDecode(RsField(c.profile), word, c.ecc)
    [] c.code = "bch"      -> BchDecode(c.profile, Low(word))
    [] c.code = "golay"    -> GolayDecodeWord(Low(word))
    [] c.code = "hadamard" -> HadamardDecodeWord(Low(word), c.m)
    [] c.code = "packed"   -> Unpacked(word, c.k, c.length)
    [] c.code = "number"   -> ValidNumber(c.scheme, word)
    [] c.code = "uart"     -> UartDecode(word, c)
    [] c.code = "shamir"   -> ShamirCombine(word)
    [] c.code = "tampered" -> DetectTamperedShares(word, c.threshold)
    [] c.code = "slip39"   -> Slip39Recover(word)
    [] c.code = "phrase"   -> Slip39Parse(word, c.length)
    [] c.code = "machine"  -> Machines!Crypt(c, "decrypt", word)
    [] c.code = "letters"  -> Ciphers!Crypt(c, "decrypt", word)
    [] c.code = "text"     -> Texts!Decoded(c, word)
    [] c.code = "settings" -> CipherForms!Outcome(c.spec)
    [] c.code = "draws"    -> Draws!Tally(c)
    [] c.code = "chain"    -> Chains!VerifyCertificateChain(word)
=============================================================================
