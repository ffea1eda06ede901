--------------------------- MODULE CertificateChains ---------------------------
(***************************************************************************)
(* The order and the verdict verifyCertificateChain gives a list of         *)
(* certificates.  A certificate is a record: subject, issuer, serial,       *)
(* whether it is a CA and within its dates, its key usages (none when the   *)
(* extension is absent), its key, and the key that signed it.               *)
(***************************************************************************)
EXTENDS Integers, SequencesExt

SelfIssued(cert) == cert.subject = cert.issuer

\* Those of a subject; where one is there twice, the last is kept.
OfSubject(certs, name) == SelectSeq(certs, LAMBDA c : c.subject = name)

\* Mutant: any certificate that is no CA is taken for the leaf.
FirstEndEntity(certs) ==
  Head(SelectSeq(certs, LAMBDA c : ~c.ca) \o SelectSeq(certs, LAMBDA c : ~SelfIssued(c)) \o certs)
\* The leaf: no CA and nobody's issuer; or else the first not issued by itself.
LeafOf(certs) ==
  LET issuers == {c.issuer : c \in ToSet(certs)}
  IN Head(SelectSeq(certs, LAMBDA c : ~c.ca /\ c.subject \notin issuers)
            \o SelectSeq(certs, LAMBDA c : ~SelfIssued(c)) \o certs)

Visited(chain, cert) == \E c \in ToSet(chain) : c.serial = cert.serial

\* From a certificate to its issuer's, by name, while there is one not met yet.
Climb(certs, leaf) ==
  LET climbed[chain \in Seq(ToSet(certs))] ==
        LET current == Last(chain)
            parents == OfSubject(certs, current.issuer)
        IN IF SelfIssued(current) \/ parents = <<>> \/ Visited(chain, Last(parents)) THEN chain
           ELSE climbed[Append(chain, Last(parents))]
  IN climbed[<<leaf>>]

\* The rest follows in the order it came.
BuildCertificateChain(certs) ==
  IF Len(certs) <= 1 THEN certs
  ELSE FoldLeft(LAMBDA chain, c : IF Visited(chain, c) THEN chain ELSE Append(chain, c),
                Climb(certs, LeafOf(certs)), certs)

SignatureHolds(cert, parent) == cert.signer = parent.key

\* What is wrong with a certificate as it is issued: by itself, by the next in
\* the chain, or by one that is not there, of which nothing is said.
IssuedWrongly(cert, above) ==
  IF SelfIssued(cert) THEN IF SignatureHolds(cert, cert) THEN {} ELSE {"signature"}
  ELSE UNION {(IF parent.ca THEN {} ELSE {"issuer is no CA"})
              \cup (IF parent.usages = {} \/ "keyCertSign" \in parent.usages THEN {} ELSE {"issuer may not sign"})
              \cup (IF SignatureHolds(cert, parent) THEN {} ELSE {"signature"}) : parent \in above}

VerifyCertificateChain(certs) ==
  LET chain == BuildCertificateChain(certs)
      errors == [i \in DOMAIN chain |->
                   (IF chain[i].active THEN {} ELSE {"dates"}) \cup IssuedWrongly(chain[i], {chain[j] : j \in {i + 1} \cap DOMAIN chain})]
  IN [chain |-> chain, errors |-> errors, valid |-> \A i \in DOMAIN chain : errors[i] = {},
      rooted |-> SelfIssued(Last(chain))]
=============================================================================
