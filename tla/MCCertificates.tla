----------------------------- MODULE MCCertificates ----------------------------
(* Small instances of Certificates for TLC.                                    *)
EXTENDS CertificateProperties, TLC

CONSTANTS c1, v1

OneVenue == [c \in Certs |-> v1]
Interchangeable == Permutations(Taps) \cup Permutations(Runs)
                   \cup Permutations(Accounts) \cup Permutations(Merchants)
===============================================================================
