---------------------------- MODULE OpenSslDemos ----------------------------
(***************************************************************************)
(* The programs of cxx/tests64 that call OpenSSL: rsatt and ttatt encrypt  *)
(* and decrypt under a fresh key that goes through PEM and DER, rsasign    *)
(* signs and verifies, osslcli asks a TLS server.  Each is one thread that *)
(* makes one call after the other, and any call may fail.  What matters is *)
(* which failing results the program's check of that call catches, and     *)
(* what it goes on with when one slips through.                            *)
(*                                                                         *)
(* A function is the sequence of its calls.  OpenSSL and the sockets are   *)
(* external: a call works, or returns one of its failing results; given    *)
(* something that is not there, it does not work.                          *)
(***************************************************************************)
EXTENDS Integers, Sequences

CONSTANT Program   \* the programs started

ASSUME ProgramAssumption == Program \subseteq {"rsatt", "ttatt", "rsasign", "osslcli"}

VARIABLES
  program,  \* the program that runs
  pc,       \* the position of its next call
  value,    \* of each name: "none", "ok", "padded", "bad" (null or wrong), "freed"
  printed,  \* the values it has printed: pairs of a name and a value
  status,   \* "running", "returned" (from main, with 0), "gave up" (exit or an
            \* exception nothing catches), "crashed"
  lost      \* history: the names made anew over something not yet given back

vars == <<program, pc, value, printed, status, lost>>
-----------------------------------------------------------------------------
(* The calls.  A failing result is "zero" (a null pointer, too) or         *)
(* "negative"; a call that looks at a null pointer ends in a "crash".      *)

\* A call that is given needs.  fails: how it may fail, unfit: how it fails when
\* one of needs is not right; caught: the results the program does not go on
\* with.  It then skips so many calls, or gives up when skip is 0.
Do(name, needs) ==
  [ call |-> name, needs |-> needs, makes |-> {}, as |-> "ok", frees |-> {}, shows |-> {},
    fails |-> {"zero", "negative"}, unfit |-> {"zero", "negative"}, caught |-> {}, skip |-> 0 ]

\* A call that returns a pointer, or fills a buffer and returns its length.
Make(name, needs, object) ==
  [Do(name, needs) EXCEPT !.makes = {object}, !.fails = {"zero"}, !.unfit = {"zero"}]
Fill(name, needs, object) == [Do(name, needs) EXCEPT !.makes = {object}]

Sure(call) == [call EXCEPT !.fails = {}]
Free(objects) == [Sure(Do("free", {})) EXCEPT !.frees = objects]
Show(objects) == [Sure(Do("print", {})) EXCEPT !.shows = objects]

\* The checks: handleErrors after "<= 0" or "== 0" and "!= 1"; CHK_NULL and "!";
\* CHK_ERR and CHK_SSL.
Checked(call) == [call EXCEPT !.caught = {"zero", "negative"}]
CheckNull(call) == [call EXCEPT !.caught = {"zero"}]
CheckMinusOne(call) == [call EXCEPT !.caught = {"negative"}]
OrSkip(call, n) == [CheckNull(call) EXCEPT !.skip = n]
-----------------------------------------------------------------------------
(* rsatt and ttatt *)

GenKeyPair == <<
  Make("EVP_PKEY_CTX_new_id", {}, "ctx"),
  Checked(Do("EVP_PKEY_keygen_init", {"ctx"})),
  Checked(Do("EVP_PKEY_CTX_set_rsa_keygen_bits", {"ctx"})),
  Checked(Fill("EVP_PKEY_keygen", {"ctx"}, "key")),
  Free({"ctx"}) >>

\* A negative BIO_pending is a vector of impossible length, which throws.
GetPemPKey == <<
  Make("BIO_new", {}, "pub"),
  Fill("PEM_write_bio_PUBKEY", {"pub", "key"}, "text"),
  CheckMinusOne(Sure(Do("BIO_pending", {"pub"}))),
  Sure(Fill("BIO_read", {"pub", "text"}, "pem")),
  Free({"pub"}) >>

\* What both rsaenc do once they have a key: the buffer has the length that the
\* first EVP_PKEY_encrypt tells.
Encrypt == <<
  Checked(Make("EVP_PKEY_CTX_new", {"pkey"}, "ctx")),
  Checked(Do("EVP_PKEY_encrypt_init", {"ctx"})),
  Checked(Do("EVP_PKEY_CTX_set_rsa_padding", {"ctx"})),
  Checked(Do("EVP_PKEY_encrypt, length", {"ctx"})),
  Checked(Fill("EVP_PKEY_encrypt", {"ctx"}, "ctext")) >>

PemToKey == <<
  Make("BIO_new", {}, "pub"),
  Fill("BIO_write", {"pub", "pem"}, "text"),
  Checked(Make("PEM_read_bio_PUBKEY", {"pub", "text"}, "pkey")) >>

\* Mutant: key and context are forgotten; rsaenc with DER makes both anew.
RsaEncPem_KeepsKey == PemToKey \o Encrypt \o <<Free({"pub"})>>

RsaEncPem == PemToKey \o Encrypt \o <<Free({"pub", "ctx", "pkey"})>>

RsaEncDer ==
  <<Checked(Make("d2i_PublicKey", {"dkey"}, "pkey"))>> \o Encrypt \o <<Free({"ctx", "pkey"})>>

\* The buffer has the length of the key, which the first EVP_PKEY_decrypt tells,
\* and keeps it: the text is followed by zeros.
Decrypt == <<
  Checked(Make("EVP_PKEY_CTX_new", {"key"}, "ctx")),
  Checked(Do("EVP_PKEY_decrypt_init", {"ctx"})),
  Checked(Do("EVP_PKEY_CTX_set_rsa_padding", {"ctx"})),
  Checked(Do("EVP_PKEY_decrypt, length", {"ctx", "ctext"})),
  Checked([Fill("EVP_PKEY_decrypt", {"ctx", "ctext"}, "ptext") EXCEPT !.as = "padded"]) >>

\* Mutant: the line "EVP_PKEY_free(key)" is not commented out.
RsaDec_FreesKey == Decrypt \o <<Free({"ctx", "key"})>>

RsaDec == Decrypt \o <<Free({"ctx"})>>

\* Here, too, a negative length throws.
GetDerKey == <<
  CheckMinusOne(Fill("i2d_PublicKey, length", {"key"}, "room")),
  Fill("i2d_PublicKey", {"key", "room"}, "dkey") >>

Ttatt ==
  GenKeyPair \o GetPemPKey \o <<Show({"pem"})>>
    \o RsaEncPem \o <<Show({"ctext"})>> \o RsaDec \o <<Show({"ptext"})>>
    \o GetDerKey \o <<Show({"dkey"})>>
    \o RsaEncDer \o <<Show({"ctext"})>> \o RsaDec \o <<Show({"ptext"})>>
    \o <<Free({"key"})>>

\* rsatt ends with one more encryption.  It announces a test of the foreign key
\* pubk, but encrypts with dkey: pubk is not used.
Rsatt == Ttatt \o RsaEncDer \o <<Show({"ctext"})>>
-----------------------------------------------------------------------------
(* rsasign *)

\* bne is freed only if there is no key to return.
RsaGenKey == <<
  Make("BN_new", {}, "bne"),
  Checked([Do("BN_set_word", {"bne"}) EXCEPT !.unfit = {"crash"}]),
  Make("RSA_new", {}, "rsa"),
  Checked([Do("RSA_generate_key_ex", {"rsa", "bne"}) EXCEPT !.unfit = {"crash"}]) >>

\* Its result is not looked at; the buffer sign was filled with zeros.
RsaSignSha1 == <<
  OrSkip(Make("SHA1", {}, "hash"), 1),
  Fill("RSA_sign", {"hash", "rsa"}, "sign") >>

\* The early returns of RSA_verify_sha1 say early.
Verification(early) == <<
  [Sure(Make("ret", {}, "verdict")) EXCEPT !.as = early],
  OrSkip(Make("BN_CTX_new", {}, "c"), 4),
  OrSkip(Make("SHA1", {}, "hash"), 2),
  OrSkip(Do("RSA_blinding_on", {"rsa", "c"}), 1),
  Fill("RSA_verify", {"hash", "sign", "rsa"}, "verdict"),
  Free({"c"}) >>

\* Mutant: the early returns say 1.
RsaVerifySha1_EarlyOne == Verification("ok")

RsaVerifySha1 == Verification("bad")

RsaSign ==
  RsaGenKey
    \o << Make("malloc", {}, "buffer"),
          [Sure(Fill("memset", {"buffer"}, "sign")) EXCEPT !.as = "bad", !.unfit = {"crash"}] >>
    \o RsaSignSha1 \o RsaVerifySha1 \o <<Show({"verdict"})>>
-----------------------------------------------------------------------------
(* osslcli *)

\* The sockets.  The two calls after SSL_new are not looked at, and SSL_connect
\* is checked for 0 although it fails with -1, too.
TlsConnect == <<
  CheckNull(Make("SSL_CTX_new", {}, "ctx")),
  CheckNull(Do("SSL_CTX_load_verify_locations", {"ctx"})),
  CheckMinusOne([Fill("socket", {}, "sd") EXCEPT !.fails = {"negative"}]),
  CheckMinusOne([Fill("connect", {"sd"}, "peer") EXCEPT !.fails = {"negative"}]),
  CheckNull(Make("SSL_new", {"ctx"}, "ssl")),
  Do("SSL_set_tlsext_host_name", {"ssl"}),
  Make("SSL_set_fd", {"ssl", "peer"}, "wire"),
  CheckNull([Fill("SSL_connect", {"ssl", "wire"}, "session")
               EXCEPT !.unfit = {"negative"}]) >>

\* The certificate may be there although the handshake failed after it.
ShowCertificate == <<
  CheckNull(Make("SSL_get_peer_certificate", {"ssl", "wire"}, "cert")),
  CheckNull(Make("X509_NAME_oneline", {"cert"}, "str")), Show({"str"}), Free({"str"}),
  CheckNull(Make("X509_NAME_oneline", {"cert"}, "str")), Show({"str"}), Free({"str"}),
  Free({"cert"}) >>

\* Mutant: SSL_write and SSL_read are checked like pointers, too.
Ask_AsPointers == <<
  CheckNull([Fill("SSL_write", {"session"}, "sent") EXCEPT !.unfit = {"negative"}]),
  CheckNull([Fill("SSL_read", {"session"}, "answer") EXCEPT !.unfit = {"negative"}]),
  Show({"answer"}) >>

\* On a session that does not stand both fail with -1.  0, of a connection the
\* server has closed, is not caught: "Got 0 chars".
Ask == <<
  CheckMinusOne([Fill("SSL_write", {"session"}, "sent") EXCEPT !.unfit = {"negative"}]),
  CheckMinusOne([Fill("SSL_read", {"session"}, "answer") EXCEPT !.unfit = {"negative"}]),
  Show({"answer"}) >>

\* Without an address main returns at once.  std::stoi of a port that is no
\* number throws.
TlsClient ==
  LET talk == <<Checked(Do("stoi", {}))>> \o TlsConnect \o ShowCertificate \o Ask
                \o <<Free({"sd", "ssl", "ctx"})>> IN
    <<OrSkip([Do("argc", {}) EXCEPT !.fails = {"zero"}], Len(talk))>> \o talk
-----------------------------------------------------------------------------
Script ==
  [rsatt |-> Rsatt, ttatt |-> Ttatt, rsasign |-> RsaSign, osslcli |-> TlsClient]

\* What must be given back; the rest are buffers of the program's own.
Heap == {"ctx", "key", "pub", "pkey", "bne", "rsa", "c", "sd", "ssl", "cert", "str", "buffer"}
Name == Heap \cup {"text", "pem", "ctext", "ptext", "room", "dkey", "hash", "sign",
                   "verdict", "peer", "wire", "session", "sent", "answer"}

Current == Script[program][pc]
Right == {"ok", "padded"}
Fit == \A o \in Current.needs : value[o] \in Right

Init ==
  /\ program \in Program
  /\ pc = 1
  /\ value = [o \in Name |-> "none"]
  /\ printed = <<>>
  /\ status = "running"
  /\ lost = {}

Becomes(v) ==
  /\ value' = [o \in Name |-> IF o \in Current.makes THEN v
                              ELSE IF o \in Current.frees THEN "freed" ELSE value[o]]
  /\ lost' = lost \cup {o \in Current.makes \cap Heap : value[o] = "ok"}

\* Mutant: main goes on after its last call.
Continue_NoReturn(p) == pc' = p /\ UNCHANGED status

\* To the call at position p, or to the end of main.
Continue(p) ==
  /\ pc' = p
  /\ status' = IF p > Len(Script[program]) THEN "returned" ELSE "running"

\* The call does what it should.
Work ==
  /\ status = "running" /\ Fit
  /\ Becomes(Current.as)
  /\ printed' = printed \o (IF Current.shows = {} THEN <<>>
                            ELSE <<[o \in Current.shows |-> value[o]]>>)
  /\ Continue(pc + 1)
  /\ UNCHANGED program

\* It fails with the result r.
Fail(r) ==
  /\ status = "running"
  /\ r \in IF Fit THEN Current.fails ELSE Current.unfit
  /\ \/ /\ r = "crash" \/ (r \in Current.caught /\ Current.skip = 0)
        /\ status' = IF r = "crash" THEN "crashed" ELSE "gave up"
        /\ UNCHANGED <<pc, value, lost>>
     \/ /\ r # "crash" /\ ~(r \in Current.caught /\ Current.skip = 0)
        /\ Becomes("bad")
        /\ Continue(pc + 1 + IF r \in Current.caught THEN Current.skip ELSE 0)
  /\ UNCHANGED <<program, printed>>

Next == Work \/ \E r \in {"zero", "negative", "crash"} : Fail(r)

Spec == Init /\ [][Next]_vars
-----------------------------------------------------------------------------
\* Type invariant.
TypeOK ==
  /\ program \in Program
  /\ pc \in 1..Len(Script[program]) + 1
  /\ value \in [Name -> {"none", "ok", "padded", "bad", "freed"}]
  /\ status \in {"running", "returned", "gave up", "crashed"}
  /\ lost \subseteq Heap
  /\ status = "returned" <=> pc > Len(Script[program])

Shown(o) == {printed[i][o] : i \in {j \in DOMAIN printed : o \in DOMAIN printed[j]}}

\* Whatever slips through a check is caught by a later one: if rsatt or ttatt
\* returns, every key, ciphertext and text it has printed was right; and if
\* osslcli returns, it has printed nothing of a certificate or an answer (it got
\* no address), or both names of the certificate and what came over a session.
HonestOutput ==
  status = "returned" =>
    /\ program \in {"rsatt", "ttatt"} =>
         \A o \in {"pem", "ctext", "ptext", "dkey"} : Shown(o) \subseteq Right
    /\ program = "osslcli" /\ printed # <<>> =>
         Shown("str") = {"ok"} /\ value["session"] = "ok"

\* rsasign says "OK. Verified." only of a signature that was made: when RSA_sign
\* fails unseen, the zeros in its buffer do not verify.
OkMeansSigned == "ok" \in Shown("verdict") => value["sign"] = "ok"

\* No call is given, prints or frees what has been freed before, nor a variable
\* that no call has set yet: also where a check skips some calls.  (The null that
\* a failed call leaves behind is set, and is passed on: HonestOutput and the
\* status "crashed" say what comes of that.)
NoStaleUse ==
  status = "running" =>
    \A o \in Current.needs \cup Current.frees \cup Current.shows :
      value[o] \notin {"none", "freed"}

\* A program that returns has given back whatever it had, also what a variable
\* held before it was set again; only rsasign keeps its key, its buffer and the
\* exponent bne.
NothingLeft ==
  status = "returned" =>
    /\ lost = {}
    /\ \A o \in Heap : value[o] = "ok" =>
         program = "rsasign" /\ o \in {"rsa", "bne", "buffer"}
=============================================================================
