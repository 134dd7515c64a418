------------------------------ MODULE LocalCa ------------------------------
(***************************************************************************)
(* The local CA and the certificates it signs (services tls.rs), and how a *)
(* domain gets HTTPS: the Desktop or the CLI asks the Agent for a CA, has   *)
(* it trusted, and then asks for HTTPS (SetSiteHttps, or a Proxy with       *)
(* HTTPS).  SetSiteHttps and the start of the services run one at a time,  *)
(* EnsureLocalCa runs beside them.                                         *)
(*                                                                         *)
(* A CA is its number; a file holds the number it was made for, or 0.      *)
(***************************************************************************)
EXTENDS Naturals, Sequences

CONSTANTS
  Domains,
  Callers,     \* requests that may be under way together
  None,
  MaxCas, MaxRuns, MaxFaults   \* bounds

VARIABLES
  ca,          \* ca.crt, ca.key and ca.sha256
  certs,       \* per domain: who signed its .crt, and whether it has its .key
  callers,     \* how far each request is, and the file operations it has left
  lock,        \* the request that holds lifecycle_operations
  trusted,     \* the CAs in the user's trust store
  secured,     \* domains that the Desktop or the CLI reported as secured
  raced,       \* history: a CA was being made while another request used it
  lost,        \* history: a file of the CA was lost since the user trusted one
  made,        \* CAs made
  runs, faults

vars == <<ca, certs, callers, lock, trusted, secured, raced, lost, made, runs, faults>>

Files == {"crt", "key", "sha256"}
NoCert == [crt |-> 0, key |-> FALSE]
Idle == [step |-> "idle", domain |-> None, new |-> 0, todo |-> <<>>]

Init ==
  /\ ca = [f \in Files |-> 0] /\ certs = [d \in Domains |-> NoCert]
  /\ callers = [c \in Callers |-> Idle] /\ lock = None
  /\ trusted = {} /\ secured = {}
  /\ raced = FALSE /\ lost = FALSE
  /\ made = 0 /\ runs = 0 /\ faults = 0

Complete == \A f \in Files : ca[f] # 0
Whole(d) == certs[d].crt # 0 /\ certs[d].key
Working(c) == callers[c].todo # <<>>

-----------------------------------------------------------------------------
(* File operations, in the order the code does them.                       *)

Op(what, file) == [what |-> what, file |-> file]

KeepCerts == <<Op("remove", "crt"), Op("remove", "key"), Op("remove", "sha256"),
               Op("write", "crt"), Op("write", "key"), Op("write", "sha256")>>

\* ensure_local_ca: nothing signed by an incomplete CA survives it.
NewCa == <<Op("remove", "crt"), Op("remove", "key"), Op("remove", "sha256"),
           Op("clear", "certs"),
           Op("write", "crt"), Op("write", "key"), Op("write", "sha256")>>

\* ensure_domain_certificate
NewCert(d) ==
  IF Whole(d) THEN <<>>
  ELSE <<Op("unsign", "crt"), Op("unsign", "key"), Op("sign", "crt"), Op("sign", "key")>>

Regenerates(c) == \E i \in DOMAIN callers[c].todo : callers[c].todo[i].what = "write"

\* What c does next meets a CA that is being made, or makes one under another.
Races(c) == \E o \in Callers \ {c} : Working(o) /\ (Regenerates(o) \/ ~Complete)

Go(c, step, todo) == callers' = [callers EXCEPT ![c].step = step, ![c].todo = todo]

End(c) ==
  /\ callers' = [callers EXCEPT ![c] = Idle]
  /\ lock' = IF lock = c THEN None ELSE lock

-----------------------------------------------------------------------------
(* Requests.                                                               *)

Run == runs < MaxRuns /\ runs' = runs + 1

\* The first request of Secure, or of a Proxy with HTTPS.
EnsureLocalCa(c, d) ==
  /\ callers[c] = Idle /\ Run
  /\ callers' = [callers EXCEPT ![c] = [Idle EXCEPT !.step = "ca", !.domain = d]]
  /\ UNCHANGED <<ca, certs, lock, trusted, secured, raced, lost, made, faults>>

\* The services start: the certificate of a secured domain is made if need be.
Serve(c, d) ==
  /\ callers[c] = Idle /\ lock = None /\ d \in secured /\ Run
  /\ callers' = [callers EXCEPT ![c] = [Idle EXCEPT !.step = "serve", !.domain = d]]
  /\ lock' = c
  /\ UNCHANGED <<ca, certs, trusted, secured, raced, lost, made, faults>>

\* Both files of an unsecured domain go, the certificate first.
Unsecure(c, d) ==
  /\ callers[c] = Idle /\ lock = None /\ d \in secured /\ Run
  /\ secured' = secured \ {d}
  /\ callers' = [callers EXCEPT ![c] = [Idle EXCEPT !.step = "unsecure", !.domain = d,
                   !.todo = <<Op("unsign", "crt"), Op("unsign", "key")>>]]
  /\ lock' = c
  /\ raced' = (raced \/ Races(c))
  /\ UNCHANGED <<ca, certs, trusted, lost, made, faults>>

\* ensure_local_ca looks at the three files.
Check(c) ==
  /\ ~Working(c) /\ callers[c].step \in {"ca", "https", "serve"}
  /\ IF Complete
     THEN /\ IF callers[c].step = "ca" THEN Go(c, "trust", <<>>)
             ELSE Go(c, "files", NewCert(callers[c].domain))
          /\ made' = made
     ELSE /\ made < MaxCas /\ made' = made + 1
          /\ callers' = [callers EXCEPT ![c].todo = NewCa, ![c].new = made + 1]
  /\ raced' = (raced \/ Races(c))
  /\ UNCHANGED <<ca, certs, lock, trusted, secured, lost, runs, faults>>

\* The next file operation; the key to sign with is read as it is then.
Step(c) ==
  /\ Working(c)
  /\ LET op == Head(callers[c].todo)  d == callers[c].domain
     IN /\ op = Op("sign", "crt") => ca.key # 0
        /\ ca' = CASE op.what = "remove" -> [ca EXCEPT ![op.file] = 0]
                   [] op.what = "write" -> [ca EXCEPT ![op.file] = callers[c].new]
                   [] OTHER -> ca
        /\ certs' = CASE op.what = "clear" -> [e \in Domains |-> NoCert]
                      [] op = Op("unsign", "crt") -> [certs EXCEPT ![d].crt = 0]
                      [] op = Op("unsign", "key") -> [certs EXCEPT ![d].key = FALSE]
                      [] op = Op("sign", "crt") -> [certs EXCEPT ![d].crt = ca.key]
                      [] op = Op("sign", "key") -> [certs EXCEPT ![d].key = TRUE]
                      [] OTHER -> certs
  /\ callers' = [callers EXCEPT ![c].todo = Tail(@)]
  /\ UNCHANGED <<lock, trusted, secured, raced, lost, made, runs, faults>>

\* Trust by the certificate itself, not by its name.
AddTrusted == trusted' = trusted \cup {ca.crt}

\* trust_local_ca: of the file at the managed path, as it is now.
Trust(c) ==
  /\ callers[c].step = "trust" /\ ca.crt # 0
  /\ AddTrusted
  /\ lost' = (lost /\ ~Complete)
  /\ Go(c, "ask", <<>>)
  /\ UNCHANGED <<ca, certs, lock, secured, raced, made, runs, faults>>

SetSiteHttps(c) ==
  /\ callers[c].step = "ask" /\ lock = None
  /\ lock' = c
  /\ Go(c, "https", <<>>)
  /\ UNCHANGED <<ca, certs, trusted, secured, raced, lost, made, runs, faults>>

\* The last file is written: the answer is good.
Finish(c) ==
  /\ ~Working(c) /\ callers[c].step \in {"files", "unsecure"}
  /\ secured' = IF callers[c].step = "files" THEN secured \cup {callers[c].domain} ELSE secured
  /\ End(c)
  /\ UNCHANGED <<ca, certs, trusted, raced, lost, made, runs, faults>>

-----------------------------------------------------------------------------
(* Faults.                                                                 *)

Fault == faults < MaxFaults /\ faults' = faults + 1

\* The user refuses, a file operation fails, or there is nothing to trust or to
\* sign with: this request ends where it is.
Fail(c) ==
  /\ callers[c].step # "idle"
  /\ \/ Fault
     \/ /\ callers[c].step = "trust" /\ ca.crt = 0 /\ faults' = faults
     \/ /\ Working(c) /\ ca.key = 0 /\ faults' = faults
        /\ Head(callers[c].todo) = Op("sign", "crt")
  /\ End(c)
  /\ UNCHANGED <<ca, certs, trusted, secured, raced, lost, made, runs>>

\* The Agent dies: what it was doing stays as it is; what the Desktop or the
\* CLI was doing goes on.
Crash ==
  /\ Fault
  /\ callers' = [c \in Callers |-> IF callers[c].step \in {"trust", "ask"} THEN callers[c]
                                   ELSE Idle]
  /\ lock' = None
  /\ UNCHANGED <<ca, certs, trusted, secured, raced, lost, made, runs>>

\* A file of the CA, or of a domain, is lost between two requests.
Lose(f) ==
  /\ Fault /\ \A c \in Callers : ~Working(c)
  /\ ca[f] # 0
  /\ ca' = [ca EXCEPT ![f] = 0]
  /\ lost' = TRUE
  /\ UNCHANGED <<certs, callers, lock, trusted, secured, raced, made, runs>>

LoseKey(d) ==
  /\ Fault /\ \A c \in Callers : ~Working(c)
  /\ certs[d].key
  /\ certs' = [certs EXCEPT ![d].key = FALSE]
  /\ UNCHANGED <<ca, callers, lock, trusted, secured, raced, lost, made, runs>>

Done ==
  /\ \/ runs = MaxRuns /\ \A c \in Callers : callers[c] = Idle
     \/ made = MaxCas /\ ~Complete
  /\ UNCHANGED vars

Next ==
  \/ \E c \in Callers :
       \/ \E d \in Domains : EnsureLocalCa(c, d) \/ Serve(c, d) \/ Unsecure(c, d)
       \/ Check(c) \/ Step(c) \/ Trust(c) \/ SetSiteHttps(c) \/ Finish(c) \/ Fail(c)
  \/ \E f \in Files : Lose(f)
  \/ \E d \in Domains : LoseKey(d)
  \/ Crash \/ Done

Spec == Init /\ [][Next]_vars

-----------------------------------------------------------------------------
TypeOK ==
  /\ ca \in [Files -> 0..MaxCas]
  /\ certs \in [Domains -> [crt : 0..MaxCas, key : BOOLEAN]]
  /\ lock \in Callers \cup {None}
  /\ trusted \subseteq 1..MaxCas /\ secured \subseteq Domains

\* Whatever is lost and wherever a request stops, a CA that looks complete is
\* one CA, and every certificate that will be reused was signed by it: unless
\* two requests made or used an incomplete CA together, which nothing prevents.
CertificatesVerify ==
  ~raced /\ Complete =>
    /\ ca.crt = ca.key /\ ca.sha256 = ca.crt
    /\ \A d \in Domains : Whole(d) => certs[d].crt = ca.crt

\* The browser accepts a domain that was reported as secured: only a lost file
\* of the CA, which the next start replaces without asking, undoes that.
SecuredIsTrusted ==
  ~raced /\ ~lost => \A d \in secured : Whole(d) => certs[d].crt \in trusted

SecuredVerifies == CertificatesVerify /\ SecuredIsTrusted
=============================================================================
