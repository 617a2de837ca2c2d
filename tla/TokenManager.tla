---------------------------- MODULE TokenManager ----------------------------
(***************************************************************************)
(* Tokens for Observatorium: the credentials of an observatorium, when its *)
(* token has to be renewed, and what a renewal stores.                     *)
(*                                                                         *)
(* Time is counted in ticks.  A token secret is NoToken or a record:       *)
(*   empty  is the token the empty string?                                 *)
(*   left   the ticks until Observatorium no longer accepts the token      *)
(*   dated  is the stored lifetime the time at which that happens (else 0)?*)
(* `creds` gives for the name of a secret what it holds: {} if it does not *)
(* exist, or a record of the auth type, is the gateway given, and what it  *)
(* gives for sso: does the url parse, and the clients with credentials.    *)
(***************************************************************************)
EXTENDS ConfigurationIndex

CONSTANTS
    Lifetime,   \* of a new token
    Margin      \* "Refresh the token a little bit in advance"

ASSUME TimesAssumption == Lifetime \in Nat /\ Margin \in 1 .. Lifetime

NoToken    == [empty |-> TRUE, left |-> -1, dated |-> FALSE]
EmptyToken == [empty |-> TRUE, left |-> 0, dated |-> FALSE]
NewToken   == [empty |-> FALSE, left |-> Lifetime, dated |-> TRUE]
\* What an answer with neither id_token nor expires_in gives.
BlankToken == [empty |-> TRUE, left |-> 0, dated |-> TRUE]

Tokens == {NoToken, EmptyToken, BlankToken}
          \cup [empty : {FALSE}, left : 0 .. Lifetime, dated : BOOLEAN]

\* A lifetime of 0 never expires.
AuthTokenExpires(token) == token.dated /\ token.left < Margin

TokensExpired(held) ==
    \E o \in DOMAIN held : held[o] # NoToken /\ AuthTokenExpires(held[o])

\* A dex configuration from the repository sends assignFromSecret into itself.
Diverges(creds, o) ==
    /\ o.secret # None /\ o.dex # None
    /\ \E c \in creds[o.secret] :
           (IF o.auth = None THEN c.auth ELSE o.auth) = Dex

\* The observatorium with the fields its secret adds; {} is an error.
assignFromSecret(creds, o) ==
    LET Assigned(c) ==
            LET auth == IF o.auth = None THEN c.auth ELSE o.auth
                a    == [o EXCEPT !.auth = auth, !.gateway = @ \/ c.gateway]
            IN  CASE auth = Dex    -> {[a EXCEPT !.dex = "inline"]}
                  [] auth = Redhat -> {[a EXCEPT !.sso = {c.sso}]}
                  [] OTHER         -> {}
    IN  IF o.secret = None THEN {o}
        ELSE UNION {Assigned(c) : c \in creds[o.secret]}

\* An old way to give the dex credentials, as a secret of their own.
credentialSecret(creds, o) ==
    o.auth = Dex /\ o.dex = "secret" => creds["dex"] # {}

\* What ReconcileObservatoria makes of one observatorium; {} is an error.
transform(creds, o) ==
    {a \in assignFromSecret(creds, o) : credentialSecret(creds, a)}

\* No token yet, or one to renew in advance?
needsToken(token, o) ==
    o.auth # Redhat /\ (token.empty \/ AuthTokenExpires(token))

\* Without dex configuration the old token is kept, with lifetime 0; other
\* auth types have no token at all.  The answer of dex is not looked into.
Fetch(token, o, blank) ==
    CASE o.auth # Dex  -> EmptyToken
      [] o.dex = None  -> IF token.empty THEN EmptyToken
                          ELSE [token EXCEPT !.dated = FALSE]
      [] OTHER         -> IF blank THEN BlankToken ELSE NewToken

\* Mutant: what a failed request returned is stored.
renewed_StoresFailure(held, observatoria, failed, blank) ==
    [id \in DOMAIN held |->
        LET asks == {o \in observatoria : o.id = id /\ needsToken(held[id], o)}
        IN  IF asks = {} THEN held[id]
            ELSE IF id \in failed THEN EmptyToken
            ELSE Fetch(held[id], CHOOSE o \in asks : TRUE, id \in blank)]

\* The token secrets after one pass over these observatoria, if the requests
\* for (or the writes of) the tokens in `failed` fail and those in `blank` are
\* answered without a token.
renewed(held, observatoria, failed, blank) ==
    [id \in DOMAIN held |->
        LET asks == {o \in observatoria : o.id = id /\ needsToken(held[id], o)}
        IN  IF asks = {} \/ id \in failed THEN held[id]
            ELSE Fetch(held[id], CHOOSE o \in asks : TRUE, id \in blank)]

\* One tick later.
older(token) == IF token.left > 0 THEN [token EXCEPT !.left = @ - 1] ELSE token
=============================================================================
