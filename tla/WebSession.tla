----------------------------- MODULE WebSession -----------------------------
(***************************************************************************)
(* One browser of the frontend: the Freighter extension with its selected  *)
(* account, the WalletProvider's state, the session token in local storage *)
(* and connect() between them, await by await.  The extension and the API  *)
(* are external; a token is named by the account whose session it is.      *)
(***************************************************************************)
EXTENDS Naturals

CONSTANTS Keys,     \* accounts in the extension
          NoKey,    \* no account, no wallet, no token
          Blank,    \* the empty string, where a reply is not the string expected
          Idle      \* no connect() under way

\* None of these is an account's key, nor a login under way.
ASSUME SentinelsAssumption ==
    /\ NoKey \notin Keys /\ Blank \notin Keys /\ NoKey # Blank
    /\ \A w \in {"access", "challenge", "sign", "exchange"},
          k \in Keys \cup {NoKey, Blank}, b \in Keys \cup {NoKey} :
          Idle # [at |-> w, key |-> k, by |-> b]

VARIABLES active,      \* the account selected in the extension, NoKey while it is locked
          wallet,      \* useWallet().wallet, reduced to its public key
          auth_token,  \* localStorage.auth_token
          login,       \* the connect() under way: the await it is at, its key, who signed
          checking,    \* whether checkConnection() waits for the extension
          signers,     \* history: the accounts that signed a challenge here
          signedOut    \* history: disconnected, and no connect() started since

sessionPageVars ==
    <<active, wallet, auth_token, login, checking, signers, signedOut>>

Awaits == {"access", "challenge", "sign", "exchange"}

WebSessionTypeOK ==
    /\ active \in Keys \cup {NoKey}
    /\ wallet \in Keys \cup {NoKey, Blank}
    /\ auth_token \in Keys \cup {NoKey}
    /\ login \in {Idle} \cup [at : Awaits, key : Keys \cup {NoKey, Blank}, by : Keys \cup {NoKey}]
    /\ checking \in BOOLEAN /\ signedOut \in BOOLEAN
    /\ signers \subseteq Keys

\* A first visit: useState's initial values and an empty local storage; the
\* effect has called checkConnection, which the extension may not answer yet.
WebSessionInit ==
    /\ active \in Keys \cup {NoKey}
    /\ wallet = NoKey /\ auth_token = NoKey /\ login = Idle
    /\ checking = TRUE /\ signers = {} /\ signedOut = FALSE

-----------------------------------------------------------------------------
(* The extension, outside the page. *)

select_account ==
    /\ active' \in (Keys \cup {NoKey}) \ {active}
    /\ UNCHANGED <<wallet, auth_token, login, checking, signers, signedOut>>

\* getAddress answers: getPublicKey reads the address from a string or from an
\* object, and checkConnection ignores an empty one.
checkConnection ==
    /\ checking
    /\ checking' = FALSE
    /\ wallet' = IF active = NoKey THEN wallet ELSE active
    /\ UNCHANGED <<active, auth_token, login, signers, signedOut>>

\* Loading the page again drops what is under way and keeps local storage.
reload ==
    /\ wallet' = NoKey /\ login' = Idle /\ checking' = TRUE
    /\ UNCHANGED <<active, auth_token, signers, signedOut>>

-----------------------------------------------------------------------------
(* connect(), and the buttons of the WalletConnector. *)

isConnecting == login # Idle

\* The connector shows one button: none while connecting, else the one to
\* disconnect or the one to connect.
shows_disconnect_AnyTime == wallet # NoKey
shows_disconnect == ~isConnecting /\ wallet # NoKey
shows_connect == ~isConnecting /\ wallet = NoKey

connect ==
    /\ shows_connect
    /\ login' = [at |-> "access", key |-> NoKey, by |-> NoKey]
    /\ signedOut' = FALSE
    /\ UNCHANGED <<active, wallet, auth_token, checking, signers>>

\* connectWallet: the reply is the key where it is a string, and the empty
\* string otherwise; the wallet is set before the login has begun.
connectWallet(reply) ==
    /\ isConnecting /\ login.at = "access" /\ active # NoKey
    /\ wallet' = reply
    /\ login' = [login EXCEPT !.at = "challenge", !.key = reply]
    /\ UNCHANGED <<active, auth_token, checking, signers, signedOut>>

\* POST /auth/challenge refuses a wallet that is no public key.
requestAuthChallenge ==
    /\ isConnecting /\ login.at = "challenge" /\ login.key # Blank
    /\ login' = [login EXCEPT !.at = "sign"]
    /\ UNCHANGED <<active, wallet, auth_token, checking, signers, signedOut>>

\* The account selected by now signs the challenge.
signTransaction ==
    /\ isConnecting /\ login.at = "sign" /\ active # NoKey
    /\ login' = [login EXCEPT !.at = "exchange", !.by = active]
    /\ signers' = signers \cup {active}
    /\ UNCHANGED <<active, wallet, auth_token, checking, signedOut>>

\* What POST /auth/token answers with: a session of the challenged wallet where
\* that wallet signed.
token_granted(key, by) == by = key

submitAuthChallenge ==
    /\ isConnecting /\ login.at = "exchange" /\ token_granted(login.key, login.by)
    /\ auth_token' = login.key
    /\ login' = Idle
    /\ UNCHANGED <<active, wallet, checking, signers, signedOut>>

\* Any await of connect() may throw: the user declines, the API refuses or does
\* not answer. The wallet that was set stays set, the token is left alone.
connect_throws ==
    /\ isConnecting
    /\ login' = Idle
    /\ UNCHANGED <<active, wallet, auth_token, checking, signers, signedOut>>

disconnect ==
    /\ shows_disconnect
    /\ wallet' = NoKey /\ auth_token' = NoKey
    /\ signedOut' = TRUE
    /\ UNCHANGED <<active, login, checking, signers>>

SessionStep ==
    \/ select_account \/ checkConnection
    \/ connect \/ \E reply \in {active, Blank} : connectWallet(reply)
    \/ requestAuthChallenge \/ signTransaction \/ submitAuthChallenge
    \/ connect_throws \/ disconnect

WebSessionNext == SessionStep \/ reload

WebSessionSpec == WebSessionInit /\ [][WebSessionNext]_sessionPageVars

-----------------------------------------------------------------------------
\* A token in the browser belongs to an account that signed a challenge in it,
\* and none appears after the user disconnected unless connect is pressed again
\* (use-wallet.tsx connect, disconnect; wallet-connector hides the button).
TokenWasSigned ==
    auth_token # NoKey => auth_token \in signers /\ ~signedOut

=============================================================================
