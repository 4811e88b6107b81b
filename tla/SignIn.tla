------------------------------- MODULE SignIn -------------------------------
(***************************************************************************)
(* Signing in (crates/neko/src/login.rs, dist.rs): the session file next   *)
(* to config.json, the `neko login` that replaces it and the reads of it   *)
(* that every command with a tunnel makes.  The identity provider decides  *)
(* what it grants and accepts.                                             *)
(*                                                                         *)
(* A component of Session, which says when its commands read the file.     *)
(***************************************************************************)
EXTENDS Naturals

CONSTANTS
  Issuer,   \* auth bases a binary may be pointed at
  Home,     \* AUTH, the one built in
  Token,    \* session tokens
  IssuerOf, \* who issued each
  None      \* null

ASSUME HomeAssumption == Home \in Issuer
ASSUME TokenAssumption == IssuerOf \in [Token -> Issuer]
ASSUME NoneAssumption == None \notin Token /\ None \notin Issuer

VARIABLES
  file,  \* the session file: missing, empty, a bare token of an old release, or a record
  login, \* the token granted to a `neko login` that has yet to store it
  sent   \* history: the session token sent last, and to whom

signInVars == <<file, login, sent>>

\* fs::write truncates before it writes.
Empty == [auth |-> None, token |-> None]
Bare == [auth : {None}, token : Token]
Recorded == [auth : Issuer, token : Token]

SignInTypes ==
  /\ file \in {None, Empty} \cup Bare \cup Recorded
  /\ login \in Token \cup {None}
  /\ sent \in {None} \cup (Token \X Issuer)

\* Old releases knew the built-in issuer only.
SignInInit ==
  /\ file \in {None} \cup {f \in Bare : IssuerOf[f.token] = Home}
  /\ login = None
  /\ sent = None

-----------------------------------------------------------------------------
(* neko login                                                              *)

\* The device grant: the code is asked for, shown and polled for, and the
\* token endpoint answers with a token in the end.  A refusal, an expired code
\* or a failed request ends the command and changes nothing.
Granted(t) ==
  /\ login = None
  /\ login' = t
  /\ UNCHANGED <<file, sent>>

\* store_token: the file is emptied, then written with the issuer of the token.
Truncate ==
  /\ login # None
  /\ file' = Empty
  /\ UNCHANGED <<login, sent>>

Stored ==
  /\ login # None /\ file = Empty
  /\ file' = [auth |-> IssuerOf[login], token |-> login]
  /\ login' = None
  /\ UNCHANGED sent

\* External: the command is killed, or the disk fails it.
LoginStops ==
  /\ login # None /\ login' = None
  /\ UNCHANGED <<file, sent>>

LoginStep == (\E t \in Token : Granted(t)) \/ Truncate \/ Stored \/ LoginStops

-----------------------------------------------------------------------------
(* The reads.                                                              *)

\* Mutant: a bare token is taken for one of whoever is asked.
IssuedByAnyone(base) == IF file.auth = None THEN base ELSE file.auth

\* A session without an issuer is from the built-in endpoint.
IssuedBy(base) == IF file.auth = None THEN Home ELSE file.auth

\* load_session_token: the file is there and its session is from this endpoint.
Loads(base) == file # None /\ IssuedBy(base) = base

\* A call of the console API with the stored session as its bearer; an empty
\* file gives an empty one.
Bearer(base) ==
  /\ Loads(base)
  /\ sent' = IF file.token = None THEN sent ELSE <<file.token, base>>
  /\ UNCHANGED <<file, login>>

\* The answer is a success only if a token was sent.
Accepted == file.token # None

-----------------------------------------------------------------------------
\* A session token is sent to nobody but who issued it, whatever binaries with
\* whatever endpoints signed in before, and whenever they die.
TokenStaysHome == sent # None => IssuerOf[sent[1]] = sent[2]

\* What makes it inductive: what the file says of its token is true.
FileTells ==
  file # None /\ file.token # None =>
    IssuerOf[file.token] = (IF file.auth = None THEN Home ELSE file.auth)

SignInInv == TokenStaysHome /\ FileTells
=============================================================================
