--------------------------- MODULE SessionProofs ----------------------------
(***************************************************************************)
(* Theorems about Session, for every set of command lines, tokens, ports   *)
(* and askers: type correctness, that session tokens stay with their       *)
(* issuer, and that a session that ends well is saved.                     *)
(***************************************************************************)
EXTENDS Session, SequenceTheorems, TLAPS

(* Types.                                                                  *)

\* What the owner's queues and askers are.
OwnerTypes ==
  /\ asker \in [Asker -> Asks]
  /\ dials \in Seq(Dialer) /\ shells \in Seq(Shell)

\* Taking from a queue gives one of its members and leaves a queue.
LEMMA TakeType ==
  ASSUME NEW S, NEW q \in Seq(S), q # <<>>
  PROVE  Head(q) \in S /\ Tail(q) \in Seq(S)
BY HeadTailProperties

\* However the session ends, the owner's state is well typed.
LEMMA QuitTypes ==
  ASSUME OwnerTypes, NEW s \in Stages, Quit(s)
  PROVE  OwnerTypes' /\ stage' \in Stages
BY DEF OwnerTypes, Quit, Asks

\* The steps of sign-in keep the types.
LEMMA LoginTypes ==
  ASSUME SignInTypes, LoginStep
  PROVE  SignInTypes'
BY TokenAssumption DEF SignInTypes, LoginStep, Granted, Truncate, Stored, LoginStops,
                       Empty, Bare, Recorded

\* A read of the session file keeps the types.
LEMMA BearerTypes ==
  ASSUME SignInTypes, NEW to \in Issuer, Bearer(to)
  PROVE  SignInTypes'
<1>1. sent' \in {None} \cup (Token \X Issuer)
  <2>1. CASE file.token = None
    BY <2>1 DEF SignInTypes, Bearer
  <2>2. CASE file.token # None
    <3>1. file \in {Empty} \cup Bare \cup Recorded
      BY DEF Bearer, Loads, SignInTypes
    <3>2. file.token \in Token
      BY <2>2, <3>1 DEF Empty, Bare, Recorded
    <3> QED BY <2>2, <3>2 DEF Bearer
  <2> QED BY <2>1, <2>2
<1> QED BY <1>1 DEF SignInTypes, Bearer

LEMMA InitTypes == Init => TypeOK
<1> SUFFICES ASSUME Init PROVE TypeOK
  OBVIOUS
<1>1. SignInTypes
  BY DEF Init, SignInInit, SignInTypes
<1>2. dials \in Seq(Dialer) /\ shells \in Seq(Shell)
  BY DEF Init
<1> QED BY <1>1, <1>2 DEF Init, TypeOK, Stages, Starting, Asks

\* The steps of the way up keep the types.
LEMMA UpTypes ==
  ASSUME TypeOK, Up
  PROVE  TypeOK'
<1> USE DEF TypeOK, Still, Untouched, Goto, signInVars, disk, owner, SignInTypes
<1>s. Starting \cup {"serve", "failed", "ended", "killed"} \cup Saving \subseteq Stages
  BY DEF Stages, Over
<1>o. OwnerTypes
  BY DEF OwnerTypes
<1>1. ASSUME NEW s \in Stages, Goto(s), Still, UNCHANGED disk PROVE TypeOK'
  BY <1>1
<1>2. CASE CheckArgs \/ Prepare \/ Source \/ Boot \/ Serve
  BY <1>2, <1>s DEF CheckArgs, Prepare, Source, Boot, Serve, Starting
<1>3. CASE Launch
  BY <1>3, <1>s DEF Launch, Starting
<1>4. CASE Fails
  BY <1>4, <1>s, <1>o, QuitTypes DEF Fails, OwnerTypes
<1>5. ASSUME NEW here, NEW next \in Stages, Credential(here, next) PROVE TypeOK'
  <2>1. SignInTypes'
    BY <1>5, BearerTypes DEF Credential
  <2>2. OwnerTypes' /\ stage' \in Stages
    BY <1>5, <1>s, <1>o, QuitTypes DEF Credential, OwnerTypes
  <2> QED BY <1>5, <2>1, <2>2 DEF Credential, OwnerTypes
<1>6. ASSUME NEW p \in Port, Bind(p) PROVE TypeOK'
  BY <1>6 DEF Bind
<1> QED BY <1>2, <1>3, <1>4, <1>5, <1>6, <1>s DEF Up, Starting

\* The steps of the owner and its askers keep the types.
LEMMA OwnsTypes ==
  ASSUME TypeOK, Owns
  PROVE  TypeOK'
<1> USE DEF TypeOK, Still, Untouched, signInVars, disk, owner, SignInTypes, Asks
<1>1. ASSUME NEW j \in Dialer, DialForwarded(j) \/ DialTunneled(j) PROVE TypeOK'
  <2>1. Dial(j)
    BY <1>1 DEF DialForwarded, DialTunneled
  <2>2. dials' \in Seq(Dialer) /\ asker' \in [Asker -> Asks]
    BY <2>1, AppendProperties DEF Dial, Asker
  <2> QED BY <2>1, <2>2 DEF Dial
<1>2. ASSUME NEW j \in Shell, AskShell(j) PROVE TypeOK'
  BY <1>2, AppendProperties DEF AskShell, Asker
<1>3. CASE TakeDial
  BY <1>3, TakeType DEF TakeDial, Asker
<1>4. CASE TakeShell
  BY <1>4, TakeType DEF TakeShell, Asker
<1>5. ASSUME NEW j \in Asker, Answer(j) \/ StreamEnds(j) PROVE TypeOK'
  BY <1>5 DEF Answer, StreamEnds
<1>6. ASSUME NEW f \in File, Writes(f) PROVE TypeOK'
  BY <1>6 DEF Writes
<1>7. CASE CommandEnds
  BY <1>7 DEF CommandEnds
<1> QED BY <1>1, <1>2, <1>3, <1>4, <1>5, <1>6, <1>7 DEF Owns

\* The steps of the way down keep the types.
LEMMA EndsTypes ==
  ASSUME TypeOK, Ends
  PROVE  TypeOK'
<1> USE DEF TypeOK, Still, Untouched, signInVars, disk, owner, SignInTypes
<1>s. Saving \cup {"failed", "ended", "killed"} \subseteq Stages
  BY DEF Stages, Over
<1>o. OwnerTypes
  BY DEF OwnerTypes
<1>1. CASE Interrupt
  BY <1>1, <1>s, <1>o, QuitTypes DEF Interrupt, OwnerTypes
<1>2. CASE TunnelOpens
  BY <1>2 DEF TunnelOpens
<1>3. ASSUME Down PROVE TypeOK'
  BY <1>3, <1>s, <1>o, QuitTypes DEF Down, Goto, OwnerTypes, Saving
<1>4. CASE TunnelEnds \/ CommandDone \/ Interrupted
  BY <1>3, <1>4 DEF TunnelEnds, CommandDone, Interrupted
<1>5. CASE Sync \/ Snapshot \/ Record
  BY <1>5, <1>s DEF Sync, Snapshot, Record, Goto, Saving
<1>6. CASE SetHead \/ Killed
  BY <1>6, <1>s, <1>o, QuitTypes DEF SetHead, Killed, OwnerTypes
<1> QED BY <1>1, <1>2, <1>4, <1>5, <1>6 DEF Ends

\* Every state a session and a login beside it can reach is well typed.
THEOREM TypeCorrect == Spec => []TypeOK
<1>1. TypeOK /\ [Next]_vars => TypeOK'
  <2> SUFFICES ASSUME TypeOK, [Next]_vars PROVE TypeOK'
    OBVIOUS
  <2>1. CASE OtherLogin
    <3>1. SignInTypes'
      BY <2>1, LoginTypes DEF OtherLogin, TypeOK
    <3> QED BY <2>1, <3>1 DEF OtherLogin, TypeOK, sessionVars, owner, disk
  <2>2. CASE UNCHANGED vars
    BY <2>2 DEF vars, sessionVars, signInVars, TypeOK, SignInTypes, owner, disk
  <2> QED BY <2>1, <2>2, UpTypes, OwnsTypes, EndsTypes DEF Next
<1> QED BY <1>1, InitTypes, PTL DEF Spec

-----------------------------------------------------------------------------
(* Session tokens.                                                         *)

\* Signing in keeps what the file says true, killed or not.
LEMMA LoginKeepsHome ==
  ASSUME SignInTypes, SignInInv, LoginStep
  PROVE  SignInInv'
BY NoneAssumption, TokenAssumption
   DEF SignInTypes, SignInInv, TokenStaysHome, FileTells, LoginStep, Granted, Truncate,
       Stored, LoginStops, Empty

\* A read of the file sends its token to its issuer.
LEMMA BearerStaysHome ==
  ASSUME SignInInv, NEW to \in Issuer, Bearer(to)
  PROVE  SignInInv'
<1>1. file # None /\ file.token # None => IssuerOf[file.token] = to
  BY DEF Bearer, Loads, IssuedBy, SignInInv, FileTells
<1>2. TokenStaysHome'
  <2>1. CASE file.token = None
    BY <2>1 DEF Bearer, SignInInv, TokenStaysHome
  <2>2. CASE file.token # None
    BY <1>1, <2>2 DEF Bearer, Loads, TokenStaysHome
  <2> QED BY <2>1, <2>2
<1> QED BY <1>2 DEF SignInInv, FileTells, Bearer

\* No session token is sent to an endpoint that did not issue it.
THEOREM TokensStayHome == Spec => []TokenStaysHome
<1>1. Init => SignInInv
  BY NoneAssumption DEF Init, SignInInit, SignInInv, TokenStaysHome, FileTells, Bare
<1>2. TypeOK /\ SignInInv /\ [Next]_vars => SignInInv'
  <2> SUFFICES ASSUME TypeOK, SignInInv, [Next]_vars PROVE SignInInv'
    OBVIOUS
  <2>u. ASSUME UNCHANGED signInVars PROVE SignInInv'
    BY <2>u DEF signInVars, SignInInv, TokenStaysHome, FileTells
  <2>1. CASE OtherLogin
    BY <2>1, LoginKeepsHome DEF OtherLogin, TypeOK
  <2>2. CASE Up
    <3>1. ASSUME NEW here, NEW next, Credential(here, next) PROVE SignInInv'
      BY <3>1, BearerStaysHome DEF Credential, TypeOK
    <3>2. (\E p \in Port : Bind(p)) => UNCHANGED signInVars
      BY DEF Bind
    <3> QED BY <2>2, <2>u, <3>1, <3>2
         DEF Up, CheckArgs, Prepare, Source, Boot, Launch, Serve, Fails, Still, Untouched
  <2>3. CASE Owns
    BY <2>3, <2>u DEF Owns, TakeDial, TakeShell, CommandEnds, DialForwarded, DialTunneled, Dial, AskShell, Answer, StreamEnds,
                      Writes, Still, Untouched
  <2>4. CASE Ends
    BY <2>4, <2>u DEF Ends, Interrupt, TunnelOpens, TunnelEnds, CommandDone, Interrupted, Down,
                      Sync, Snapshot, Record, SetHead, Killed, Still, Untouched
  <2>5. CASE UNCHANGED vars
    BY <2>5, <2>u DEF vars
  <2> QED BY <2>1, <2>2, <2>3, <2>4, <2>5 DEF Next
<1> QED BY <1>1, <1>2, TypeCorrect, PTL DEF Spec, SignInInv

-----------------------------------------------------------------------------
(* The checkpoint on the way down.                                         *)

LEMMA InitSave == Init => SaveInv
BY DEF Init, SaveInv, Saving

\* Up to the end of the select nothing has been synced or saved.
LEMMA UpSave ==
  ASSUME SaveInv, Up
  PROVE  SaveInv'
<1> USE DEF SaveInv, Still, Untouched, Goto, Quit, disk, Starting, Saving
<1>1. CASE CheckArgs \/ Prepare \/ Source \/ Boot \/ Launch \/ Serve
  BY <1>1 DEF CheckArgs, Prepare, Source, Boot, Launch, Serve
<1>2. CASE Fails
  BY <1>2 DEF Fails
<1>3. CASE Credential("token", "workspace") \/ Credential("workspace", "source")
  BY <1>3 DEF Credential
<1>4. ASSUME NEW p \in Port, Bind(p) PROVE SaveInv'
  BY <1>4 DEF Bind
<1> QED BY <1>1, <1>2, <1>3, <1>4 DEF Up

\* What is written on the way down is not counted in what had to be saved.
LEMMA OwnsSave ==
  ASSUME SaveInv, Owns
  PROVE  SaveInv'
BY DEF SaveInv, Owns, TakeDial, TakeShell, CommandEnds, DialForwarded, DialTunneled, Dial, AskShell, Answer, StreamEnds, Writes,
       Still, Untouched, disk

\* Each step of the way down leaves behind it what the next one builds on.
LEMMA EndsSave ==
  ASSUME TypeOK, SaveInv, Ends
  PROVE  SaveInv'
<1> USE DEF SaveInv, Still, Untouched, Goto, disk, Starting, Saving
<1>1. CASE Interrupt
  BY <1>1 DEF Interrupt, Quit
<1>2. CASE TunnelOpens
  BY <1>2 DEF TunnelOpens
<1>3. ASSUME stage = "serve", Down PROVE SaveInv'
  BY <1>3 DEF Down, Quit
<1>4. CASE TunnelEnds \/ CommandDone \/ Interrupted
  BY <1>3, <1>4 DEF TunnelEnds, CommandDone, Interrupted
<1>5. CASE Sync
  <2>1. atEnd \subseteq written
    BY DEF TypeOK
  <2> QED BY <1>5, <2>1 DEF Sync
<1>6. CASE Snapshot
  BY <1>6 DEF Snapshot
<1>7. CASE Record
  BY <1>7 DEF Record
<1>8. CASE SetHead
  BY <1>8 DEF SetHead, Quit
<1>9. CASE Killed
  BY <1>9 DEF Killed, Quit, Alive, Over
<1> QED BY <1>1, <1>2, <1>4, <1>5, <1>6, <1>7, <1>8, <1>9 DEF Ends

\* A session that ends well has saved what its guest had written to its own disk
\* by then, if the sync worked; of the mounts it says nothing.
THEOREM SessionsAreSaved == Spec => []EndedIsSaved
<1>1. TypeOK /\ SaveInv /\ [Next]_vars => SaveInv'
  <2> SUFFICES ASSUME TypeOK, SaveInv, [Next]_vars PROVE SaveInv'
    OBVIOUS
  <2>1. CASE OtherLogin \/ UNCHANGED vars
    BY <2>1 DEF OtherLogin, vars, sessionVars, disk, SaveInv
  <2> QED BY <2>1, UpSave, OwnsSave, EndsSave DEF Next
<1>2. SaveInv => EndedIsSaved
  BY DEF SaveInv, EndedIsSaved
<1> QED BY <1>1, <1>2, InitSave, TypeCorrect, PTL DEF Spec
=============================================================================
