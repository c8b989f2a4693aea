--------------------------- MODULE PasswordResets ---------------------------
(***************************************************************************)
(* The reset codes of one account (AuthService.requestPasswordReset and      *)
(* resetPassword).  The code, its expiry and its wrong attempts are one JSON *)
(* value under pwdreset:<phone>: it is read, compared with the guess for the *)
(* time of an argon2 verification, then written back or deleted.            *)
(***************************************************************************)
EXTENDS Integers, FiniteSets

CONSTANTS
  Guessers,        \* the request contexts of resetPassword
  MaxWrongCodes,   \* wrong guesses a code accepts (5)
  MaxCodes         \* bound: codes sent

ASSUME ResetBounds ==
  /\ IsFiniteSet(Guessers)
  /\ MaxWrongCodes \in Nat /\ MaxCodes \in Nat

VARIABLES
  resetRow,     \* companySetting pwdreset:<phone>: the code and its attempts
  codesSent,    \* number of codes sent by SMS
  guesser,      \* the handlers of resetPassword, with the value they read
  wrongGuesses  \* history: wrong guesses that were compared with each code

resetVars == <<resetRow, codesSent, guesser, wrongGuesses>>

Codes == 1 .. MaxCodes
NoRow == [code |-> 0, attempts |-> 0]
NoGuess == [at |-> "idle", copy |-> NoRow, guess |-> 0]

ResetInit ==
  /\ resetRow = NoRow
  /\ codesSent = 0
  /\ guesser = [g \in Guessers |-> NoGuess]
  /\ wrongGuesses = [c \in Codes |-> 0]

\* A new code replaces the row, unless one was sent within the minute.
requestPasswordReset ==
  /\ codesSent < MaxCodes
  /\ codesSent' = codesSent + 1
  /\ resetRow' = [code |-> codesSent + 1, attempts |-> 0]
  /\ UNCHANGED <<guesser, wrongGuesses>>

\* resetPassword reads the row.
readReset(g, guess) ==
  /\ guesser[g].at = "idle"
  /\ resetRow.code # 0 /\ resetRow.attempts < MaxWrongCodes
  /\ guesser' = [guesser EXCEPT ![g] = [at |-> "read", copy |-> resetRow, guess |-> guess]]
  /\ UNCHANGED <<resetRow, codesSent, wrongGuesses>>

\* It finds it used up, or expired, and deletes it.
dropReset ==
  /\ resetRow.code # 0
  /\ resetRow' = NoRow
  /\ UNCHANGED <<codesSent, guesser, wrongGuesses>>

\* Faulty variant: the attempts are not written back.
wrongCodeUncounted(g) ==
  LET copy == guesser[g].copy IN
  /\ guesser[g].at = "read" /\ guesser[g].guess # copy.code
  /\ wrongGuesses[copy.code] < 20
  /\ wrongGuesses' = [wrongGuesses EXCEPT ![copy.code] = @ + 1]
  /\ guesser' = [guesser EXCEPT ![g] = NoGuess]
  /\ UNCHANGED <<resetRow, codesSent>>

\* A wrong code: what was read is written back with one attempt more; without a
\* row the update fails.
wrongCode(g) ==
  LET copy == guesser[g].copy IN
  /\ guesser[g].at = "read" /\ guesser[g].guess # copy.code
  /\ resetRow' = IF resetRow.code = 0 THEN NoRow ELSE [copy EXCEPT !.attempts = @ + 1]
  /\ wrongGuesses' = [wrongGuesses EXCEPT ![copy.code] = @ + 1]
  /\ guesser' = [guesser EXCEPT ![g] = NoGuess]
  /\ UNCHANGED <<codesSent>>

\* The code that was read: the password, the sessions and the row, in one transaction.
rightCode(g) ==
  /\ guesser[g].at = "read" /\ guesser[g].guess = guesser[g].copy.code
  /\ guesser' = [guesser EXCEPT ![g] = NoGuess]
  /\ resetRow' = NoRow
  /\ UNCHANGED <<codesSent, wrongGuesses>>

\* The account is no longer active: the row is deleted, the password stays.
rightCodeOfClosedAccount(g) ==
  /\ guesser[g].at = "read" /\ guesser[g].guess = guesser[g].copy.code
  /\ guesser' = [guesser EXCEPT ![g] = NoGuess]
  /\ resetRow' = NoRow
  /\ UNCHANGED <<codesSent, wrongGuesses>>

ResetNext ==
  \/ requestPasswordReset \/ dropReset
  \/ \E g \in Guessers :
       \/ \E guess \in 0 .. MaxCodes : readReset(g, guess)
       \/ wrongCode(g) \/ rightCode(g) \/ rightCodeOfClosedAccount(g)

ResetSpec == ResetInit /\ [][ResetNext]_resetVars

\* How the handlers may be spread over the counts: for each count, how many hold that
\* count or a lower one.  There are choose(n + m, m) ways for n handlers and m attempts.
Spreads ==
  {s \in [0 .. MaxWrongCodes - 1 -> 0 .. Cardinality(Guessers)] :
     \A v, w \in 0 .. MaxWrongCodes - 1 : v <= w => s[v] <= s[w]}

(* Guesses in parallel rewind one another's count, but a rewind costs the   *)
(* handler the older count it held: n handlers and m attempts allow at most *)
(* one wrong guess less than there are ways to spread n handlers over the    *)
(* counts.                                                                  *)
GuessesBounded ==
  \A c \in Codes : wrongGuesses[c] < Cardinality(Spreads)
=============================================================================
