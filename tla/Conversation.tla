---------------------------- MODULE Conversation ----------------------------
(***************************************************************************)
(* One conversation with one mail exchanger (smtptls.go): greeting, EHLO,   *)
(* STARTTLS, the handshake, and what its certificate is. Until the handshake *)
(* anybody on the path can add lines to what the exchanger says.           *)
(***************************************************************************)
EXTENDS Integers, SequencesExt

CONSTANTS
  SmtpLines,   \* the lines an exchanger or the path may send, see LineKinds
  MaxLines,    \* maxLines: the lines of one reply
  MaxSent,     \* bound: how many lines arrive in one conversation
  ServerChains,      \* what may be presented: [expired, known, fit, names], or NoChain
  NoChain

\* A code (0: none that can be read), what follows it ("-": more lines come, " ":
\* none, "?": neither), the word the text starts with, and whether it is too long.
LineKinds == [code : {0, 220, 250, 550}, then : {" ", "-", "?"}, word : {"STARTTLS", "5.7.25", "text"}, long : BOOLEAN]

ASSUME ConversationAssumption ==
  /\ SmtpLines \subseteq LineKinds
  /\ MaxLines \in Nat \ {0} /\ MaxSent \in Nat

VARIABLES
  configured, hostname, literal, \* the name the operator gave; the machine's; its address
  stream,     \* the lines that arrived and were not read
  arrived,    \* how many arrived
  probing,       \* where Probe is
  helo,       \* the name sent with EHLO
  out         \* Result

conversationVars == <<configured, hostname, literal, stream, arrived, probing, helo, out>>

ProbeSteps == {"dial", "greeting", "ehlo", "starttls", "handshake", "over"}
Reasons ==
  {"", "blocked", "timeout", "connection refused", "unresolved", "unreachable", "not smtp", "stopped", "no greeting",
   "refusal", "closed", "ehlo unread", "ehlo refused", "no reverse DNS", "starttls refused", "early", "no handshake"}
CertificateReasons == {"", "none presented", "no store", "expired", "unknown root", "unfit", "unnamed"}

ConversationTypeOK ==
  /\ stream \in Seq(SmtpLines) /\ arrived \in 0..MaxSent
  /\ probing \in ProbeSteps
  /\ out.reason \in Reasons /\ out.certificate \in CertificateReasons
  /\ out.connected \in BOOLEAN /\ out.measured \in BOOLEAN /\ out.offered \in BOOLEAN
  /\ out.upgraded \in BOOLEAN /\ out.trusted \in BOOLEAN /\ out.names \in BOOLEAN
  /\ out.timedOut \in BOOLEAN

\* validName: a word here stands for a name, and "" for none.
ValidName(name) == IF name \in {"a host", "a host name", "the operator's"} THEN name ELSE ""
\* CheckHeloName, at start.
CheckHeloName(name) == name = "" \/ ValidName(name) # ""

ConversationInit ==
  /\ configured \in {"", "the operator's", "not a name"} /\ CheckHeloName(configured)
  /\ hostname \in {"a host", "a host name", "not a name"}
  /\ literal \in {"", "an address"}
  /\ stream = <<>> /\ arrived = 0
  /\ probing = "dial"
  /\ helo = ""
  /\ out = [connected |-> FALSE, measured |-> FALSE, offered |-> FALSE, upgraded |-> FALSE, trusted |-> FALSE,
            names |-> FALSE, timedOut |-> FALSE, reason |-> "", certificate |-> ""]

\* Lines arrive whenever they like.
Arrive ==
  /\ probing \notin {"dial", "over"}
  /\ arrived < MaxSent
  /\ arrived' = arrived + 1
  /\ \E l \in SmtpLines : stream' = Append(stream, l)
  /\ UNCHANGED <<probing, helo, out>>

End(reason) == probing' = "over" /\ out' = [out EXCEPT !.reason = reason]

Dialled ==
  /\ probing = "dial"
  /\ \/ probing' = "greeting" /\ UNCHANGED out
     \/ \E r \in {"blocked", "connection refused", "unresolved", "unreachable"} : End(r)
     \/ probing' = "over" /\ out' = [out EXCEPT !.reason = "timeout", !.timedOut = TRUE]
  /\ UNCHANGED <<stream, arrived, helo>>
-----------------------------------------------------------------------------
\* readReply, over the lines that arrived.

MalformedLine(i) ==
  LET l == stream[i]
  IN  l.long \/ l.code = 0 \/ l.then = "?" \/ l.code # stream[1].code
\* The first line that ends the reply, or ends the reading of it.
EndOfReply(i) ==
  /\ i \in DOMAIN stream
  /\ MalformedLine(i) \/ stream[i].then = " " \/ i = MaxLines
  /\ \A j \in 1..(i - 1) : ~MalformedLine(j) /\ stream[j].then = "-"
ReadableReply(i) == ~MalformedLine(i) /\ stream[i].then = " "

\* What may be read now: a reply, or why there is none; and the lines left. The
\* connection may end, or the time, before a reply is whole.
ReadReply(unread) ==
  LET ends == {i \in 1..MaxLines : EndOfReply(i)}
      other(reason) == IF unread = "starttls refused" THEN unread ELSE reason
  IN  {[code |-> stream[1].code, words |-> [j \in 1..i |-> stream[j].word], left |-> SubSeq(stream, i + 1, Len(stream)),
        error |-> IF ReadableReply(i) THEN "" ELSE other("not smtp")] : i \in ends}
      \cup {[code |-> 0, words |-> <<>>, left |-> stream, error |-> r] :
             r \in IF ends = {} THEN {unread, other("stopped")} ELSE {}}

\* heloName
HeloName ==
  IF ValidName(configured) # "" THEN configured
  ELSE IF ValidName(hostname) = "a host name" THEN hostname
  ELSE IF literal # "" THEN literal
  ELSE IF ValidName(hostname) # "" THEN hostname ELSE "localhost"

Greeting ==
  /\ probing = "greeting"
  /\ \E reply \in ReadReply("no greeting") :
       /\ stream' = reply.left
       /\ \/ reply.error # "" /\ End(reply.error) /\ UNCHANGED helo
          \/ /\ reply.error = "" /\ reply.code # 220
             /\ probing' = "over" /\ out' = [out EXCEPT !.connected = TRUE, !.reason = "refusal"]
             /\ UNCHANGED helo
          \/ /\ reply.error = "" /\ reply.code = 220
             /\ helo' = HeloName
             /\ \/ probing' = "ehlo" /\ out' = [out EXCEPT !.connected = TRUE]
                \/ probing' = "over" /\ out' = [out EXCEPT !.connected = TRUE, !.reason = "closed"]
  /\ UNCHANGED arrived

\* offersSTARTTLS: the first line is a greeting.
Offers(words) == \E j \in DOMAIN words : j > 1 /\ words[j] = "STARTTLS"

Ehlo ==
  /\ probing = "ehlo"
  /\ \E reply \in ReadReply("ehlo unread") :
       /\ stream' = reply.left
       /\ \/ reply.error # "" /\ End(reply.error)
          \/ reply.error = "" /\ reply.code # 250 /\ End(IF reply.words[1] = "5.7.25" THEN "no reverse DNS" ELSE "ehlo refused")
          \/ /\ reply.error = "" /\ reply.code = 250 /\ ~Offers(reply.words)
             /\ probing' = "over" /\ out' = [out EXCEPT !.measured = TRUE]
          \/ /\ reply.error = "" /\ reply.code = 250 /\ Offers(reply.words)
             /\ \/ probing' = "starttls" /\ out' = [out EXCEPT !.measured = TRUE, !.offered = TRUE]
                \/ probing' = "over" /\ out' = [out EXCEPT !.measured = TRUE, !.offered = TRUE, !.reason = "closed"]
  /\ UNCHANGED <<arrived, helo>>

StartTLS ==
  /\ probing = "starttls"
  /\ \E reply \in ReadReply("starttls refused") :
       /\ stream' = reply.left
       /\ \/ reply.error # "" /\ End(reply.error)
          \/ reply.error = "" /\ reply.code # 220 /\ End("starttls refused")
          \/ reply.error = "" /\ reply.code = 220 /\ probing' = "handshake" /\ UNCHANGED out
  /\ UNCHANGED <<arrived, helo>>

\* judge: whether the chain is trusted, names the exchanger, and why it is not.
Judged(chain) ==
  LET trusted == chain # NoChain /\ ~chain.expired /\ chain.known /\ chain.fit
      why == CASE chain = NoChain -> "none presented"
               [] chain # NoChain /\ ~trusted ->
                    IF chain.expired THEN "expired" ELSE IF ~chain.known THEN "unknown root" ELSE "unfit"
               [] trusted /\ ~chain.names -> "unnamed"
               [] OTHER -> ""
  IN  {[out EXCEPT !.upgraded = TRUE, !.trusted = trusted, !.names = chain # NoChain /\ chain.names, !.certificate = why],
       [out EXCEPT !.upgraded = TRUE, !.certificate = IF chain = NoChain THEN why ELSE "no store"]}

\* Lines that arrived before the handshake are either seen in the buffer or read
\* as the start of it. (Fault: what is in the buffer is passed over.)
HandshakePassingOver ==
  /\ probing = "handshake"
  /\ \/ End("no handshake")
     \/ probing' = "over" /\ \E chain \in ServerChains \cup {NoChain} : out' \in Judged(chain)
  /\ UNCHANGED <<stream, arrived, helo>>
Handshake ==
  /\ probing = "handshake"
  /\ \/ stream # <<>> /\ \E r \in {"early", "no handshake"} : End(r)
     \/ stream = <<>> /\ End("no handshake")
     \/ /\ stream = <<>>
        /\ probing' = "over"
        /\ \E chain \in ServerChains \cup {NoChain} : out' \in Judged(chain)
  /\ UNCHANGED <<stream, arrived, helo>>

ConversationNext ==
  /\ Arrive \/ Dialled \/ Greeting \/ Ehlo \/ StartTLS \/ Handshake
  /\ UNCHANGED <<configured, hostname, literal>>

ConversationSpec == ConversationInit /\ [][ConversationNext]_conversationVars
-----------------------------------------------------------------------------

\* A result is one of the four states and says why when it is not the last two
\* ("four states and never two, because each is a different sentence"); nothing is
\* negotiated over a conversation somebody wrote into; a certificate is only
\* called verified when it is and the exchanger has one; and an operator who gave
\* a name sends no other.
ResultIsOneSentence ==
  /\ probing = "over" => (out.reason = "") = (out.measured /\ (~out.offered \/ out.upgraded))
  /\ out.offered => out.measured
  /\ out.measured => out.connected
  /\ out.timedOut => ~out.connected
  /\ out.upgraded => out.offered /\ stream = <<>>
  /\ out.trusted \/ out.names => out.upgraded
  /\ out.upgraded => (out.certificate = "") = (out.trusted /\ out.names)
  /\ configured # "" => helo \in {"", configured}
=============================================================================
