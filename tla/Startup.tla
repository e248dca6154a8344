------------------------------- MODULE Startup -------------------------------
(***************************************************************************)
(* The two files a client reads when it starts (client/client.cpp: the     *)
(* constructor, read_server_info and read_me_info), and save_me_info,      *)
(* which writes one of them after a registration (client/main.cpp,         *)
(* command 110).                                                           *)
(*                                                                         *)
(* server.info is a text over a small alphabet, edited while no client     *)
(* runs.  me.info is a sequence of cells; a cell stands for a character of *)
(* the name, a hexadecimal digit of the identifier or a piece of the       *)
(* encoded RSA key, and says which registration it comes from.  It is      *)
(* written cell by cell, and the process may end between any two.          *)
(*                                                                         *)
(* A process that is not registered has an RSA key of its own, and         *)
(* registers at most once, so one number stands for the process's key, the *)
(* identifier the server gives it and the name typed for it.               *)
(*                                                                         *)
(* enrolled is a history variable that no action reads.                    *)
(***************************************************************************)
EXTENDS Integers, Sequences, FiniteSetsExt

CONSTANTS
  MaxText,       \* bound: length of server.info
  MaxPort,       \* 65535
  MaxInt,        \* largest int
  SizeWidth,     \* values of size_t
  MaxName,       \* HEADER_CLIENT_NAME_SIZE - 1
  IdSize,        \* HEADER_CLIENT_ID_SIZE
  KeyLength,     \* cells of an encoded RSA key
  MaxKeys,       \* bound: RSA keys that are kept
  NoThing        \* "unset"; of a file: it does not open

\* A port is an int, size_t has values beyond int, and no text is as long as the largest.
ASSUME StartupAssumption ==
  /\ MaxText \in Nat \ 0..3 /\ MaxPort \in Nat \ {0} /\ MaxName \in Nat \ {0}
  /\ IdSize \in Nat \ {0} /\ KeyLength \in Nat \ {0} /\ MaxKeys \in Nat
  /\ SizeWidth \in Nat /\ MaxText < SizeWidth
  /\ MaxInt \in Nat /\ MaxPort <= MaxInt /\ MaxInt + 1 + MaxPort < SizeWidth

VARIABLES
  phase,      \* what the process is about to do
  text,       \* server.info, while the constructor reads it
  port,       \* SERVER_PORT, as the number it denotes
  me,         \* the fields of Client that me.info holds
  file,       \* me.info
  written,    \* cells written since it was opened
  drawn,      \* RSA keys that were kept
  enrolled    \* what the server holds of this installation

startupVars == <<phase, text, port, me, file, written, drawn, enrolled>>

-----------------------------------------------------------------------------
(* server.info. *)

Digit == [c \in {"0", "1"} |-> IF c = "0" THEN 0 ELSE 1]

Characters == {"h", ":", " ", "-"} \cup DOMAIN Digit

\* The number that digits say.
Number(digits) ==
  LET upto[i \in 0..Len(digits)] == IF i = 0 THEN 0 ELSE 10 * upto[i - 1] + Digit[digits[i]]
  IN  upto[Len(digits)]

Texts == UNION {[1..n -> Characters] : n \in 0..MaxText}

\* Bound: the first starts try every text, and later ones, which read a me.info
\* too, one that is right.
Tried == IF drawn = 0 THEN Texts ELSE {<<"h", "h", ":", "1">>}

\* The position of the first character in a set, or the one behind the text.
First(t, cs) == Min({i \in DOMAIN t : t[i] \in cs} \cup {Len(t) + 1})

Before(t, stops) == SubSeq(t, 1, First(t, stops) - 1)

\* std::string::find; indices start at 0, and npos is the largest size_t.
npos == SizeWidth - 1

find(t, c) == IF First(t, {c}) \in DOMAIN t THEN First(t, {c}) - 1 ELSE npos

\* substr: from npos + 1, which wraps to 0, it is the whole text.
substr(t, index) == SubSeq(t, (index % SizeWidth) + 1, Len(t))

Ints == (- MaxInt - 1)..MaxInt

\* std::stoi: spaces, a sign, digits; what follows is ignored.  Without a digit, and
\* of a number that is no int, it throws: there is no value.
stoi(t) ==
  LET signed == SubSeq(t, First(t, Characters \ {" "}), Len(t))
      negative == signed # <<>> /\ signed[1] = "-"
      digits == Before(IF negative THEN Tail(signed) ELSE signed, Characters \ DOMAIN Digit)
      number == IF negative THEN - Number(digits) ELSE Number(digits)
  IN  IF digits = <<>> THEN {} ELSE {number} \cap Ints

\* Faulty variant: the colon is not looked for.
splits_anywhere(index) == TRUE

split_allowed(index) == index > 1

\* Faulty variant: one test of two.
port_positive(n) == n > 0

port_allowed(n) == ~ (n <= 0 \/ MaxPort < n)

\* The ports read_server_info takes from a text: none if it throws.
Ports(t) ==
  IF split_allowed(find(t, ":"))
  THEN {n \in {m % SizeWidth : m \in stoi(substr(t, find(t, ":") + 1))} : port_allowed(n)}
  ELSE {}

-----------------------------------------------------------------------------
(* me.info. *)

Newline == [kind |-> "newline", of |-> 0]

Cell(kind, of) == [kind |-> kind, of |-> of]

Copies(n, cell) == [i \in 1..n |-> cell]

\* A byte is the pair of its halves.
bytes_to_hex_string(id) ==
  [i \in 1..(2 * Len(id)) |-> Cell("hex", id[(i + 1) \div 2][2 - (i % 2)])]

hex_string_to_bytes(line) ==
  [i \in 1..(Len(line) \div 2) |-> <<line[2 * i - 1].of, line[2 * i].of>>]

IsHex(line) == \A i \in DOMAIN line : line[i].kind = "hex"

\* An RSA key is all its cells; the encoder ends its output with a newline.
getPrivateKey(key) == Copies(KeyLength, Cell("base64", key))

encode_base64(cells) == Append(cells, Newline)

\* The decoder skips newlines.
decode_base64(t) ==
  LET upto[i \in 0..Len(t)] ==
        IF i = 0 THEN <<>>
        ELSE IF t[i] = Newline THEN upto[i - 1] ELSE Append(upto[i - 1], t[i])
  IN  upto[Len(t)]

\* The keys that Load finds at the beginning of its input: none, and it throws,
\* unless the whole of one is there.
Load(cells) ==
  {key \in 1..MaxKeys :
     Len(cells) >= KeyLength /\ SubSeq(cells, 1, KeyLength) = getPrivateKey(key)}

content(self) ==
  self.name \o <<Newline>> \o bytes_to_hex_string(self.id) \o <<Newline>> \o encode_base64(getPrivateKey(self.key))

\* std::getline: the line, and what is left after its newline.
getline(t) == Before(t, {Newline})

Left(t) == SubSeq(t, Len(getline(t)) + 2, Len(t))

IdOf(r) == Copies(IdSize, <<r, r>>)

\* A process that has read nothing and has drawn this key.
Fresh(key) ==
  [name |-> <<>>, id |-> Copies(IdSize, <<0, 0>>), key |-> key, registered |-> FALSE]

\* Faulty variant: the handler does not return, and the client is registered.
caught_and_gone_on(self) == [self EXCEPT !.registered = TRUE]

caught(self) == self

\* read_me_info, on a text and the key the process has drawn.  What was stored
\* before a test fails, or a conversion throws, stays.
read_me_info(t, key) ==
  LET name == getline(t)
      line == getline(Left(t))
      keys == Load(decode_base64(Left(Left(t))))
      named == [Fresh(key) EXCEPT !.name = name]
      identified == [named EXCEPT !.id = hex_string_to_bytes(line)]
  IN  IF Len(name) > MaxName THEN Fresh(key)
      ELSE IF Len(line) # 2 * IdSize \/ ~ IsHex(line) THEN named
      ELSE IF keys = {} THEN caught(identified)
      ELSE [identified EXCEPT !.key = CHOOSE k \in keys : TRUE, !.registered = TRUE]

-----------------------------------------------------------------------------
StartupInit ==
  /\ phase = "off" /\ text = <<>> /\ port = 0
  /\ me = Fresh(0)
  /\ file = NoThing /\ written = 0
  /\ drawn = 0 /\ enrolled = {}

\* The constructor reads server.info, or cannot open it.
read_server_info ==
  /\ phase = "off"
  /\ \/ \E t \in Tried :
          /\ text' = t
          /\ LET ports == Ports(t)
             IN  IF ports = {} THEN phase' = "refused" /\ UNCHANGED port
                               ELSE phase' = "configured" /\ port' \in ports
     \/ phase' = "refused" /\ UNCHANGED <<text, port>>
  /\ UNCHANGED <<me, file, written, drawn, enrolled>>

\* The constructor reads me.info, or cannot open it.
construct ==
  /\ phase = "configured"
  /\ drawn < MaxKeys
  /\ \E self \in {read_me_info(t, drawn + 1) : t \in {file, NoThing} \ {NoThing}}
                  \cup {Fresh(drawn + 1)} :
       /\ me' = self
       /\ drawn' = IF self.registered THEN drawn ELSE drawn + 1
  /\ phase' = "prompt" /\ text' = <<>> /\ port' = 0
  /\ UNCHANGED <<file, written, enrolled>>

\* Faulty variant: a name that is there already is kept.
setNameIfUnset(name) == IF me.name = <<>> THEN name ELSE me.name

setClientName(name) == name

\* Command 110, with a name of the length the prompt allows, and answered by the
\* server; a call that fails changes nothing here.
registerClient ==
  /\ phase = "prompt"
  /\ ~ me.registered
  /\ \E n \in 1..MaxName :
       LET name == Copies(n, Cell("name", me.key))
       IN  /\ me' = [me EXCEPT !.id = IdOf(me.key), !.name = setClientName(name), !.registered = TRUE]
           /\ enrolled' = enrolled \cup {[name |-> name, id |-> IdOf(me.key), key |-> me.key]}
  /\ phase' = "saving"
  /\ UNCHANGED <<text, port, file, written, drawn>>

\* Faulty variant: the file is opened without being emptied.
kept == IF file = NoThing THEN <<>> ELSE file

Truncated == <<>>

\* save_me_info opens the file, which may fail.
write_file ==
  /\ phase = "saving"
  /\ \/ phase' = "writing" /\ file' = Truncated
     \/ phase' = "prompt" /\ UNCHANGED file
  /\ written' = 0
  /\ UNCHANGED <<text, port, me, drawn, enrolled>>

write ==
  /\ phase = "writing"
  /\ written < Len(content(me))
  /\ LET cell == content(me)[written + 1]
     IN  file' = IF written < Len(file) THEN [file EXCEPT ![written + 1] = cell]
                                        ELSE Append(file, cell)
  /\ written' = written + 1
  /\ UNCHANGED <<phase, text, port, me, drawn, enrolled>>

\* Everything is written, or a write has failed, which sets a bit of the stream
\* that nobody reads.
close ==
  /\ phase = "writing"
  /\ phase' = "prompt"
  /\ written' = 0
  /\ UNCHANGED <<text, port, me, file, drawn, enrolled>>

\* Command 0, the exit of main after an exception of the constructor, or a
\* process that is killed.
ends ==
  /\ phase # "off"
  /\ phase' = "off" /\ text' = <<>> /\ port' = 0
  /\ me' = Fresh(0)
  /\ written' = 0
  /\ UNCHANGED <<file, drawn, enrolled>>

-----------------------------------------------------------------------------
(* Properties. *)

Id == [1..IdSize -> (0..MaxKeys) \X (0..MaxKeys)]

StartupTypeOK ==
  /\ phase \in {"off", "refused", "configured", "prompt", "saving", "writing"}
  /\ text \in Texts
  /\ port \in 0..MaxPort
  /\ me.id \in Id /\ me.key \in 0..MaxKeys /\ me.registered \in BOOLEAN
  /\ me.name \in Seq([kind : {"name", "hex", "base64"}, of : 0..MaxKeys]) /\ Len(me.name) <= MaxName
  /\ written \in 0..Len(content(me))
  /\ drawn \in 0..MaxKeys

\* What the server holds and a me.info says.
Identity(self) == [name |-> self.name, id |-> self.id, key |-> self.key]

\* A process that takes itself for registered has a name, an identifier and a
\* key the server holds together, whatever was left in its fields by a me.info
\* it could not use, and whatever an interrupted save left of me.info.
IdentityOfOneRegistration == me.registered => Identity(me) \in enrolled

\* What a start would make of me.info, if anything.
Saved ==
  {Identity(self) :
     self \in {r \in {read_me_info(t, 0) : t \in {file} \ {NoThing}} : r.registered}}

\* me.info is one identity or none: a write to it leaves what it says, or makes it
\* say nothing, or, at the end of a save, what the process says of itself.
SavedIsOneIdentity ==
  [][file' # file =>
       \/ Saved' \subseteq Saved
       \/ me.registered /\ Saved' = {Identity(me)}]_startupVars

\* Spaces and digits begin at position i of t, and the digits say n.
Says(t, i, n) ==
  \E j, k \in i..Len(t) :
    /\ j <= k
    /\ \A l \in i..(j - 1) : t[l] = " "
    /\ \A l \in j..k : t[l] \in DOMAIN Digit
    /\ k = Len(t) \/ t[k + 1] \notin DOMAIN Digit
    /\ n = Number(SubSeq(t, j, k))

\* Position i of t holds its first colon.
FirstColon(t, i) == t[i] = ":" /\ \A j \in 1..(i - 1) : t[j] # ":"

\* t has a host of two characters or more, a colon and then port n; or it has no
\* colon, and is host and port at once.
Configures(t, n) ==
  \/ \E i \in 3..Len(t) : FirstColon(t, i) /\ Says(t, i + 1, n)
  \/ (\A i \in DOMAIN t : t[i] # ":") /\ Says(t, 1, n)

\* A client starts exactly with a server.info that configures a port between 1
\* and 65535, and uses that port: an empty host, a host of one character, a sign,
\* a number that wraps and a text without digits are refused.
ServerInfoRead ==
  /\ phase = "configured" => port \in 1..MaxPort /\ Configures(text, port)
  /\ phase = "refused" => \A n \in 1..MaxPort : ~ Configures(text, n)
=============================================================================
