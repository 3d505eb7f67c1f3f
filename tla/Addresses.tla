----------------------------- MODULE Addresses -----------------------------
(***************************************************************************)
(* How addresses are read and written: targets of the command line         *)
(* (cli.py), entries of the inventory (inventory.py), and the labels that  *)
(* stand for a target in a batch (scanner.py).                             *)
(*                                                                         *)
(* A text is the sequence of its delimiters and of the words between them: *)
(* [::1]:8443 is <<"[", ":", ":", "1", "]", ":", "8443">>.  A reading      *)
(* either gives a value or raises an exception.                            *)
(***************************************************************************)
EXTENDS Naturals, Sequences, SequencesExt

Gives(v) == [ok |-> TRUE, value |-> v]
Raises(exception) == [ok |-> FALSE, exception |-> exception]

\* The words that int() reads, and JSON's null where a text is expected.
Numerals == {"443", "8443", "80"}
Null == "null"

int(text) ==
  CASE text = <<Null>> -> Raises("TypeError")
    [] text # <<Null>> /\ Len(text) = 1 /\ text[1] \in Numerals -> Gives(text[1])
    [] OTHER -> Raises("ValueError")

Before(text, i) == SubSeq(text, 1, i - 1)
After(text, i) == SubSeq(text, i + 1, Len(text))
IsFirst(text, c) == text # <<>> /\ Head(text) = c
IndexOf(text, c) == SelectInSeq(text, LAMBDA d : d = c)

\* The text up to the first c and what follows it, as str.partition.
Partition(text, c) ==
  LET i == IndexOf(text, c)
  IN  IF i = 0 THEN <<text, <<>>>> ELSE <<Before(text, i), After(text, i)>>

WithPort(host, port) ==
  IF port.ok THEN Gives([host |-> host, port |-> port.value]) ELSE port

\* A bracketed host, a host with one colon before the port, or a host alone:
\* a bare IPv6 address, which has several colons, is all host.
_split_host_port(raw, default_port) ==
  LET bracketed == IsFirst(raw, "[")
      colons == { i \in DOMAIN raw : raw[i] = ":" }
      close == IndexOf(raw, "]")
      rest == After(raw, close)
      parts == Partition(raw, ":")
  IN  CASE bracketed /\ close = 0 -> Raises("ValueError")
        [] bracketed /\ close # 0 ->
             WithPort(SubSeq(raw, 2, close - 1),
                      IF IsFirst(rest, ":") THEN int(Tail(rest)) ELSE Gives(default_port))
        [] ~bracketed /\ (\E i \in colons : colons = {i}) -> WithPort(parts[1], int(parts[2]))
        [] OTHER -> Gives([host |-> raw, port |-> default_port])

\* host, host:port or host:port@sni.  An empty SNI and none are the same to
\* everything that reads it.
parse_target(raw) ==
  LET parts == Partition(raw, "@")
      r == _split_host_port(parts[1], "443")
  IN  IF r.ok THEN Gives([host |-> r.value.host, port |-> r.value.port, sni |-> parts[2]])
              ELSE r

\* Mutant of address: an IPv6 host is not bracketed.
address_NoBrackets(host, port) == host \o <<":", port>>

address(host, port) ==
  IF \E i \in DOMAIN host : host[i] = ":" /\ ~IsFirst(host, "[")
  THEN <<"[">> \o host \o <<"]", ":", port>>
  ELSE host \o <<":", port>>

\* A target's label, the key of its future and of its result.
label(host, port) == host \o <<":", port>>

\* The host and the port a label names, as str.rpartition.
Named(text) ==
  LET i == SelectLastInSeq(text, LAMBDA c : c = ":")
  IN  [host |-> Before(text, i), port |-> text[i + 1]]
=============================================================================
