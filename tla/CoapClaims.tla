----------------------------- MODULE CoapClaims -----------------------------
(***************************************************************************)
(* What comments, documentation and tests of picocoap say about messages,   *)
(* stated as properties of CoapPdu.  Each one is refuted by a run.          *)
(***************************************************************************)
EXTENDS CoapPdu

\* coap_test.c, "non-option by num length not zero": looking up an option the
\* message does not have yields no number and no length.
AbsentOption ==
  \A num \in OptNums :
    (\A k \in 1..Len(msg.opts) : msg.opts[k].num # num)
      => LET option == coap_get_option_by_num(pdu, num, 0)
         IN  option.num = 0 /\ option.len = 0
=============================================================================
