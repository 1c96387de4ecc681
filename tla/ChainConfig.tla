----------------------------- MODULE ChainConfig ------------------------------
(***************************************************************************)
(* stn_chain_config_load: the file is read into memory, parsed by          *)
(* recursive descent into a list that grows by realloc, and only then      *)
(* takes the place of the configuration there was. The text may stop       *)
(* making sense at any token and any allocation may fail; every way out    *)
(* has its own list of pointers to free.                                   *)
(*                                                                         *)
(* Text is a sequence of tokens: white space, escapes and the characters   *)
(* of a string are left out, a string that does not parse is a token that  *)
(* makes no sense. The heap is external: it hands out the lowest free      *)
(* block, so that a stale pointer soon points to somebody else's block.    *)
(***************************************************************************)
EXTENDS Integers, Sequences, SequencesExt

CONSTANTS
    Hosts,          \* names a file may give
    Digits, DigitValue,   \* the digits a port is written with
    PortMax,        \* 65535
    MaxDigits,      \* bound on the length of a port
    MaxServers,     \* bound on the length of the list
    NBlocks         \* blocks the heap can have

Blocks == 1 .. NBlocks
NULL == 0

Keywords == {"chain_servers", "host", "port", "other", "empty"}
Punctuation == {"{", "}", "[", "]", ",", ":"}

ASSUME ConfigAssumption ==
    /\ PortMax \in Nat \ {0}
    /\ {MaxDigits, MaxServers, NBlocks} \subseteq Nat
    /\ DigitValue \in [Digits -> 0 .. 9]
    /\ Hosts \cap (Digits \cup Keywords \cup Punctuation) = {}
    /\ Digits \cap (Keywords \cup Punctuation) = {}

VARIABLES
    heap,       \* blocks that are allocated
    config,     \* the caller's configuration
    before,     \* what it was when load was called
    loaded,     \* the configuration under construction
    text,       \* the file's text
    memberKey,  \* key of parse_config
    fieldKey,   \* key of parse_server
    host, port, \* host and port of parse_server
    entryHost,  \* entry.host of parse_servers
    have,       \* have_host, have_port, have_servers
    parser,     \* what the parser looks for next
    tokens      \* the text so far

pointers == <<text, memberKey, fieldKey, host, entryHost>>
loadVars == <<heap, config, before, loaded, text, memberKey, fieldKey, host,
              port, entryHost, have, parser, tokens>>

NoHost == [at |-> NULL, name |-> "none"]
Empty == [at |-> NULL, servers |-> <<>>]

(* Blocks a configuration owns: the array and the hosts.                    *)
BlocksOf(c) == ({c.at} \cup {e.host.at : e \in ToSet(c.servers)}) \ {NULL}

(* The caller's configuration is zeroed, or from an earlier load.           *)
LoadInit ==
    /\ \/ config = Empty
       \/ \E h \in Hosts :
             config = [at |-> 2,
                       servers |-> <<[host |-> [at |-> 1, name |-> h],
                                     port |-> 1]>>]
    /\ before = config
    /\ heap = BlocksOf(config)
    /\ loaded = Empty
    /\ text = NULL /\ memberKey = NULL /\ fieldKey = NULL
    /\ host = NoHost /\ entryHost = NoHost /\ port = 0
    /\ have = {} /\ parser = "file" /\ tokens = <<>>

-----------------------------------------------------------------------------
(* malloc and the free list.                                                *)

Fresh(b) == b \in Blocks \ heap /\ \A c \in Blocks \ heap : b <= c

Malloc(b) == Fresh(b) /\ heap' = heap \cup {b}

-----------------------------------------------------------------------------
(* read_file. It closes the file on every way out.                          *)
ReadFile ==
    /\ parser = "file" /\ parser' = "start"
    /\ \E b \in Blocks : Malloc(b) /\ text' = b
    /\ UNCHANGED <<config, before, loaded, memberKey, fieldKey, host, port,
                   entryHost, have, tokens>>

(* The parser, at from, meets t and goes on at to.                          *)
Meets(from, t, to) == parser = from /\ parser' = to /\ tokens' = Append(tokens, t)

(* The tokens that change nothing else, and what must not have been seen.   *)
Control == {
    <<"start", "{", "members", "none">>,
    <<"colon", ":", "list", "servers">>,
    <<"list", "[", "server", "none">>,
    <<"server", "{", "fields", "none">>,
    <<"hostColon", ":", "hostValue", "host">>,
    <<"portColon", ":", "portValue", "port">>,
    <<"afterField", ",", "fields", "none">>,
    <<"afterServer", ",", "server", "none">>,
    <<"afterMember", ",", "members", "none">>,
    <<"afterMember", "}", "tail", "none">>,
    <<"members", "}", "tail", "none">> }

Punctuate ==
    /\ \E c \in Control : Meets(c[1], c[2], c[3]) /\ c[4] \notin have
    /\ parser = "afterServer" => Len(loaded.servers) < MaxServers
    /\ UNCHANGED <<heap, config, before, loaded, pointers, port, have>>

(* parse_string for a key of parse_config or parse_server. After a key they *)
(* do not know, and after an empty host, they only fail.                    *)
MemberKey ==
    /\ \/ Meets("members", "chain_servers", "colon")
       \/ Meets("members", "other", "reject")
    /\ \E b \in Blocks : Malloc(b) /\ memberKey' = b
    /\ UNCHANGED <<config, before, loaded, text, fieldKey, host, port,
                   entryHost, have>>

FieldKey ==
    /\ \/ Meets("fields", "host", "hostColon")
       \/ Meets("fields", "port", "portColon")
       \/ Meets("fields", "other", "reject")
    /\ \E b \in Blocks : Malloc(b) /\ fieldKey' = b
    /\ UNCHANGED <<config, before, loaded, text, memberKey, host, port,
                   entryHost, have>>

EmptyHost ==
    /\ Meets("hostValue", "empty", "reject")
    /\ \E b \in Blocks : Malloc(b) /\ host' = [at |-> b, name |-> "empty"]
    /\ UNCHANGED <<config, before, loaded, text, memberKey, fieldKey, port,
                   entryHost, have>>

(* A value is in; the field's key is freed.                                 *)
HostValue(h) ==
    /\ Meets("hostValue", h, "afterField")
    /\ \E b \in Blocks :
        /\ Fresh(b)
        /\ heap' = (heap \cup {b}) \ {fieldKey}
        /\ host' = [at |-> b, name |-> h]
    /\ fieldKey' = NULL
    /\ have' = have \cup {"host"}
    /\ UNCHANGED <<config, before, loaded, text, memberKey, port, entryHost>>

(* Plausible error: the last digit is not looked at.                        *)
PortFitsNearly(d) == port <= PortMax \div 10

(* The test of parse_port before it takes one more digit.                   *)
PortFits(d) ==
    \/ port < PortMax \div 10
    \/ port = PortMax \div 10 /\ DigitValue[d] <= PortMax % 10

PortDigit(d) ==
    /\ Meets("portValue", d, "digits") \/ Meets("digits", d, "digits")
    /\ PortFits(d)
    /\ port' = port * 10 + DigitValue[d]
    /\ \E i \in Len(tokens) - MaxDigits + 1 .. Len(tokens) :
          tokens[i] \notin Digits
    /\ UNCHANGED <<heap, config, before, loaded, pointers, have>>

PortDone ==
    /\ parser = "digits" /\ port # 0 /\ parser' = "afterField"
    /\ heap' = heap \ {fieldKey} /\ fieldKey' = NULL
    /\ have' = have \cup {"port"}
    /\ UNCHANGED <<config, before, loaded, text, memberKey, host, port,
                   entryHost, tokens>>

(* parse_server returns: the host is the entry's.                           *)
EndServer ==
    /\ Meets("fields", "}", "append") \/ Meets("afterField", "}", "append")
    /\ {"host", "port"} \subseteq have
    /\ entryHost' = host /\ host' = NoHost
    /\ UNCHANGED <<heap, config, before, loaded, text, memberKey, fieldKey,
                   port, have>>

(* append_server: realloc moves the array or not.                           *)
AppendServer ==
    /\ parser = "append" /\ parser' = "afterServer"
    /\ \E b \in Blocks :
        /\ \/ b = loaded.at /\ heap' = heap
           \/ Fresh(b) /\ heap' = (heap \cup {b}) \ {loaded.at}
        /\ loaded' = [at |-> b,
                      servers |-> Append(loaded.servers,
                                         [host |-> entryHost, port |-> port])]
    /\ entryHost' = NoHost /\ port' = 0
    /\ have' = have \ {"host", "port"}
    /\ UNCHANGED <<config, before, text, memberKey, fieldKey, host, tokens>>

EndServers ==
    /\ Meets("afterServer", "]", "afterMember")
    /\ heap' = heap \ {memberKey} /\ memberKey' = NULL
    /\ have' = have \cup {"servers"}
    /\ UNCHANGED <<config, before, loaded, text, fieldKey, host, port,
                   entryHost>>

-----------------------------------------------------------------------------
(* stn_chain_config_load after parse_config.                                *)

Released == /\ text' = NULL /\ memberKey' = NULL /\ fieldKey' = NULL
            /\ host' = NoHost /\ entryHost' = NoHost /\ loaded' = Empty

Succeed ==
    /\ parser = "tail" /\ parser' = "loaded"
    /\ "servers" \in have /\ loaded.servers # <<>>
    /\ heap' = heap \ ({text} \cup BlocksOf(config))
    /\ config' = loaded
    /\ Released
    /\ UNCHANGED <<before, port, have, tokens>>

(* Plausible error: parse_server forgets the host on its way out.           *)
UnwoundWithoutHost ==
    {fieldKey, entryHost.at, memberKey, text} \cup BlocksOf(loaded)

(* What the ways out free: parse_server its key and host, parse_servers the *)
(* entry, parse_config its key, load the text and the unfinished list.      *)
Unwound ==
    {fieldKey, host.at, entryHost.at, memberKey, text} \cup BlocksOf(loaded)

(* The file cannot be read, the next token makes no sense here, the port or *)
(* a field is missing, or an allocation fails.                              *)
Fail ==
    /\ parser \notin {"failed", "loaded"} /\ parser' = "failed"
    /\ heap' = heap \ Unwound
    /\ Released
    /\ UNCHANGED <<config, before, port, have, tokens>>

LoadTerminated == parser \in {"failed", "loaded"} /\ UNCHANGED loadVars

LoadNext ==
    \/ ReadFile \/ Punctuate \/ MemberKey \/ FieldKey
    \/ EmptyHost \/ \E h \in Hosts : HostValue(h)
    \/ \E d \in Digits : PortDigit(d)
    \/ PortDone \/ EndServer \/ AppendServer \/ EndServers
    \/ Succeed \/ Fail \/ LoadTerminated

LoadSpec == LoadInit /\ [][LoadNext]_loadVars

-----------------------------------------------------------------------------
(* Every place that holds a pointer, with the pointer.                      *)
Places(c, name) ==
    {<<name, 0, c.at>>}
      \cup {<<name, i, c.servers[i].host.at>> : i \in DOMAIN c.servers}

Holders ==
    {p \in Places(config, "config") \cup Places(loaded, "loaded")
             \cup {<<"text", 0, text>>, <<"memberKey", 0, memberKey>>,
                   <<"fieldKey", 0, fieldKey>>, <<"host", 0, host.at>>,
                   <<"entryHost", 0, entryHost.at>>} : p[3] # NULL}

(* At every moment each allocated block has exactly one holder and each     *)
(* pointer points to an allocated block: whichever token or allocation      *)
(* fails, nothing leaks, nothing is freed twice and nothing is used after   *)
(* it was freed, in parse_server, parse_servers, parse_config, append and   *)
(* load alike.                                                              *)
HeapOwned ==
    /\ heap = {p[3] : p \in Holders}
    /\ \A p, q \in Holders : p[3] = q[3] => p = q

(* What a text says: its hosts and its ports in order, a port being the     *)
(* number a run of digits stands for, and whether it ends within a run.     *)
NothingRead == [hosts |-> <<>>, ports |-> <<>>, open |-> FALSE]

After(r, t) ==
    CASE t \in Hosts -> [r EXCEPT !.hosts = Append(@, t), !.open = FALSE]
      [] t \in Digits /\ r.open ->
            [r EXCEPT !.ports[Len(r.ports)] = @ * 10 + DigitValue[t]]
      [] t \in Digits /\ ~r.open ->
            [r EXCEPT !.ports = Append(@, DigitValue[t]), !.open = TRUE]
      [] OTHER -> [r EXCEPT !.open = FALSE]

Reading(ts) ==
    LET read[i \in 0 .. Len(ts)] ==
            IF i = 0 THEN NothingRead ELSE After(read[i - 1], ts[i])
    IN read[Len(ts)]

(* A failed load leaves the caller's configuration as it was; one that      *)
(* succeeds leaves at least one server, each with a port parse_port takes.  *)
LoadOutcome ==
    /\ parser = "failed" => config = before
    /\ parser = "loaded" =>
          /\ config.servers # <<>>
          /\ \A i \in DOMAIN config.servers :
                config.servers[i].port \in 1 .. PortMax

HostsOf(servers) == [i \in DOMAIN servers |-> servers[i].host.name]
PortsOf(servers) == [i \in DOMAIN servers |-> servers[i].port]

(* The hosts and ports are those of the file in the file's order, which is  *)
(* the order of failover.                                                   *)
InFileOrder ==
    parser = "loaded" =>
        /\ HostsOf(config.servers) = Reading(tokens).hosts
        /\ PortsOf(config.servers) = Reading(tokens).ports

(* stn_chain_config_load is all or nothing: the configuration there was, or *)
(* the whole of the file.                                                   *)
LoadAllOrNothing == LoadOutcome /\ InFileOrder

=============================================================================
