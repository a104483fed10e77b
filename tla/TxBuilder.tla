----------------------------- MODULE TxBuilder -----------------------------
(***************************************************************************)
(* The shielded transaction builder: generate_1.SignTx (sign.go), a        *)
(* strictly ordered pipeline of stages over a sign_ctx, each of which may  *)
(* fail and abort the build.                                               *)
(*                                                                         *)
(* One asset type; an asset is its value.  Keys are identified with the    *)
(* pseudo-address they own: IsMyPKr(Sk2Tk(sk), pkr) holds iff sk = pkr, a  *)
(* signature made with sk is valid for pkr iff sk = pkr, and an Out_C      *)
(* decrypts (FetchKey / ConfirmOutC) only under its owner's key.  The      *)
(* balance proof (c_superzk.SignBalance) can be made only for a balanced   *)
(* descriptor, and assets.CKState checks that in minus out is exactly 0.   *)
(***************************************************************************)
EXTENDS Integers, Sequences, SequencesExt, FiniteSets

CONSTANTS
  Pkrs,     \* pseudo-addresses, also standing for the keys that own them
  SzkPkrs,  \* the pseudo-addresses for which c_superzk.IsSzkPKr holds
  Params    \* the GTxParam values SignTx may be called with

ASSUME SzkPkrs \subseteq Pkrs

(* The commands of Cmds that carry an asset, in the order genCmd visits them. *)
AssetCmds == <<"buyshare", "registpool", "contract">>
CmdKinds == {"buyshare", "registpool", "closepool", "contract"}
NoSign == "none"

VARIABLES
  param,   \* sign_ctx.param
  pc,      \* the stage SignTx is at, or done / failed / panic
  p_ins,   \* sign_ctx.p_ins
  c_ins,   \* sign_ctx.c_ins
  c_outs,  \* sign_ctx.c_outs
  p_outs,  \* sign_ctx.p_outs
  ck,      \* sign_ctx.ck: inputs minus outputs of the plain conservation check
  bd,      \* sign_ctx.balance_desc: value and count of each commitment list
  s        \* sign_ctx.s: the stx.T being built

vars == <<param, pc, p_ins, c_ins, c_outs, p_outs, ck, bd, s>>

ValueOf(seq) == FoldLeft(LAMBDA acc, x : acc + x.value, 0, seq)

EmptyTx ==
  [from |-> NoSign, sign |-> NoSign, fee |-> 0,
   insP |-> <<>>, insC |-> <<>>, outsC |-> <<>>, outsP |-> <<>>,
   cmds |-> {}, cmdValue |-> 0,
   create |-> FALSE, createValue |-> 0,
   transfer |-> FALSE, transferSign |-> NoSign,
   close |-> FALSE, closeSign |-> NoSign, bcr |-> FALSE]

EmptyDesc == [oin |-> 0, oout |-> 0, zin |-> 0, zout |-> 0, zinN |-> 0, zoutN |-> 0]

Fail == pc' = "failed" /\ UNCHANGED <<param, p_ins, c_ins, c_outs, p_outs, ck, bd, s>>

-----------------------------------------------------------------------------
(***************************************************************************)
(* Faulty variants of definitions below, each a plausible slip in the code *)
(* that one of the properties must reject.                                 *)
(***************************************************************************)
OwnsFromOnly(p) == p.fromKey = p.from
OutPNoCheck(acc, out) == [ck |-> acc.ck, oout |-> acc.oout + out.value]

-----------------------------------------------------------------------------
(* check: the From key owns From, and each input's key owns its output. *)
OwnsAll(p) ==
  /\ p.fromKey = p.from
  /\ \A i \in DOMAIN p.ins : p.ins[i].kind \in {"P", "C"} => p.ins[i].skr = p.ins[i].owner

(* prepare: Out_P inputs are spent as In_P; Out_C inputs as In_C only when *)
(* Z is requested; outputs to super-zk addresses become Out_C only when Z. *)
IsCIn(p, in) == in.kind = "C" /\ p.z
IsCOut(p, out) == out.pkr \in SzkPkrs /\ p.z

(* genCmd: the asset of the last asset-carrying command set, if any. *)
CmdAsset(p) ==
  LET present == SelectSeq(AssetCmds, LAMBDA k : k \in p.cmds)
  IN  IF present = <<>> THEN [has |-> FALSE, value |-> 0]
      ELSE [has |-> TRUE, value |-> p.cmdValue[Last(present)]]

(* An Out_C input under a key that does not own it: ConfirmOutC returns nil. *)
Decrypts(in) == in.kind = "P" \/ in.skr = in.owner

(* genOutsP, one output: ck.AddOut and its asset CC in Oout_accs. *)
OutPCheck(acc, out) == [ck |-> acc.ck - out.value, oout |-> acc.oout + out.value]

-----------------------------------------------------------------------------
Init ==
  /\ param \in Params
  /\ pc = "check"
  /\ p_ins = <<>> /\ c_ins = <<>> /\ c_outs = <<>> /\ p_outs = <<>>
  /\ ck = 0
  /\ bd = EmptyDesc
  /\ s = EmptyTx

Check ==
  /\ pc = "check"
  /\ pc' = IF OwnsAll(param) THEN "prepare" ELSE "failed"
  /\ UNCHANGED <<param, p_ins, c_ins, c_outs, p_outs, ck, bd, s>>

Prepare ==
  /\ pc = "prepare"
  /\ p_ins' = SelectSeq(param.ins, LAMBDA in : in.kind \in {"P", "C"} /\ ~IsCIn(param, in))
  /\ c_ins' = SelectSeq(param.ins, LAMBDA in : IsCIn(param, in))
  /\ c_outs' = SelectSeq(param.outs, LAMBDA o : IsCOut(param, o))
  /\ p_outs' = SelectSeq(param.outs, LAMBDA o : ~IsCOut(param, o))
  /\ pc' = "genFrom"
  /\ UNCHANGED <<param, ck, bd, s>>

GenFrom ==
  /\ pc = "genFrom"
  /\ s' = [s EXCEPT !.from = param.from]
  /\ pc' = "genFee"
  /\ UNCHANGED <<param, p_ins, c_ins, c_outs, p_outs, ck, bd>>

(* genFee: ck = NewCKState(true, fee), the fee's CC in Oout_accs. *)
GenFee ==
  /\ pc = "genFee"
  /\ s' = [s EXCEPT !.fee = param.fee]
  /\ ck' = 0 - param.fee
  /\ bd' = [bd EXCEPT !.oout = @ + param.fee]
  /\ pc' = "genCmd"
  /\ UNCHANGED <<param, p_ins, c_ins, c_outs, p_outs>>

(* genCmd: the commands are copied; PkgCreate's asset goes into the package *)
(* commitment only; PkgClose's commitment goes into Zin_acms; the asset of  *)
(* the last asset-carrying command goes into ck and Oout_accs.             *)
GenCmd ==
  /\ pc = "genCmd"
  /\ LET a == CmdAsset(param) IN
       /\ s' = [s EXCEPT !.cmds = param.cmds, !.cmdValue = a.value,
                         !.create = param.pkg.create, !.createValue = param.pkg.createValue,
                         !.transfer = param.pkg.transfer, !.close = param.pkg.close]
       /\ bd' = [bd EXCEPT !.zin = @ + (IF param.pkg.close THEN param.pkg.closeValue ELSE 0),
                           !.zinN = @ + (IF param.pkg.close THEN 1 ELSE 0),
                           !.oout = @ + a.value]
       /\ ck' = ck - a.value
  /\ pc' = "genInsP"
  /\ UNCHANGED <<param, p_ins, c_ins, c_outs, p_outs>>

(* genInsP: every In_P adds its asset to ck and Oin_accs; an Out_C spent   *)
(* as In_P must decrypt under the input's key.                             *)
GenInsP ==
  /\ pc = "genInsP"
  /\ IF \A i \in DOMAIN p_ins : Decrypts(p_ins[i])
       THEN /\ s' = [s EXCEPT !.insP = [i \in DOMAIN p_ins |->
                        [value |-> p_ins[i].value, owner |-> p_ins[i].owner, sign |-> NoSign]]]
            /\ ck' = ck + ValueOf(p_ins)
            /\ bd' = [bd EXCEPT !.oin = @ + ValueOf(p_ins)]
            /\ pc' = "genInsC"
            /\ UNCHANGED <<param, p_ins, c_ins, c_outs, p_outs>>
       ELSE Fail

(* genInsC: every In_C must decrypt; its commitment goes into Zin_acms. *)
GenInsC ==
  /\ pc = "genInsC"
  /\ IF \A i \in DOMAIN c_ins : Decrypts(c_ins[i])
       THEN /\ s' = [s EXCEPT !.insC = [i \in DOMAIN c_ins |->
                        [value |-> c_ins[i].value, owner |-> c_ins[i].owner, sign |-> NoSign]]]
            /\ bd' = [bd EXCEPT !.zin = @ + ValueOf(c_ins), !.zinN = @ + Len(c_ins)]
            /\ pc' = "genOutsC"
            /\ UNCHANGED <<param, p_ins, c_ins, c_outs, p_outs, ck>>
       ELSE Fail

(* genOutsC: commitments into Zout_acms. *)
GenOutsC ==
  /\ pc = "genOutsC"
  /\ s' = [s EXCEPT !.outsC = c_outs]
  /\ bd' = [bd EXCEPT !.zout = @ + ValueOf(c_outs), !.zoutN = @ + Len(c_outs)]
  /\ pc' = "genOutsP"
  /\ UNCHANGED <<param, p_ins, c_ins, c_outs, p_outs, ck>>

GenOutsP ==
  /\ pc = "genOutsP"
  /\ LET r == FoldLeft(OutPCheck, [ck |-> ck, oout |-> bd.oout], p_outs) IN
       ck' = r.ck /\ bd' = [bd EXCEPT !.oout = r.oout]
  /\ s' = [s EXCEPT !.outsP = p_outs]
  /\ pc' = "signFrom"
  /\ UNCHANGED <<param, p_ins, c_ins, c_outs, p_outs>>

SignFrom ==
  /\ pc = "signFrom"
  /\ s' = [s EXCEPT !.sign = param.fromKey]
  /\ pc' = "signInsP"
  /\ UNCHANGED <<param, p_ins, c_ins, c_outs, p_outs, ck, bd>>

(* signInsP: Ins_P[i] is signed with the key of p_ins[i]. *)
SignInsP ==
  /\ pc = "signInsP"
  /\ s' = [s EXCEPT !.insP = [i \in DOMAIN @ |-> [@[i] EXCEPT !.sign = p_ins[i].skr]]]
  /\ pc' = "signInsC"
  /\ UNCHANGED <<param, p_ins, c_ins, c_outs, p_outs, ck, bd>>

SignInsC ==
  /\ pc = "signInsC"
  /\ s' = [s EXCEPT !.insC = [i \in DOMAIN @ |-> [@[i] EXCEPT !.sign = c_ins[i].skr]]]
  /\ pc' = "signPkg"
  /\ UNCHANGED <<param, p_ins, c_ins, c_outs, p_outs, ck, bd>>

(* signPkg: both branches write Desc_Pkg.Transfer.Sign; with PkgClose and  *)
(* no PkgTransfer, Desc_Pkg.Transfer is nil and the write panics.          *)
SignPkg ==
  /\ pc = "signPkg"
  /\ IF s.close /\ ~s.transfer
       THEN pc' = "panic" /\ UNCHANGED s
       ELSE /\ s' = [s EXCEPT !.transferSign =
                       IF s.transfer \/ s.close THEN param.fromKey ELSE @]
            /\ pc' = "signBalance"
  /\ UNCHANGED <<param, p_ins, c_ins, c_outs, p_outs, ck, bd>>

(* signBalance: the balance proof if any Z commitment exists, else ck.Check(). *)
SignBalance ==
  /\ pc = "signBalance"
  /\ IF bd.zinN > 0 \/ bd.zoutN > 0
       THEN IF bd.oin + bd.zin = bd.oout + bd.zout
              THEN pc' = "done" /\ s' = [s EXCEPT !.bcr = TRUE]
              ELSE pc' = "failed" /\ UNCHANGED s
       ELSE /\ pc' = IF ck = 0 THEN "done" ELSE "failed"
            /\ UNCHANGED s
  /\ UNCHANGED <<param, p_ins, c_ins, c_outs, p_outs, ck, bd>>

Next ==
  \/ Check \/ Prepare \/ GenFrom \/ GenFee \/ GenCmd \/ GenInsP \/ GenInsC
  \/ GenOutsC \/ GenOutsP \/ SignFrom \/ SignInsP \/ SignInsC \/ SignPkg
  \/ SignBalance

Spec == Init /\ [][Next]_vars

-----------------------------------------------------------------------------
Built == pc = "done"
InValue(t) == ValueOf(t.insP) + ValueOf(t.insC)
OutValue(t) == ValueOf(t.outsP) + ValueOf(t.outsC)

(* Conservation (spec 8): a transaction built without any command spends  *)
(* exactly what it pays out plus the fee, whichever of the two balance     *)
(* checks (ck.Check or the balance proof) signBalance took, and whichever   *)
(* encoding prepare routed each input and output to.                        *)
ConservationWithoutCommands ==
  (Built /\ s.cmds = {} /\ ~s.create /\ ~s.transfer /\ ~s.close)
    => InValue(s) = s.fee + OutValue(s)

(* A built transaction is authorised: From is signed by its own key, and   *)
(* every input, In_P or In_C, carries a signature by the key owning the    *)
(* output it spends (check, then signInsP/signInsC pairing Ins_P[i] with   *)
(* p_ins[i]).                                                               *)
InputsAuthorized ==
  Built =>
    /\ s.sign = s.from
    /\ \A i \in DOMAIN s.insP : s.insP[i].sign = s.insP[i].owner
    /\ \A i \in DOMAIN s.insC : s.insC[i].sign = s.insC[i].owner

====
