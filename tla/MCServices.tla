----------------------------- MODULE MCServices -----------------------------
(***************************************************************************)
(* One run for the machines around the vLLM connector and the cache store: *)
(* a behaviour deploys exactly one of them, the others stay off.  The      *)
(* machines do not share state; each set of setups may be empty.           *)
(***************************************************************************)
EXTENDS MCHybrid, MCSparse, MCHosts

Nothing == {}

HybridOff   == /\ hcfg = <<>> /\ hleft = <<>> /\ hreq = <<>> /\ hmeta = NoMeta /\ hjob = NoJob /\ hpc = "off"
               /\ hrow = 0 /\ hload = {} /\ hpend = {} /\ hmem = <<>> /\ hstore = <<>>
LayoutOff   == /\ lcfg = <<>> /\ lcaches = <<>> /\ lrows = <<>> /\ lstore = NoStore /\ lmoved = NoMove /\ lpc = "off"
HitOff      == /\ ncfg = <<>> /\ nhit = 0 /\ ncurr = 0 /\ nidx = 0 /\ nblocks = <<>> /\ nseen = {} /\ nreq = <<>>
               /\ npc = "off"
SparseOff   == /\ scfg = <<>> /\ spc = "off" /\ sidx = 0 /\ sreq = <<>> /\ srun = <<>> /\ swait = <<>> /\ spool = <<>>
               /\ splan = <<>> /\ stold = {} /\ spre = <<>> /\ saborts = 0 /\ wreq = <<>> /\ wrow = <<>> /\ wst = <<>>
               /\ wslots = {} /\ smem = <<>> /\ sfly = {} /\ serr = {}
GsaOff      == /\ gcfg = <<>> /\ gpc = "off" /\ gat = <<>> /\ greq = <<>> /\ gtab = <<>> /\ gplan = GNoPlan
               /\ gleft = 0 /\ gflag = <<>> /\ gs = GNoSparse /\ gm = <<>> /\ gkv = <<>> /\ ghash = <<>>
               /\ gcap = <<>> /\ goff = {} /\ gerr = {}
BlendOff    == /\ bcfg = [bs |-> 1] /\ bpc = "off" /\ breq = <<>> /\ btab = <<>> /\ bleft = 0 /\ bmeta = <<>>
               /\ bstore = <<>> /\ bstep = BNoStep /\ bdisp = <<>> /\ bkv = <<>> /\ blayer = 0
               /\ bw = BNoWork /\ bx = BNoRows
MindieOff   == /\ mcfg = <<>> /\ mpc = "off" /\ mclock = 0 /\ muid = <<>> /\ mfile = <<>> /\ mbatch = MNoBatch
               /\ mph = <<>> /\ mqueue = <<>> /\ mdone = {} /\ mtab = <<>> /\ mkv = <<>> /\ mstore = <<>>
               /\ mfails = 0 /\ mlost = FALSE /\ moff = FALSE
MooncakeOff == /\ ocfg = <<>> /\ opc = <<>> /\ oflag = FALSE /\ otid = 0 /\ otasks = <<>> /\ oid = <<>> /\ ofut = <<>>
               /\ oq = <<>> /\ oturn = 0 /\ ocur = <<>> /\ oloop = "off" /\ oshut = "none" /\ otodo = {} /\ okeys = {}
               /\ oclosed = FALSE /\ odst = <<>> /\ oput = <<>> /\ oret = <<>> /\ oknown = <<>> /\ ofaults = <<>>
SglangOff   == /\ ycfg = <<>> /\ ypc = "off" /\ yconn = <<>> /\ ypool = <<>> /\ ytree = <<>> /\ yop = <<>> /\ yans = <<>>
               /\ ynative = <<>> /\ yback = {} /\ yops = 0 /\ yfaults = 0 /\ ylost = FALSE
PipelineOff == zcfg = <<>> /\ zpc = "off" /\ zstack = <<>>
PosixOff    == /\ fcfg = <<>> /\ fjob = <<>> /\ ffail = {} /\ fq = <<>> /\ fwork = <<>> /\ fino = <<>> /\ fdir = <<>>
               /\ fmem = <<>> /\ fgc = <<>> /\ flook = <<>> /\ fstruck = {} /\ fpc = "off"
BreakerOff  == /\ kcfg = <<>> /\ kth = <<>> /\ kwork = <<>> /\ kwin = <<>> /\ kfail = 0 /\ kon = TRUE /\ klog = <<>>
               /\ kpc = "off"
MetricsOff  == /\ ecfg = <<>> /\ enat = <<>> /\ ebuf = <<>> /\ elog = <<>> /\ erole = <<>> /\ ephase = "off"
               /\ estats = <<>> /\ eprom = <<>> /\ etrue = <<>> /\ eleft = <<>>
StartOff    == ucfg = <<>> /\ uproc = <<>> /\ uid = <<>> /\ ufiles = <<>> /\ uask = <<>> /\ umetas = <<>>
CpuOff      == qcfg = <<>> /\ qaff = <<>> /\ qsplit = <<>> /\ qbound = <<>> /\ qroles = <<>> /\ qpc = <<>>
PatchOff    == /\ wcfg = <<>> /\ wtodo = <<>> /\ whooks = <<>> /\ wmods = {} /\ wflag = {} /\ wlate = <<>>
               /\ wimpl = <<>> /\ wfails = 0 /\ wpc = "off"

ModelsOff == HybridOff /\ LayoutOff /\ HitOff
AttentionOff == SparseOff /\ GsaOff /\ BlendOff
StoresOff == MindieOff /\ MooncakeOff /\ SglangOff /\ PipelineOff /\ PosixOff /\ BreakerOff
ProcessOff == MetricsOff /\ StartOff /\ CpuOff /\ PatchOff

modelVars == <<hvars, lvars, nvars>>
attentionVars == <<svars, gvars, bvars>>
storeVars == <<mvars, ovars, yvars, zvars, fvars, kvars>>
processVars == <<evars, uvars, qvars, wvars>>

ServicesInit ==
  \/ /\ AttentionOff /\ StoresOff /\ ProcessOff
     /\ \/ HybridInit /\ LayoutOff /\ HitOff
        \/ HybridOff /\ LayoutInit /\ HitOff
        \/ HybridOff /\ LayoutOff /\ HitInit
  \/ /\ ModelsOff /\ StoresOff /\ ProcessOff
     /\ \/ SparseInit /\ GsaOff /\ BlendOff
        \/ SparseOff /\ GsaInit /\ BlendOff
        \/ SparseOff /\ GsaOff /\ BlendInit
  \/ /\ ModelsOff /\ AttentionOff /\ ProcessOff
     /\ \/ MindieInit /\ MooncakeOff /\ SglangOff /\ PipelineOff /\ PosixOff /\ BreakerOff
        \/ MindieOff /\ MooncakeInit /\ SglangOff /\ PipelineOff /\ PosixOff /\ BreakerOff
        \/ MindieOff /\ MooncakeOff /\ SglangInit /\ PipelineOff /\ PosixOff /\ BreakerOff
        \/ MindieOff /\ MooncakeOff /\ SglangOff /\ PipelineInit /\ PosixOff /\ BreakerOff
        \/ MindieOff /\ MooncakeOff /\ SglangOff /\ PipelineOff /\ PosixInit /\ BreakerOff
        \/ MindieOff /\ MooncakeOff /\ SglangOff /\ PipelineOff /\ PosixOff /\ BreakerInit
  \/ /\ ModelsOff /\ AttentionOff /\ StoresOff
     /\ \/ MetricsInit /\ StartOff /\ CpuOff /\ PatchOff
        \/ MetricsOff /\ StartInit /\ CpuOff /\ PatchOff
        \/ MetricsOff /\ StartOff /\ CpuInit /\ PatchOff
        \/ MetricsOff /\ StartOff /\ CpuOff /\ PatchInit

ServicesNext ==
  \/ /\ hpc # "off" /\ HybridNext /\ UNCHANGED <<lvars, nvars, attentionVars, storeVars, processVars>>
  \/ /\ lpc # "off" /\ LayoutNext /\ UNCHANGED <<hvars, nvars, attentionVars, storeVars, processVars>>
  \/ /\ npc # "off" /\ HitNext /\ UNCHANGED <<hvars, lvars, attentionVars, storeVars, processVars>>
  \/ /\ spc # "off" /\ SparseNext /\ UNCHANGED <<modelVars, gvars, bvars, storeVars, processVars>>
  \/ /\ gpc # "off" /\ GsaNext /\ UNCHANGED <<modelVars, svars, bvars, storeVars, processVars>>
  \/ /\ bpc # "off" /\ BlendNext /\ UNCHANGED <<modelVars, svars, gvars, storeVars, processVars>>
  \/ /\ mpc # "off" /\ MindieNext /\ UNCHANGED <<modelVars, attentionVars, ovars, yvars, zvars, fvars, kvars, processVars>>
  \/ /\ oloop # "off" /\ MooncakeNext /\ UNCHANGED <<modelVars, attentionVars, mvars, yvars, zvars, fvars, kvars, processVars>>
  \/ /\ ypc # "off" /\ SglangNext /\ UNCHANGED <<modelVars, attentionVars, mvars, ovars, zvars, fvars, kvars, processVars>>
  \/ /\ zpc # "off" /\ PipelineNext /\ UNCHANGED <<modelVars, attentionVars, mvars, ovars, yvars, fvars, kvars, processVars>>
  \/ /\ fpc # "off" /\ PosixNext /\ UNCHANGED <<modelVars, attentionVars, mvars, ovars, yvars, zvars, kvars, processVars>>
  \/ /\ kpc # "off" /\ BreakerNext /\ UNCHANGED <<modelVars, attentionVars, mvars, ovars, yvars, zvars, fvars, processVars>>
  \/ /\ ephase # "off" /\ MetricsNext /\ UNCHANGED <<modelVars, attentionVars, storeVars, uvars, qvars, wvars>>
  \/ /\ uproc # <<>> /\ StartNext /\ UNCHANGED <<modelVars, attentionVars, storeVars, evars, qvars, wvars>>
  \/ /\ qpc # <<>> /\ CpuNext /\ UNCHANGED <<modelVars, attentionVars, storeVars, evars, uvars, wvars>>
  \/ /\ wpc # "off" /\ PatchNext /\ UNCHANGED <<modelVars, attentionVars, storeVars, evars, uvars, qvars>>

ServicesSpec == ServicesInit /\ [][ServicesNext]_<<modelVars, attentionVars, storeVars, processVars>>
=============================================================================
