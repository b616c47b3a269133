----------------------------- MODULE Preflight ------------------------------
(***************************************************************************)
(* What is refused before a GPU is used: the invariants compose_config.py  *)
(* checks of a composed training configuration, and check_env.py's checks  *)
(* of the machine it is about to run on.  A configuration c is a record of *)
(* the leaves the checks read (a dotted path abbreviated to its last       *)
(* names), e is the environment: the machine, its variables and the        *)
(* options.  A check is the set of the problems it names; warnings change  *)
(* no verdict and are left out, so that what a check passes over in        *)
(* silence is simply a problem it never names.                             *)
(***************************************************************************)
EXTENDS Integers, Sequences

NoValue == "null"               \* a null leaf, an environment variable nobody set
Null == -1                      \* the same of a number
Of(problem, holds) == IF holds THEN {problem} ELSE {}

----------------------------------------------------------------------------
PlanSchedules ==
    [LoRA |-> {<<"1e-5", "constant">>, <<"2e-6", "cosine">>, <<"5e-6", "cosine">>},
     full |-> {<<"1e-6", "constant">>}]
Kind(c) == IF c.loraRank > 0 THEN "LoRA" ELSE "full"

\* Precision and attention, as the hardware profile of the configuration wants them.
HardwareProblems(c, e) ==
    (CASE c.hwProfile = "sm75" ->
            Of("bf16 leaf", \E leaf \in {"dtype", "actorDtype", "refDtype", "actorParam", "refParam", "modelDtype"} :
                              c[leaf] \in {"bf16", "bfloat16"})
            \cup Of("rollout.dtype", c.dtype # "float16")
            \cup Of("mixed_precision", \E role \in {"actorParam", "refParam"} : c[role] # "fp16")
            \cup Of("attention_backend", c.backend # "TRITON_ATTN")
       [] c.hwProfile = "h100" ->
            Of("rollout.dtype", c.dtype # "bfloat16")
            \cup Of("mixed_precision", <<c.actorParam, c.refParam, c.actorDtype, c.refDtype>>
                                         # <<"bf16", "bf16", "bfloat16", "bfloat16">>)
            \cup Of("attention_backend", c.backend # "FLASH_ATTN")
       [] OTHER -> {"hw_profile"})
    \cup Of("MC_HW_PROFILE", e.hw # NoValue /\ c.hwProfile # e.hw)
    \cup Of("attn_implementation", c.attention # "sdpa")
    \cup Of("use_remove_padding", c.removePadding)

\* D4: the group is n_std + n_cuts rollouts of one prompt, and the engine knows CUTS.
BudgetProblems(c) ==
    Of("group_size", c.groupSize = Null)
    \cup Of("budget", c.groupSize # Null /\ c.enabled /\ c.nStd + c.nCuts # c.groupSize)
    \cup Of("rollout.n", c.groupSize # Null /\ c.rolloutN # c.groupSize)
    \cup Of("logits processor", c.enabled /\ c.nCuts > 0 /\ "CutsLogitsProcessor" \notin c.processors)
    \cup Of("CUTS hyperparameters", c.cuts # <<5, "0.03", 5>>)

\* D1: the actor recomputes old_log_probs; D2: the paper's decoding and loss.
RecipeProblems(c) ==
    Of("rollout_correction", c.rolloutIs # NoValue \/ c.rolloutRs # NoValue)
    \cup Of("bypass_mode", c.bypass)
    \cup Of("calculate_log_probs", c.engineLogProbs)
    \cup Of("temperature/top_p", c.sampling # <<"1.0", "1.0">>)
    \cup Of("val_kwargs", c.valSampling # <<"1.0", "0.8", 20>>)
    \cup Of("enable_thinking", c.thinking)
    \cup Of("kl_loss", ~c.klLoss \/ c.klCoef # "1e-3")
    \cup Of("kl_loss_type", c.klType # "low_var_kl+")
    \cup Of("loss_agg_mode", c.aggregation # "seq-mean-token-mean")

\* Mutant: the replica may span fewer GPUs than the job has.
ReplicaProblemsAnyTp(c, e) ==
    Of("nnodes", c.nnodes # 1) \cup Of("MC_SLURM_GPUS", e.slurmGpus # Null /\ e.slurmGpus # c.nGpus)

\* One node, and one replica over all the GPUs of the job.
ReplicaProblems(c, e) ==
    Of("nnodes", c.nnodes # 1)
    \cup Of("tensor_model_parallel_size", c.tp # c.nGpus)
    \cup Of("MC_SLURM_GPUS", e.slurmGpus # Null /\ e.slurmGpus # c.nGpus)

LayoutProblems(c) ==
    Of("num_cpus", ~c.numCpusSet)
    \cup Of("worker hook", ~c.hookInstalled)
    \cup Of("NCCL variables", c.nGpus > 1 /\ ~c.ncclDisabled)
    \cup Of("cache engine", ~c.freeCacheEngine)
    \cup Of("gradient checkpointing", ~c.gradientCheckpointing)
    \cup Of("manager", ~c.ourManager)

\* What a job on one GPU has to give up.
OneGpuProblems(c) ==
    IF c.nGpus # 1 THEN {}
    ELSE Of("LoRA wanted", c.loraRank <= 0 /\ c.hwProfile = "sm75")
         \cup Of("offload_policy", c.hwProfile = "sm75" /\ ~c.offload)
         \cup Of("lora.merge", c.loraRank > 0 /\ ~c.loraMerge)
         \cup Of("use_fused_kernels", ~c.fusedKernels)
         \cup Of("save_lora_only", c.loraRank > 0 /\ ~c.saveLoraOnly)
         \cup Of("object_store_memory", c.hwProfile = "sm75" /\ c.objectStoreGb > 6)
         \cup Of("agent.num_workers", c.hwProfile = "sm75" /\ c.agentWorkers > 2)
         \cup Of("dataloader_num_workers", c.hwProfile = "sm75" /\ c.loaderWorkers > 2)
         \cup Of("reward.num_workers", c.hwProfile = "sm75" /\ c.rewardWorkers > 2)

MemoryPlanProblems(c) ==
    Of("lr", <<c.lr, c.schedule>> \notin PlanSchedules[Kind(c)])
    \cup Of("model_dtype", c.loraRank > 0 /\ c.modelDtype # "fp32")
    \cup Of("strategy", c.loraRank > 0 /\ c.strategy # "fsdp2")

\* Token budgets, dynamic or (the documented rung) a fixed micro-batch of one sequence.
Engines == {"actor", "rollout", "ref"}
BatchingProblems(c) ==
    LET longest == c.maxPrompt + c.maxResponse
        dyn == \A g \in Engines : c.dynamic[g]
        fallback == ~c.dynamic["actor"] /\ c.micro["actor"] = 1
    IN Of("use_dynamic_bsz", ~dyn /\ ~fallback)
       \cup Of("token budget", c.maxModelLen < longest \/ \E g \in Engines : c.budget[g] < longest)
       \cup Of("micro_batch_size", \E g \in Engines : c.dynamic[g] /\ c.micro[g] # Null)

\* One seed for all, an automatic resume, and everything under the run directory.
ResumeProblems(c) ==
    Of("seed", c.seed = Null \/ \E s \in c.seeds : s # c.seed)
    \cup Of("resume_mode", c.resumeMode # "auto")
    \cup Of("default_local_dir", ~c.savesInRunDir)
    \cup Of("experiment_name", ~c.namedAfterRun)
    \cup Of("trainer_mode", ~c.useV1 \/ c.trainerMode # "mixed_cuts_sync")
    \cup Of("compute_score", ~c.ourReward)

Check(c, e) ==
    UNION {HardwareProblems(c, e), BudgetProblems(c), RecipeProblems(c), ReplicaProblems(c, e), LayoutProblems(c),
           OneGpuProblems(c), MemoryPlanProblems(c), BatchingProblems(c), ResumeProblems(c)}

----------------------------------------------------------------------------
\* The hardware profiles of check_env.py; a compute capability is 10 * major + minor.
Profiles ==
    [sm75 |-> [cc |-> 75, arch |-> "sm_75", bf16 |-> FALSE, backend |-> "TRITON_ATTN"],
     h100 |-> [cc |-> 90, arch |-> "sm_90", bf16 |-> TRUE, backend |-> "FLASH_ATTN"]]
\* hw_profile: an unset or unknown name counts as sm75.
HwProfile(e) == IF e.hw \in DOMAIN Profiles THEN Profiles[e.hw] ELSE Profiles["sm75"]

\* (External: vLLM and the cards.) The attention backends a capability supports, bf16 on it, and
\* the one memory-efficient SDPA kernel.
Supports(cc) == IF cc >= 80 THEN <<"FLASH_ATTN", "TRITON_ATTN">> ELSE IF cc >= 70 THEN <<"TRITON_ATTN">> ELSE <<>>
HasBf16(cc) == cc >= 80

CheckPython(e) == Of("python", ~e.pythonIsNew)

CheckPins(e) ==
    Of("import", \E m \in DOMAIN e.packages : e.packages[m] = "broken")
    \cup Of("version", \E m \in DOMAIN e.packages : e.packages[m] = "other")

\* check_driver: /proc first, then nvidia-smi.  A driver of 0 is one neither of them reports.
CheckDriver(e) ==
    LET driver == IF e.procDriver # Null THEN e.procDriver ELSE e.smiDriver
    IN Of("nvidia driver", driver < e.minDriver)

\* check_gpu stops at the first of its preconditions that fails, then looks at every card.
CheckCard(e, cc) ==
    LET prof == HwProfile(e)
    IN Of("gpu", cc # prof.cc /\ (cc < 70 \/ (prof.bf16 /\ cc < 80) \/ ~prof.bf16))

CheckGpu(e) ==
    LET prof == HwProfile(e)
        before == Of("torch CUDA runtime", ~e.cuda129) \cup Of("torch arch list", prof.arch \notin e.wheelArchs)
    IN IF e.packages["torch"] = "broken" THEN {"torch import"}
       ELSE IF e.gpus = <<>> THEN {"cuda"}
       ELSE IF ~e.cudaInit THEN before \cup {"cuda init"}
       ELSE before
            \cup UNION {CheckCard(e, e.gpus[i]) : i \in DOMAIN e.gpus}
            \cup Of("sdpa", ~e.sdpaKernel)
            \cup Of("bf16", prof.bf16 /\ ~HasBf16(e.gpus[1]))
            \cup Of("VLLM_USE_V2_MODEL_RUNNER", e.v2Runner \notin {NoValue, "", "0"})

CheckVllmEngine(e) ==
    IF e.packages["vllm"] = "broken" THEN {"vllm engine import"}
    ELSE Of("vLLM engine version", ~e.v1Engine)
         \cup Of("VLLM_USE_V2_MODEL_RUNNER", e.v2Runner \notin {NoValue, ""})
         \cup Of("logits processor interface", ~e.processorFits)

\* The backend the profile pins must be one of the first card's; a broken import is a warning.
CheckAttentionBackend(e) ==
    Of("attention backend",
       /\ \A m \in {"torch", "vllm"} : e.packages[m] # "broken"
       /\ e.gpus # <<>>
       /\ \A i \in DOMAIN Supports(e.gpus[1]) : Supports(e.gpus[1])[i] # HwProfile(e).backend)

\* check_single_node compares what is visible with the layout of the env file, if both are known.
CheckSingleNode(e) ==
    Of("single node", e.nodes \notin {Null, 1})
    \cup Of("visible GPUs", e.visible # Null /\ e.slurmGpus # Null /\ e.slurmGpus # e.visible)

CheckStorage(e) ==
    Of("not writable", \E d \in {"stage", "scratch", "cache"} : e.dirs[d] = "readonly")
    \cup Of("MC_CACHE_ROOT", e.hasScratch /\ ~e.cacheOnScratch)

CheckDurableDir(e) == Of("not writable", \E d \in {"run", "durable"} : e.dirs[d] = "readonly")

CheckStaged(e) ==
    IF ~e.stagingEnv THEN {"staging env"} ELSE Of("staged", e.staged # {"model", "data"})

\* check_chat_template renders one prompt both ways; without a tokenizer it only warns.
CheckChatTemplate(e) ==
    IF ~e.tokenizer THEN {}
    ELSE IF e.packages["transformers"] = "broken" THEN {"chat template"}
    ELSE Of("empty think block", ~e.template.offEndsEmpty)
         \cup Of("enable_thinking", e.template.onEndsEmpty)
         \cup Of("system prompt", ~e.template.system)
         \cup Of("think tokens", ~e.template.singleTokens)

CheckConfig(e, c) ==
    Check(c, e) \cup Of("CUDA_VISIBLE_DEVICES", e.visible # Null /\ e.visible # c.nGpus)

\* main: the problems that make its exit code 1, for a set of its options.
Main(e, c, options) ==
    LET config == IF "--config" \in options THEN CheckConfig(e, c) ELSE {}
        Unless(option, problems) == IF option \in options THEN {} ELSE problems
    IN config \cup CheckChatTemplate(e)
       \cup Unless("--only-config",
              UNION {CheckPython(e), CheckSingleNode(e), CheckStorage(e), CheckDurableDir(e),
                     Unless("--no-pins", CheckPins(e)),
                     Unless("--no-gpu", UNION {CheckDriver(e), CheckGpu(e), CheckVllmEngine(e),
                                               CheckAttentionBackend(e)}),
                     Unless("--no-staged", CheckStaged(e))})

\* A training job calls it twice (mc_job_init, mc_train_main): once for the machine, and, when the
\* model is staged, once for the configuration; either exit code 1 ends the job.
Preflight(e, c) == Main(e, c, {"--no-staged"}) \cup Main(e, c, {"--only-config", "--config"})

----------------------------------------------------------------------------
\* What the launch needs of the pair, said of the machine: every card runs the dtype and the
\* attention backend of the configuration, one replica spans exactly the cards the job sees, and
\* the driver starts the wheels.
RunsHere(e, c) ==
    /\ \A i \in DOMAIN e.gpus :
         /\ \E j \in DOMAIN Supports(e.gpus[i]) : Supports(e.gpus[i])[j] = c.backend
         /\ c.dtype = "bfloat16" => HasBf16(e.gpus[i])
    /\ c.tp = e.visible /\ c.tp = e.slurmGpus /\ e.nodes \in {Null, 1}
    /\ e.cudaInit /\ (IF e.procDriver # Null THEN e.procDriver ELSE e.smiDriver) >= e.minDriver
    /\ e.v1Engine /\ e.v2Runner \in {NoValue, ""}

\* What the trainer and the agent loop want of the mixed_cuts block at their start: MixedCutsConfig's
\* __post_init__ and validate_against_rollout_n, and plan_group for a prompt of rollout.n rollouts.
StartsWith(c) ==
    /\ c.nStd >= 0 /\ c.nCuts >= 0
    /\ c.enabled => c.nStd + c.nCuts # 0 /\ c.nStd + c.nCuts = c.groupSize
    /\ c.enabled => c.groupSize = c.rolloutN
    /\ c.useV1

\* "the actor must recompute old_log_probs" for every sequence: each micro-batch of any engine can
\* hold the longest one, and none of them has two ways to be cut.
EverySequenceFits(c) ==
    \A g \in Engines : c.budget[g] >= c.maxPrompt + c.maxResponse /\ ~(c.dynamic[g] /\ c.micro[g] # Null)

\* A job that passes both calls, with the variables every env file sets, runs on this machine,
\* starts, and fits its micro-batches.
AcceptedRuns(e, c) ==
    (Preflight(e, c) = {} /\ e.hw # NoValue /\ e.slurmGpus # Null /\ e.visible # Null) =>
        RunsHere(e, c) /\ StartsWith(c) /\ EverySequenceFits(c)
=============================================================================
