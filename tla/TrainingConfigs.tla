-------------------------- MODULE TrainingConfigs ---------------------------
(***************************************************************************)
(* The training configurations of configs/train and the environments of    *)
(* configs/*.env.sh, as far as Preflight reads them, and how Hydra merges  *)
(* them: layout and memory plan first, the body of base_grpo.yaml over     *)
(* them, the arm's own file over that, the hardware profile where the      *)
(* defaults list puts it.                                                  *)
(***************************************************************************)
EXTENDS Preflight

Interpolated == -2              \* ${seed}, ${mixed_cuts.group_size}

Body ==
    [enabled |-> TRUE, groupSize |-> 16, nStd |-> 8, nCuts |-> 8, rolloutN |-> Interpolated,
     cuts |-> <<5, "0.03", 5>>, processors |-> {"CutsLogitsProcessor"},
     rolloutIs |-> NoValue, rolloutRs |-> NoValue, bypass |-> FALSE, engineLogProbs |-> FALSE,
     sampling |-> <<"1.0", "1.0">>, valSampling |-> <<"1.0", "0.8", 20>>, thinking |-> FALSE,
     klLoss |-> TRUE, klCoef |-> "1e-3", klType |-> "low_var_kl+", aggregation |-> "seq-mean-token-mean",
     nnodes |-> 1, hookInstalled |-> TRUE, freeCacheEngine |-> TRUE, gradientCheckpointing |-> TRUE,
     ourManager |-> TRUE, fusedKernels |-> TRUE, maxPrompt |-> 1024, maxResponse |-> 5000,
     maxModelLen |-> 6144, budget |-> [g \in Engines |-> 6144], dynamic |-> [g \in Engines |-> TRUE],
     micro |-> [g \in Engines |-> Null], seed |-> 42, seeds |-> {Interpolated}, resumeMode |-> "auto",
     savesInRunDir |-> TRUE, namedAfterRun |-> TRUE, useV1 |-> TRUE,
     trainerMode |-> "mixed_cuts_sync", ourReward |-> TRUE]

\* verl's own ppo_trainer, the first of the defaults list, for what only some layers set.
VerlDefaults == [rewardWorkers |-> 8, ncclDisabled |-> FALSE, schedule |-> "constant", numCpusSet |-> FALSE]

Layout ==
    [nlp_4gpu |-> [nGpus |-> 4, tp |-> 4, numCpusSet |-> TRUE, objectStoreGb |-> 16,
                   agentWorkers |-> 4, loaderWorkers |-> 4, ncclDisabled |-> TRUE],
     research_1gpu |-> [nGpus |-> 1, tp |-> 1, numCpusSet |-> TRUE, objectStoreGb |-> 2,
                        agentWorkers |-> 1, loaderWorkers |-> 0, rewardWorkers |-> 2],
     kaggle_t4 |-> [nGpus |-> 1, tp |-> 1, numCpusSet |-> TRUE, objectStoreGb |-> 2,
                    agentWorkers |-> 1, loaderWorkers |-> 0, rewardWorkers |-> 2],
     h100_1gpu |-> [nGpus |-> 1, tp |-> 1, numCpusSet |-> TRUE, objectStoreGb |-> 16,
                    agentWorkers |-> 4, loaderWorkers |-> 2]]

Lora(lr, schedule, offload) ==
    [loraRank |-> 64, loraMerge |-> TRUE, strategy |-> "fsdp2", lr |-> lr, schedule |-> schedule,
     modelDtype |-> "fp32", offload |-> offload, saveLoraOnly |-> TRUE]
FullFt(offload) ==
    [loraRank |-> 0, loraMerge |-> FALSE, strategy |-> "fsdp2", lr |-> "1e-6", schedule |-> "constant",
     modelDtype |-> "fp32", offload |-> offload, saveLoraOnly |-> FALSE]
MemoryPlan ==
    [plan_b_lora |-> Lora("1e-5", "constant", TRUE), plan_b_lora_gpu |-> Lora("1e-5", "constant", FALSE),
     plan_b_lora_calibrated |-> Lora("5e-6", "cosine", TRUE),
     plan_b_lora_calibrated_gpu |-> Lora("2e-6", "cosine", FALSE),
     plan_a_fullft_offload |-> FullFt(TRUE), plan_a_manual_offload |-> FullFt(FALSE),
     plan_a_fullft_gpu |-> FullFt(FALSE)]

\* The leaves of a layer over those of the layer below it.
Over(f, g) == [leaf \in DOMAIN f \cup DOMAIN g |-> IF leaf \in DOMAIN f THEN f[leaf] ELSE g[leaf]]

Precision(dtype, param, backend) ==
    [dtype |-> dtype, actorDtype |-> dtype, refDtype |-> dtype, actorParam |-> param,
     refParam |-> param, backend |-> backend, attention |-> "sdpa", removePadding |-> FALSE]
HopperBudget == [actor |-> 32768, rollout |-> 65536, ref |-> 65536]
Hardware ==
    [sm75 |-> Over(Precision("float16", "fp16", "TRITON_ATTN"), [hwProfile |-> "sm75"]),
     h100 |-> Over(Precision("bfloat16", "bf16", "FLASH_ATTN"),
                   [hwProfile |-> "h100", budget |-> HopperBudget])]

\* The arms and the smoke test, over base_grpo.
Arm ==
    [math_mixed_cuts |-> [nStd |-> 8, nCuts |-> 8],
     math_grpo |-> [nStd |-> 16, nCuts |-> 0],
     smoke |-> [groupSize |-> 4, nStd |-> 2, nCuts |-> 2, maxPrompt |-> 512, maxResponse |-> 512,
                maxModelLen |-> 1536, budget |-> [g \in Engines |-> 2048], agentWorkers |-> 2]]

\* Mutant: verl's defaults are merged after the layout.
MergedDefaultsLast(arm, layout, memory, hardware) ==
    Over(VerlDefaults, Over(Arm[arm], Over(Hardware[hardware], Over(Body, Over(MemoryPlan[memory], Layout[layout])))))

\* compose_train_config: the later layer of the defaults list stands over the earlier ones.
Merged(arm, layout, memory, hardware) ==
    Over(Arm[arm], Over(Hardware[hardware], Over(Body, Over(MemoryPlan[memory], Over(Layout[layout], VerlDefaults)))))
Compose(arm, layout, memory, hardware) ==
    LET c == Merged(arm, layout, memory, hardware)
    IN [c EXCEPT !.rolloutN = IF @ = Interpolated THEN c.groupSize ELSE @,
                 !.seeds = {IF s = Interpolated THEN c.seed ELSE s : s \in @}]

\* What an env file sets: the layout named in MC_TRAIN_OVERRIDES (base_grpo's default if it names
\* none), the memory plan, the profile and MC_SLURM_GPUS.
EnvFile ==
    [nlp_4gpu |-> [layout |-> "nlp_4gpu", memory |-> "plan_b_lora_calibrated", hw |-> "sm75", slurmGpus |-> 4],
     research_1gpu |-> [layout |-> "nlp_4gpu", memory |-> "plan_b_lora_calibrated", hw |-> "sm75", slurmGpus |-> 1],
     kaggle |-> [layout |-> "kaggle_t4", memory |-> "plan_b_lora", hw |-> "sm75", slurmGpus |-> 1],
     jarvis |-> [layout |-> "h100_1gpu", memory |-> "plan_a_fullft_gpu", hw |-> "h100", slurmGpus |-> 1]]
ConfigOf(site, arm) ==
    LET f == EnvFile[site] IN Compose(arm, f.layout, f.memory, f.hw)

\* A machine of that site on which nothing is amiss.
MachineOf(site) ==
    LET f == EnvFile[site]
        cc == IF f.hw = "h100" THEN 90 ELSE 75
    IN [hw |-> f.hw, slurmGpus |-> f.slurmGpus, visible |-> f.slurmGpus, nodes |-> 1,
        gpus |-> [i \in 1 .. f.slurmGpus |-> cc], packages |-> [m \in {"torch", "vllm", "transformers"} |-> "pinned"],
        pythonIsNew |-> TRUE, procDriver |-> 580, smiDriver |-> 580, minDriver |-> 525,
        cudaInit |-> TRUE, cuda129 |-> TRUE, wheelArchs |-> {"sm_75", "sm_80", "sm_90"},
        sdpaKernel |-> TRUE, v2Runner |-> NoValue, v1Engine |-> TRUE, processorFits |-> TRUE,
        dirs |-> [d \in {"stage", "scratch", "cache", "run", "durable"} |-> "writable"],
        hasScratch |-> TRUE, cacheOnScratch |-> TRUE, stagingEnv |-> TRUE, staged |-> {"model", "data"},
        tokenizer |-> TRUE,
        template |-> [offEndsEmpty |-> TRUE, onEndsEmpty |-> FALSE, system |-> TRUE, singleTokens |-> TRUE]]

\* The verdict on a site's own configuration and machine: accepted, except that the one-GPU layout
\* of Ada names no layout in MC_TRAIN_OVERRIDES (ada.env.sh:147), composes the four-GPU one, and is
\* refused at the first check that compares the two.
SitesAreDecided(site, arm) ==
    LET problems == Preflight(MachineOf(site), ConfigOf(site, arm))
    IN IF site = "research_1gpu" THEN {"MC_SLURM_GPUS", "CUDA_VISIBLE_DEVICES"} = problems ELSE problems = {}
=============================================================================
