---------------------------- MODULE MCCrawlRun ----------------------------
(* Command lines for TLC: those that job_registry.py gives the annual jobs, *)
(* and other combinations that archive_tool/cli.py takes.                   *)
EXTENDS CrawlRun

\* Health Canada and PHAC; and a job that may resume and does not wait.
Annual == {"managed", "freshOnly", "autoReset", "fallback", "monitoring", "backoff", "skipBuild"}
AnnualOptions == {Annual, Annual \ {"freshOnly", "backoff"}}

\* A ZIM is built, is replaced or is in the way; temp directories are cleaned up.
Manual == {"monitoring"}
ManualOptions == {Manual, Manual \cup {"overwrite", "autoReset"},
                  Manual \cup {"cleanup", "skipBuild"}}

FreshOnlyOptions == {Annual}
ResumingOptions == {{"managed", "monitoring", "skipBuild"}}
===========================================================================
